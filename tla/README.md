# HeyCode: a verification project

HeyCode is a coding agent: a terminal (or headless) program that keeps a
conversation in a durable session log, sends it to a model, runs the tools the
model asks for, and accepts input from people, timers, background jobs and other
agents while it works. This directory models the parts of it where several
actors meet, checks them with TLC and proves what can be proved with TLAPS.

`PROJECT.json` lists the components, the runs, the source lines behind every
definition, the hazards and the theorems. Paths below are relative to
`src/crates/`.

## 1. The system's parts

| part | state it keeps | operations | who touches it |
|---|---|---|---|
| **session log** (`heycode-session/src/session.rs`) | `session.jsonl`, one numbered JSON line per event; a writer lease (flock on the directory + in-process generation); each handle's replay in memory | open for writing, take over, append one event or a batch, rename, close | every handle of every process |
| **session store** (`query.rs`, `lifecycle.rs`) | one directory per session, parent links of forks, trash, archive markers, the lineage lock | create, resume, fork, archive, delete, restore, discard an unused session | every host process |
| **agent inbox** (`heycode-agent/src/inbox.rs`, `heycode-session/src/inbox.rs`) | two durable queues (next turn, next step), occurrences claimed or cancelled | submit, deliver team mail, cancel, recall, claim, drain | submitters, turns |
| **turn loop** (`agent.rs`, `cancellation.rs`) | turn gate, cancellation lease, paused flag, wake barrier | run a turn: open, hooks, admit, steps, settle, abort, fail | the user's prompt, the driver |
| **root driver** (`subagent_provider.rs`) | `inbox_driver_running`, turns run | wake, pick, run a turn, release, recheck | submissions, settlements, barriers |
| **tool batch** (`schedule.rs`, `ToolBatch` in `agent.rs`) | ordered cursor, executing calls, admission in flight, cancellation | start, admit, run, commit, cancel, fail | the turn, tools, approvers, the tool registry |
| **background jobs** (`jobs.rs`) | rows, wake budget, outbox of undelivered notices, the history file | spawn, start, settle, deliver, cancel, pause, dispose, recover | tools, inbox, turns |
| **durable schedules** (`durable_schedule.rs`, `heycode-session/src/orchestration.rs`) | schedule events in the log, timer tasks, the operations lock | create, delete, reschedule, dispatch, recover, rearm | timers, inbox, tools |
| **approvals and plan mode** (`plan.rs`, `plan_entry_tool.rs`, `approval.rs`, `interactive_approval.rs`) | plan state, current policy, grants, open questions | enter, commit, leave, review, admit a call, ask, answer, withdraw | the turn, agents, the person |
| **workflow runs** (`workflow.rs`, `heycode-session/src/orchestration.rs`) | the journal of a run, the table of live attempts, the worker's nodes | start, resume, pause, cancel, close; launch, settle and end | tools, task console, job registry |
| child agents (`subagent.rs`, `runtime_subagent.rs`, `subagent_budget.rs`) | child sessions, budgets, results | spawn, message, await, cancel | tools, driver |
| teams (`team.rs`) | rosters, mail, tasks | assign, claim, send | agents |
| questions (`interactive_question.rs`) | open questions | ask, answer, withdraw | tools, user interface |
| worktrees, checkpoints, repair | journals on disk | create, merge, recover; restore; salvage | tools, host start |
| providers, runtimes, MCP, user interface, configuration, credentials, extensions, telemetry | mostly none of their own | encode, decode, render, parse | - |

How they interact: everything durable goes through the session log of one
session; the store only moves whole sessions. A submission appends to the inbox
and either wakes the driver or relies on the running turn. A turn claims inbox
input, sends requests, and hands each response's tool calls to a tool batch,
which appends to the same log. Jobs, schedules, teams and children reach a
conversation only by submitting to its inbox.

What is hard here, and hard to test:

* two handles or two processes between *replay* and *append* of one log;
* store operations of several hosts interleaved with crashes, where a fork needs
  all of its ancestors;
* a submission that reads "a turn is active" and appends after that turn is gone;
* wakes lost between a driver's last look and its release; circular waits between
  turn gate, barrier and driver;
* tools that finish in any order, late approvals, cancellations and failed appends
  in the middle of a batch whose log must look sequential;
* registries that change under a running batch;
* a job's result that must be in the inbox, in the outbox or in the history at every
  moment, while three files are written one after the other and a wake must be paid for;
* a reminder that is first queued and then recorded as dispatched, with a crash, an
  aborted timer or a claim in between;
* an approval answered after Plan mode was entered, a review answered after it was
  withdrawn, an entry that waits for work that may itself wait for a person;
* an effect on the world whose result never reached the log, and several callers who
  resume, pause and cancel the same run.

For each modelled part the properties that make it correct are the ones listed in
section 3; for the others they are in the plan (section 8).

## 2. Modules

| module | models | composed of |
|---|---|---|
| `SessionLog` | one session's log, its handles, the lease and the file lock | - |
| `SessionStore` | the store, its hosts, lineage, trash and discard | its create/resume/close are SessionLog's handles seen from outside |
| `AgentInbox` | inbox, turn loop, root driver, foreground barrier, crash and resume | implements `Mailbox`; its `request` phase contains the tool batch |
| `Mailbox` | the abstract specification: each accepted occurrence is admitted or withdrawn, once | - |
| `ToolBatch` | the scheduler of one step's tool calls | implements `SequentialBatch` |
| `SequentialBatch` | the abstract specification: a one-at-a-time batch | - |
| `Jobs` | the job registry, its outbox and history, the wake budget | its notices enter the inbox of `AgentInbox`, kept here as a count |
| `DurableSchedule` | reminders: events, timers, dispatch, recovery | its reminders enter the same inbox |
| `Permissions` | plan mode, approval policies, questions, reviews | its calls are admissions of `ToolBatch` and background agents |
| `Workflow` | one workflow run: journal, service, worker | its attempts are jobs of the registry |
| `SessionLogProofs`, `SessionStoreProofs`, `AgentInboxProofs`, `ToolBatchProofs`, `JobsProofs`, `DurableScheduleProofs`, `PermissionsProofs`, `WorkflowProofs` | theorems and proofs | extend their module |
| `MCSessionLog`, `MCSessionStore`, `MCAgentInbox`, `MCToolBatch`, `MCJobs`, `MCDurableSchedule`, `MCPermissions`, `MCWorkflow` | small instances for TLC | extend their module |

Definitions whose comment starts with "Mutant:" are the plausible bugs
used to show that each property can fail; no specification uses them. Variables
called `spent` count what a bound has used up; they have no counterpart in the code,
and neither have the history variables named below.

### SessionLog

`disk` holds complete lines (sequence number and event kind), `torn` says whether
bytes follow the last newline. A handle goes `closed -> reserved -> replayed ->
open -> writing`, exactly the steps of `open_for_writing`: acquire the lease file
(`Reserve`), replay (`Replay`), commit the new generation (`Commit`), and for each
append the check (`CheckAppend`, with `check_writable`, the size bound and the
inbox rules) before the write (`Write`). `TornWrite` cuts a batch short at any
line, with or without a partial line. `RenameReplay/Upgrade/Write` is
`LocalSessionQuery::rename`, which replays without a lease and locks afterwards.
`Crash` drops a process's handles and locks. Event payloads are reduced to the
kinds the reader's whole-log rules tell apart (inbox splices, selections and their
message, anything else). `raced` is history: a write overtook another handle's replay
or a rename's, or a takeover committed while an older handle of the process was
already past `check_writable`. The lease excludes none of these three.

### SessionStore

`place` says where a session's directory is, `parent` what its first line names.
Each host is in at most one operation (`op`); two-step operations are split where
the code releases or waits: fork opens its source before it waits for the lineage
lock, delete scans before it moves, restore moves before it reopens, discard checks
before it removes. `Opens(s)` is the recursive open of `open_inner` written as "a
set of live sessions containing s and closed under parent". `unverified` marks a
restored directory its restore has not reopened yet.

### AgentInbox

Both queues, the history of each occurrence (`inserted`, `claimed`, `canceled`),
each submission's progress (`sub`: the liveness read and the append are different
steps, as in `enqueue_inbox_with_source`), the turn with its phases from `opening`
to `released`, the driver and its recheck, the user's host with its barrier, and
the two flags that hold automation back (`paused`, `deferred`). A model request is
one step that continues, finishes, fails or is aborted. `CrashAndResume` keeps the
queues and loses the rest. The driver is a coordinator job: the registry may refuse it
(in `WakeDriver`, also after a resume), and may cancel it (`CancelDriver`), which its
turn meets as the cancellation of `run_turn`'s caller (`CallerCancelled`) and its wait
for the gate as `StopWaiting`. Either way `GaveUp` says that nobody looks again by
himself: a cancelled driver makes no recheck, and a refusal at the recheck is dropped
(`let _ =`, `subagent_provider.rs:3047`). `Without` takes occurrences out of a queue; it is written with
the rank of each kept position, so that the prover can reason about it. `Fate` says of
each occurrence whether it is absent, pending, admitted or withdrawn, and maps the
module to `Mailbox`, whose only steps are to submit one, to admit one that waits and to
withdraw some that wait; an occurrence that had left the queues in no such way would be
"lost", a fate `Mailbox` does not know.

### ToolBatch

The variables are those of `run_batch` and `Cursor`; `pc` is where the driver task
stands between two appends or awaits. One loop iteration is `Start`/`StartFails`/
`Wait`, then one `select!` outcome (`SeeCancellation`, `AdmissionDiscarded`,
`Refused`, `Approved`, `Completed`), then the drain, one append per step
(`DrainAnnounce`, `DrainCommit`, `AnnounceHead`, or their failures). `biased` shows
as the guard `~Unseen`: a cancellation that has arrived is seen before anything
else. Around the driver, `RequestCancel` and `Reload` may happen at any moment;
`Reload` changes what `parallel_safe` answers, because the code asks the live
registry again at start, approval and completion. A call's result is `ran`,
`refused` (a `Ran` outcome carrying a denial) or `notstarted`.

### Jobs

`row`, `outbox`, `nextId` and `tokens` are the registry (`JobState`), `disk` the history
file, `task` each job's worker with the settlement it carries out, `waiting` the number
of messages in the owner's inbox, `notices` the notices the session log has ever
inserted. The registry lock, the session lock and the file are never held together, so
a settlement is several steps: `settle_job` is `Reserve`, `Enqueue`, then `Commit` and
`PersistCommit`, with `RetainRefused` when the inbox is full and `Rollback` when the
storage fails; `settle_agent_job` is `SettleAgent`, `DeliverPersist`, `DeliverAdmit`,
`DeliverCleanup` with its retries; `settle_silent` is one step because nothing leaves
the registry. `Release` frees capacity and starts a recovery pass
(`RecoverPersist/Admit/Cleanup`), by whoever claims or cancels input. A write of the
history that fails leaves the old file or the new one. `Restart` is the next process
reading that file; `Dispose` lets a settlement that has begun go on against the emptied
registry, as the code does. Every write of the history may fail, the one of `cancel` too, whose failure the code ignores
(`jobs.rs:619`). Pruning takes rows that are settled, whether or not their task handle
was ever attached. `announced`, `woken`, `turns` and `stuck` are history.

### DurableSchedule

The schedule events of the log are kept as `project_schedules` folds them (`rec`,
`armed`, `deleted`); `sent` is every reminder ever inserted, `dispatched` the ones with a
`Dispatch` event. `op` is the operation that holds the operations lock; each of its
steps is one append or one call, so the clock, claims, other input and crashes fit
between. `timer` is `runtime.timers`, `late` the dispatches of aborted timers that are
already blocked on the lock (abort does not reach them). `Crash` is a close or the end
of the process: the next one begins with the recovery and `rearm`, any time later. The
clock advances only between operations: the code reads `now_ms` once, before the lock.
A schedule may be rescheduled to the time it already has.

### Permissions

`active` and `entering` are `PlanState`, `logged` is what a restart would read,
`reviewed` the decision of the last plan review in the log, `policy` the switchable
policy, `gate` and `grants` the lock and the memory of the two `AcceptedEdits` instances
(the parent's and a child's), `review` each runner of `exit_plan_mode`. A call goes
through `admit_call` (the guard, the policy of that moment), its deciders one after the
other, perhaps a question, and the second guard; once past it (`cleared`) it may wait in
later layers before it runs. `settle` is each `commit_pending` on its way through
`settle_activity`: it waits for the handlers of hooks (`hook`), cancels and awaits the
jobs, kills the terminals, and then reads the pending entry again. `terminal` is a
terminal of the session; one whose kill failed is off the list (`lost`), so that a
repeated `/plan on` no longer waits for it. `consent` is history: what the person said,
about which call and which input; `overtaken` is too: the committed entry was selected again,
after an exit, while an earlier settlement was under way, and that settlement's waits
were made for the earlier entry.

After a restart the plan plugin applies the policy of the last accepted review in the
log (`plan.rs:862-875`); only when there is none does the configured policy stay. A
switch the user made after that review is not logged and is therefore undone by a
restart. `Restart` does the same.

What the module assumes of the parts around it: the surface runs one command at a time
(`heycode-tui/src/app.rs:11047`); a person takes longer to read a plan than the five
seconds after which `settle_activity` gives up (`CommandIsSettled`); background agents
start from a step of the turn. `settle_activity` kills the terminals of "world" and of
its own session only, so the terminal of the module belongs to one of these and a child
agent's terminal is not covered. `InteractiveApproval`'s own session rules are left out
because every policy in use wraps it in one that keeps its own. A child agent's own
commit of the shared Plan mode is not modelled, and the turns are those a user starts:
a turn of the inbox driver runs inside a coordinator job, and an entry committed at its
boundary cancels and awaits that very job until the timeout.

### Workflow

`run` is the projection of one run's journal, with the rules under which a change is
accepted (`MayResume`, `MayAdmit`, `MayRecord`, `MayEnd`: the last compares the number of
completed steps, which the path of a refused job took earlier, in `CountUnspawned`);
`active` the entry in the service's table, `caller` where each `start` or `resume` stands
between its locks, `task` the job of each attempt with the nodes it read when it began.
A read or a write may fail, a write before its line is there or after it. `Launch`
writes the intent or the skip of one step, `Begin` is the effect, `Settle` the record of
its result, `EndAttempt` the end of the run and the removal from the table.
`EndUnadmitted` is the attempt whose admission the journal refused or lost.

The job registry meets a run in three ways. It may refuse the job of an attempt. It may
cancel the job at any moment, also before the service has attached it (`CancelJob`,
`cancel` and `cancel_all` of `jobs.rs`); the body runs all the same and finds the token
cancelled. And it catches a panic of the body (`Panic`): nothing is written,
`remove_active` never runs, and until the process ends the run can be neither resumed
nor cancelled. A panic under the session's lock, which poisons it, is left out. `nextJob`
is the durable counter of job ids (it is saved before a body runs); admission checks
that an id was not used before, which this counter makes true. `executed` and `unknown`
are history: how often a step took effect, and which effects have an outcome the log
never learned.

## 3. Runs

All runs hold but `session_log_takeover` and `session_store_discard_fork`, which show a
violation (section 4). A property that TLAPS proves (section 5) is not repeated in every
run; the type invariants of `SessionLog`, `SessionStore`, `ToolBatch` and `Workflow`,
`TrashRestorable` and `TimelyDecision` are theorems only. Four further configurations
hold too: `AgentInboxMore.cfg` (`TypeOK`, `NothingOpenWhenIdle`), `JobsMore.cfg`
(`AgentNoticeBacked`), `SchedulesMore.cfg` (`WakeupsDieWithProcess`, `ArmedHasTimer`) and
`PermissionsMore.cfg` (`PermissionTypeOK`, and the invariants of `permissions` with a
second entry into Plan mode and hooks at every point of a turn).

| run | asks |
|---|---|
| `session_log_lease` | three handles in two processes, takeover, a torn write, a rename, crashes: one writing process, one current writer, a superseded handle stays out; a log that opens holds every acknowledged append, one that does not was torn or overtaken |
| `session_log_takeover` | an older handle of the process writes between its successor's replay and commit: violated, the log no longer opens |
| `session_store_quiet` | three hosts, two sessions, one crash under `QuietSpec`: forks keep their ancestors, open sessions their files |
| `session_store_discard_fork` | the same when an unused session may be forked: violated, a fork loses its parent |
| `agent_inbox_safety` | steer, inject and team mail against prompts, cancels, failures, crashes: exactly-once admission, a mailbox from outside, hooks see what opens, an abort holds automation back |
| `agent_inbox_wake` | follow-up and steer under `FairSpec`: unless the driver failed, was refused or cancelled, nothing wakeable is left behind when everything rests and every wakeable message settles; prompts return |
| `tool_batch` | four calls, any subset of them parallel-safe, two at once, a cancellation, a failed append and a registry change anywhere: sequential log, honest results, nothing abandoned, a cancelled batch returns |
| `jobs_delivery` | a plain and an agent job that settle into a small inbox, with a failed write, a restart and a replenished budget anywhere: each result is announced once and kept somewhere at every moment; wake tokens are conserved; an agent's result is retained only for a reason |
| `jobs_life` | a foreground and an agent job compete for one permit with one place in the queue; they are cancelled while queued or running, panic, are promoted, meet a full inbox and a failed write, and the registry is disposed: a job that was told to stop, whose body has ended or that waits for a free permit does not stay so |
| `schedules` | all kinds of reminders with one failed append, one crash and a full inbox: occurrences only advance, recovery can always be written, a deletion stays silent, every due reminder goes out |
| `permissions` | a turn's call that leaves a terminal, a background agent's call with the same or another input, hooks, entries, switches, reviews, cancellation and a restart: nothing runs while Plan mode is committed, a restart agrees with the process, what ran was allowed for its own input, and (under `Fairness`) an entry waits for people only |
| `workflow` | three steps, two at once, two callers, two attempts, a cancellation through the registry, a failed read or write, a refused job or a panic, and a crash anywhere: effects are bounded, intents precede them and their inputs were there, unknown outcomes are never repeated, an ended run is quiet, one coordinator, every attempt ends |

The disciplines make the runs precise about *when* they hold (section 4 shows what
happens without them):

* `tears > 0 \/ raced` in `DamageHasACause`: a write was cut short, or one of the
  overtakings of section 2 has happened. The code excludes neither; the property says
  that nothing else makes a log unreadable, and `NoSilentLoss` and the lease's
  properties hold whatever has happened.
* `QuietSpec` (SessionStore): nobody opens or forks a session its creator is just
  leaving. `LineageIntact` and `OpenFileStays` are checked and proved under it. Under
  `Spec`, `SessionStoreDiscardUsed.cfg` shows `UsedNeverDiscarded` violated: a session
  is resumed and used between the check and the removal of `discard_unused_session`,
  which takes no lock.
* `ForkUnused = FALSE`: sessions holding only housekeeping are not forked.
* `SyncFails = FALSE`: the directory sync after a restore succeeds. With `TRUE` the
  rollback renames a directory another host may already have opened.
* `PromptSpec` (AgentInbox): no submission that saw a turn is still on its way to
  the queue when that turn drops its lease.
* a driver that failed, was refused or was cancelled, in `NothingStranded` and
  `WakeableSettles`: the code leaves the queue to the next submission or settlement.
* `reloads = 0` in `HonestResults` and `BarrierAlone`: the tool registry stood
  still. When a tool becomes read-only between approval and completion,
  `barrier_executing` stays set, the loop ends, and the remaining calls are logged as
  not started although nothing was cancelled. `SequentialLog`, `NothingAbandoned`
  and the others hold even then.
* `RetainedFits` in the theorem about `AgentRetainedForAReason` (section 5): a recovery
  pass takes up everything that is retained. The run stays within it.
* `j \in stuck` in `AgentRetainedForAReason` and `s \in failed` in the properties of
  `DurableSchedule`: a write failed; the code logs that and leaves the retry to the next
  release, operation or start.
* `torn` in `RestartAgrees`: the exit from Plan mode was appended and its flush failed;
  the process stays in Plan mode, a restart would not.
* `overtaken` in `CommittedPlanIsQuiet`: a handler of a hook may still run when Plan mode
  was left and selected again while an earlier settlement was under way.
* `spent.refused` in `EndedIsQuiet`: the registry refused the job of an attempt;
  `spawn_attempt` removes its claim before it ends the run, and a second caller's
  attempt may start in between and find its run ended.
* `spent.panicked` in `AttemptEnds`: the body of a job panicked, and its claim stays.

### Bounds and why they are enough

* SessionLog: three handles, two in one process, are the smallest set with a takeover
  *and* a competing process; `MaxEvents` 4 leaves room for a batch beyond the creation
  line and reaches the limit; `MaxGen` 2 lets the lease change hands once more than the
  first writer; one write is cut short and one rename is made, at any moment.
* SessionStore: two sessions are a parent and a child, three hosts a deleter, a forker
  and a leaver; the invariant was also checked with three sessions, and the proofs
  cover any number.
* AgentInbox: one message of each delivery that behaves differently, a capacity (2)
  that is reached, a driver limited to two turns so that its limit is met, one or two
  of every kind of disturbance.
* ToolBatch: four calls over a ceiling of two fill the ceiling, leave one waiting and
  one unstarted; the proofs cover any number.
* Jobs: in `jobs_delivery` two admissions of plain, agent or driver jobs, one permit, an
  inbox of two that is met full, emptied and partly emptied, one failed write and one
  restart between any two steps; `Retries` 1 is used up. `MaxHistory` 1 is the code's
  smallest limit; the prune of an admission needs a third one, so in the run only
  `Restart` prunes. In `jobs_life` a foreground and an agent job, one permit and one
  place in the queue: the second admission waits behind the first or is refused, and
  may be cancelled there; one cancellation, one fault, and an inbox of one.
* DurableSchedule: two ids over a limit of one active schedule reach the limit; an inbox
  of one is full at once; with an interval of 1, a lifetime of 2 and a clock that stops
  at 2, every rule is dispatched, repeated, expired and missed while the process is down.
* Permissions: the input of the agent's call is the turn's or another, so that a grant of
  one could wrongly cover the other, and its child has the ceiling `accepted`; the policy
  is `full` and may be switched to `deny`, or to what a review accepts; the turn's call
  leaves a terminal; hooks run between turns and within a step; one turn, one entry (two,
  and hooks everywhere, in `PermissionsMore.cfg`), one switch, one review and one mishap
  (a failed write, a timeout, a cancellation or a restart).
* Workflow: an effect that must not be repeated, a conditional one that may be, and a
  step that needs both, two at once; two callers and two attempts are the smallest race
  for the run, and the second attempt is the one that could repeat an effect.
  The one fault is a failed read or write, a refused job or a panic; the crash comes on
  top of it.

Deadlock checking is off in all runs because every model may stop: hosts that do
nothing more, an agent at rest, a batch that returned, budgets used up. What must
not stop is stated as liveness (`WakeableSettles`, `PromptReturns`,
`CancelReturns`, `StoppedJobSettles`, `DueGoesOut`, `EntryWaitsForPeopleOnly`,
`AttemptEnds`).

### Fairness

`AgentInbox!Fairness`: the Tokio runtime schedules runnable tasks, so weak fairness
of the turn, the driver, the prompting host and every submission in progress. No
fairness for prompting, cancelling, failing, crashing or refusing a job.
`ToolBatch!FairSpec`: weak fairness of the driver's own steps, of an admission *once
withdrawn*, and of a tool *once its token is cancelled*: what `BatchCalls::admit` and
`BatchCalls::run` promise. Nobody has to answer an approval and no tool has to finish
by itself.

`Jobs`: weak fairness of what every worker does around its body, of a body *once it is
cancelled*, and of every recovery pass that has begun; no body has to end by itself, and
nobody has to release capacity, settle a turn or cancel. `DurableSchedule`: weak fairness of the
operation that holds the lock (synchronous code) and strong fairness of every timer,
which must get the lock if it keeps asking (a `std::sync::Mutex` gives no order, but
nobody holds it for ever and few compete). `Permissions`: weak fairness of the turn, the
calls, the reviews, the commits and the handlers of hooks (which have a timeout); none for anything a person does. `Workflow`: weak
fairness of each attempt's job and of each call of the service that has begun.

## 4. Observed divergences

Places where the code does something else than it, its tests or its documents say. Each
has a configuration under which TLC prints the shortest such execution
(`tlc -config <cfg> <module>`), and the first and the fourth are runs; the passing runs exclude or name these cases by
the disciplines above.

| configuration (module) | property | the code | what is said |
|---|---|---|---|
| `SessionLogTakeover.cfg` (`MCSessionLog`) | `LogReopens` | `session.rs:511`: a handle of the same process writes between a takeover's replay and its commit | `heycode-session/README.md:337-339` |
| `SessionLogRename.cfg` (`MCSessionLog`) | `LogReopens` | `query.rs:940`: rename replays before it locks | `session.rs:489-490` |
| `SessionLogJoined.cfg` (`MCSessionLog`) | `WriterRefusesWhatReaderRefuses` | `session.rs:1440`: a handle stays writable after a partial write | `heycode-session/README.md:343` |
| `SessionStoreDiscardFork.cfg` (`MCSessionStore`) | `LineageIntact` | `lifecycle.rs:1102`: an unused session is removed although a fork names it | `heycode-session/README.md:302-303` |
| `SessionStoreDiscardUsed.cfg` (`MCSessionStore`) | `UsedNeverDiscarded` | `lifecycle.rs:1066-1102`: the check and the removal are separate and take no lock, so a session resumed and used in between is removed | `lifecycle.rs:1060-1061`: "A session with any turn, title, or lineage is never touched" |
| `AgentInboxReadRace.cfg` (`MCAgentInbox`) | `NothingStranded` | `inbox.rs:268`: the liveness is read before the append | `inbox.rs:231-234` |
| `AgentInboxHeadless.cfg` (`MCAgentInbox`) | `NothingStranded` | `agent.rs:2058`: a follow-up between the settlement announcement and the release of the lease wakes nobody | `inbox.rs:498-500` |
| `JobsStranded.cfg` (`MCJobs`) | `RetainedForAReason` | `jobs.rs:1845-1870`: capacity released between the refusal and the retention of a plain notice leaves it retained beside free room until the next release | the test at `jobs.rs:2032`, `agent.rs:438` |
| `ScheduleStalled.cfg` (`MCDurableSchedule`) | `ListedTimerLives` | `durable_schedule.rs:583-596`: a dispatch that fails, a full inbox included, ends the timer; the record is still listed as armed and its slot blocks a new timer until a restart or a reschedule | `durable_schedule.rs:218-221` |
| `PlanBlocked.cfg` (`MCPermissions`) | `BlockedByWork` | `jobs.rs:692`: a job row restored from an earlier process has no task handle and counts as work that has not exited, so Plan mode cannot be committed | `plan.rs:240`: "stop the running work and retry /plan on" |

## 5. What is proved

All theorems are checked by TLAPS for every value of the constants that satisfies the
modules' `ASSUME`s (which TLC evaluates in the runs).

**SessionLog** (`SessionLogProofs`). All under `Spec`, with crashes, torn writes, renames
and every overtaking. `TypeCorrect`, `CrossProcessExclusion` and `NewestWriterWins` rest
on `LeaseInv`: every lease is at most the file's generation, two open handles never carry
the same one, and a process with a reserving or open handle owns the flock.
`SupersessionIsFinal` is the action property that a superseded handle never passes
`check_writable` again. `NothingLostSilently` says that a log which opens holds every
acknowledged append; its invariant `AckInv` asks only that the line numbers are
contiguous: appends go to the end, so a line that collides with an acknowledged one
spoils the numbering for good. `OnlyRacesDamage` says that a log which does not open was
torn or overtaken. Its invariant `CauseInv` is: a write was cut short, or `raced`, or
every handle between replay and commit and every handle about to write remembers exactly
what is on disk (`SerialInv`), the log satisfies the reader's rules for the whole file
(`LogFolds`: the size bound, no inbox splice that removes more than was queued,
selections settled by their message), and each batch on its way was checked against the
very log it will be appended to (`BatchesFit`). The inbox rule counts events of a kind up
to each position; the lemmas `CountAfter`, `CountBefore`, `FoldedCounts` and
`BatchRemovals` say how a batch moves these counts, as cardinalities of sets of
positions. `MaxEvents` is at least 1: a log holds its creation line.

**SessionStore** (`SessionStoreProofs`). `StoreTypeCorrect`, `LineageSafe`,
`OpenFilesSafe` and `TrashSafe` under `QuietSpec`, `~ForkUnused`, `~SyncFails`. `StoreInv`
strengthens them: parents have been used and used sessions are never gone; at most
one of fork, delete and restore is between its two steps (lineage lock); what the
delete scanned is still true when it moves; open handles keep their whole chain
openable. The core argument is about chains: removing a session that no live session
names as its parent leaves every other chain a chain (`OpensStays`), and a session
that does not open is in nobody's chain (`OpensWithout`).

**AgentInbox** (`AgentInboxProofs`). For any messages, deliveries, capacity and number of
prompts, cancellations, failures and crashes. `InboxInv` has four parts: the types;
`MessageInv`, that each occurrence goes one way (submitted, inserted once, then pending,
admitted or cancelled, one at a time); `OwnerInv`, that the turn gate has an owner who is
inside a turn and the barrier is held exactly while a foreground prompt is on its way;
`PhaseInv`, what is open in the log at each phase and that an aborted turn leaves the
queue paused. From it follow `InboxTypeCorrect`, `AlwaysAdmittedOnce`, `NothingLeftOpen`
and the action properties `OpensWhatHooksSaw` and `AbortAlwaysHolds`. `InboxIsMailbox` shows that the module implements `Mailbox`: every
step inserts one occurrence, claims one, removes some or leaves the queues alone
(`QueueSteps`), and these are the abstract steps. `NothingEverStranded` is about
wakes: whenever something wakeable is queued, somebody will still look or automation has
given up (`Attended`: paused, the last driver failed, was refused or cancelled, a driver or a recheck is under way, the user's
host has not returned, or a submission is about to wake), and a submission that saw a
running turn still has one. The theorem assumes a foreground barrier and `PromptSpec`;
`AgentInboxHeadless.cfg` and `AgentInboxReadRace.cfg` show what happens without the one
and without the other.

**ToolBatch** (`ToolBatchProofs`). `LogIsSequential` shows that `ToolBatch`
implements `SequentialBatch`; `ResultsAreHonest`, `BarriersRunAlone`,
`CeilingRespected`, `CancellationIsTold`, `ReturnsEmptyHanded`, `LaunchesAreOrdered`
and `TypeCorrect` are the invariants and the action property, for any number of calls,
failed appends and registry changes. The inductive invariant `BatchInv` is needed
because none of them is inductive: the log alone does not say why "not started" is a
suffix. Its heart is `DecidedInv`: every call that has begun and has no outcome is
executing, except possibly the last one begun, which may be in admission or have lost
its admission to a cancellation. Since calls are admitted in order, the unfilled
slots at the end are a suffix. The refinement maps `log` to itself and `pc` to the
abstract status; appends map to `Announce` and `Answer`, the final gap check to
`Return`, error exits to `Fail`, everything else to a stutter.

**Jobs** (`JobsProofs`). `JobsInv` relates, for each job, its worker to its row, outbox
entry and notices (`WorkerInv`: a worker that has not sent anything yet has no notice and
nothing retained; a settlement between its locks finds its row reserved or cleared),
every recovery pass to what it read (`PassInv`: what it took up is retained, or is
already in the log), and the file to both (`FileInv`: a completed row on disk has its
notice in the log or beside it, and an id the file has not handed out has left no trace,
so the next process may reuse it). It gives `JobsTypeCorrect`, `NoticedAtMostOnce` and
`ResultAlwaysKept` over every restart and failed write. `WakesAlwaysPaid` is an induction
of its own over the tokens in the bucket, in the hands of workers and spent: each step
moves a token or burns one, except a settled turn or a start, which pay for a full
bucket. `AgentNeverStranded` assumes `RetainedFits`: no more notices are retained than a
recovery pass takes up (`take(MAX_PENDING_INBOX_MESSAGES)`, `jobs.rs:1089`, 256 in the
code). Beyond that a notice may wait beside free capacity until the next release.

**DurableSchedule** (`DurableScheduleProofs`). `ScheduleInv` says where each operation
stands and what it has established (`OpInv`; the clock stands still during an operation),
that ids are used once (`IdInv`), that an aborted timer waited for an occurrence its
record has left behind (`TimerInv`), that every reminder lies before the occurrence its
schedule waits for, or is the one for that occurrence and is recorded exactly when the
record is no longer armed (`SentInv`), and that a reminder without its `Dispatch` event is
met by a recovery before its schedule has a timer again (`UnrecordedInv`, `OwnInv`). It
gives `ScheduleTypeCorrect`, `OccurrencesAlwaysAdvance`, `RecoveryAlwaysAccepted` and
`SilencedAlwaysSilent` for any rules, intervals, limits, failed appends and crashes. The
arithmetic of the rules (the next occurrence after now, aligned to the interval) is a
lemma (`AlignedAhead`).

**Permissions** (`PermissionsProofs`). `PermissionInv` says that every decider of a call
has let it pass or is still queued (`CallInv`), that a remembered rule was given by the
person, to this instance, for this input (`GrantInv`), that a review's answer belongs to
the Plan episode in which it was asked (`ReviewInv`), and that a commit that still finds
its entry pending has waited for all unfinished work, and for the hooks unless the entry
was selected once more (`PlanInv` with `TurnInv`, `CommandInv`, `SettleInv`). From it
follow `PermissionsTypeCorrect`, `PlanAlwaysQuiet`, `LogAlwaysAgrees`,
`ConsentAlwaysCovers` (over restarts that bring back the policy of the last accepted
review, and for calls past the guard that have not started yet) and `DecisionsTimely`,
for any calls, inputs, children, policies, hooks, entries and switches, under the
assumptions named in section 2.

**Workflow** (`WorkflowProofs`). For every graph, limit, number of callers, attempts,
failed reads and writes, refused jobs, panics, cancellations by the registry and crashes: `WorkflowTypeCorrect`, `CoordinatorUnique`, `EndedRunIsQuiet`,
`EffectsAreBounded`, `IntentIsWritten`, `InputsAreThere` and the action property
`UnknownIsNotRepeated`. `WorkflowInv` has two halves. `ClaimInv` is about who may act: a
live attempt is the one in the service's table, so that whoever finds the table empty
finds no attempt. `EffectInv` ties the worker to the journal: the journal counts at
least the effects that took place, and one more while an effect is queued (`CountInv`);
a queued or running effect has an open intent and completed inputs (`IntentInv`); an
effect of unknown outcome keeps its open intent and nobody holds it (`UnknownInv`), so
that no intent for it is ever accepted again; a worker in its rounds knows every skip
of the journal (`SkipInv`), although it read the nodes only once. The second half rests
on the first: a second worker would make the nodes it read stale.

## 6. What is only model-checked

Every safety invariant, every action property and both refinements of the passing runs
are theorems. What stays with TLC:

* liveness under fairness (`WakeableSettles`, `PromptReturns`, `CancelReturns`,
  `StoppedJobSettles`, `DueGoesOut`, `EntryWaitsForPeopleOnly`, `AttemptEnds`), which is
  beyond the prover, as is `ENABLED`;
* `AgentNoticeBacked` of `Jobs` and `WakeupsDieWithProcess` and `ArmedHasTimer` of
  `DurableSchedule`, which the "More" configurations check: each needs a strengthening
  that is not written yet;
* the counterexamples of section 4, which are about single executions.

## 7. What is not modelled, and why

Most of the repository's lines are user interface, provider encodings, external
runtimes, configuration, installation and tests: they render, parse, encode or assert,
and keep no state in which an interleaving could matter. The modules cover the code
that does keep such state, starting from what everything else depends on.

Within the modelled parts: event payloads, attachments, schema versions and hashes of
the log (data); listing, paging and export of sessions (read-only); what a tool does, how
its result is rendered, and nested calls from code mode (data and I/O); the steps inside
a model request; a fork's inherited schedules and the parsing and time zones of cron
rules; the sequential (script) worker of workflows, its saved library, progress views and
observers; what a child agent does to a shared Plan mode; questions of the question tool.
Creation of a session is one step of `SessionStore`, although the code makes the
directory before it takes the lease (see the exposures below).

Further places where the code is exposed and no property of a run speaks about it:
the rollback after a failed sync (`query.rs:1112`), creation before the lease
(`session.rs:381`), `Weak::upgrade` while a handle is dropped (`session.rs:1628`), readers
without a lease (`query.rs:1607`), batches cut short (`session.rs:1502`); a notice that is
queued before its row (`jobs.rs:1878`), a registry cleared under settlements that have
begun (`jobs.rs:737`), a settlement committed in memory whose history is not written
(`jobs.rs:857`); a dispatch recorded and flushed before its input is published
(`durable_schedule.rs:661`); an exit from Plan mode appended whose flush fails
(`plan.rs:157`), a commit that waits for every job one after the other (`plan.rs:219`,
`agent.rs:1392`), a terminal whose kill failed (`plan.rs:231`), a review answered while it
is withdrawn (`plan.rs:699`); a claim given up before its run is ended
(`workflow.rs:1166`) and one never given up after a panic (`jobs.rs:542`).
The models contain these steps, except the two steps of a creation, `Weak::upgrade` and
the readers without a lease.

Not modelled at all: child agents and teams beyond their use of the inbox, compaction,
worktrees, checkpoints and repair, goal and loop budgets, routing, hooks of the runtime
event hub, MCP, plugins. `PROJECT.json` gives the reason for each component.

## 8. Plan

1. **Proofs** of `AgentNoticeBacked` (the outbox entry and the row carry the same outcome
   from the settlement on), `ArmedHasTimer` and `WakeupsDieWithProcess`.
2. **Child agents**: spawn, budgets, mailboxes, cancellation down the tree; abstract
   specification: every spawned child reports exactly once.
3. **Teams**: task claims and mail.
4. **Recovery**: session repair after a torn log (composed with `SessionLog`),
   worktree journal, file checkpoints.
5. Then goal and loop budgets, routing and fallback, the runtime event hub, the MCP
   supervisor, plugin activation.
6. **Splitting**: creation of a session into its two steps; the crash of a host
   in the middle of a tool batch and what the next open makes of it.

Abstract specifications worth stating: `Mailbox` as the inbox that `Jobs` and
`DurableSchedule` submit to, in the place of their counts; an atomic session store
implemented by `SessionStore`. A new component's run may take the place of one whose
question it subsumes.
