------------------------------ MODULE Workflow ------------------------------
(***************************************************************************)
(* One run of a workflow graph: the journal of its changes in the session  *)
(* log, the service that starts, resumes, pauses and cancels it, and the   *)
(* worker that executes its steps as a background job.                     *)
(*                                                                         *)
(* A step has an effect on the world.  Its intent is written before the    *)
(* effect and its result after it; a process that dies in between leaves   *)
(* an intent without a result, and nobody can tell whether the effect took *)
(* place.  Several callers (the tool of the model, the task console, slash *)
(* commands) may resume, pause and cancel the run at the same time; the    *)
(* journal accepts a change only if the projection of the log with it is   *)
(* valid, and the service keeps in memory which run has a live attempt.    *)
(*                                                                         *)
(* A line the log has accepted survives the end of the process: the model  *)
(* has process crashes, not lost disks.  A write may fail before the line  *)
(* is there, or after it (append done, flush failed).                      *)
(***************************************************************************)
EXTENDS Integers, FiniteSets

CONSTANTS
    StepCount,      \* the steps of the definition, numbered in its order
    DependsOn,      \* WorkflowStep.depends_on
    Conditional,    \* the steps with a `when` condition
    ReplaySafe,     \* the steps with replay_safe
    MaxTries,       \* WorkflowStep.max_attempts
    MaxParallel,    \* WorkflowDefinition.max_parallel
    Callers,        \* those who use the service
    AttemptBudget, FaultBudget, CrashBudget

Steps == 1 .. StepCount
Attempts == 1 .. AttemptBudget

ASSUME GraphAssumption ==
    /\ StepCount \in Nat \ {0}
    /\ DependsOn \in [Steps -> SUBSET Steps]
    /\ \A set \in SUBSET Steps : set # {} => \E s \in set : DependsOn[s] \cap set = {}     \* no cycle
    /\ ReplaySafe \subseteq Steps /\ Conditional \subseteq Steps
    /\ MaxTries \in [Steps -> Nat \ {0}]
    /\ MaxParallel \in Nat \ {0}
ASSUME WorkflowBoundAssumption == AttemptBudget \in Nat \ {0} /\ FaultBudget \in Nat /\ CrashBudget \in Nat

VARIABLES
    run,        \* the run as project_workflows reads it from the log
    active,     \* WorkflowRuntime: the run's entry in active and pauses
    closed,     \* WorkflowRuntime.closed
    caller,     \* where each call of start or resume is
    task,       \* the job of each attempt
    nextJob,    \* JobRegistry.next_id: jobs.json has it before the job's body runs
    executed,   \* how often the effect of each step took place
    unknown,    \* the steps with an effect whose outcome never reached the log
    spent       \* what the bounds have used up

vars == <<run, active, closed, caller, task, nextJob, executed, unknown, spent>>

NodeState == {"none", "started", "skipped", "completed", "failed"}
Outcome == {"paused", "completed", "failed", "cancelled"}
NoNode == [state |-> "none", attempt |-> 0]
NoRun == [state |-> "none", attempt |-> 0, jobs |-> [a \in Attempts |-> 0], busy |-> FALSE,
          nodes |-> [s \in Steps |-> NoNode]]
Absent == [held |-> FALSE, job |-> 0, pause |-> FALSE]
AtRest == [at |-> "idle", attempt |-> 0, done |-> 0]
NoTask == [phase |-> "none", job |-> 0, done |-> 0, nodes |-> [s \in Steps |-> NoNode], todo |-> {},
           effect |-> [s \in Steps |-> "none"], outcome |-> "none", cancelled |-> FALSE, lost |-> FALSE]

Node == [state : NodeState, attempt : Nat]
Run == [state : {"none", "running"} \cup Outcome, attempt : {0} \cup Attempts, jobs : [Attempts -> Nat],
        busy : BOOLEAN, nodes : [Steps -> Node]]
Entry == [held : BOOLEAN, job : {0} \cup Attempts, pause : BOOLEAN]
Call == [at : {"idle", "read", "checked", "spawn", "unspawned", "counted"}, attempt : {0} \cup Attempts,
         done : 0 .. StepCount]
Task == {t \in [phase : {"none", "new", "unadmitted", "open", "loop", "launch", "join", "ending"},
                job : Nat, done : 0 .. StepCount, nodes : [Steps -> Node], todo : SUBSET Steps,
                effect : [Steps -> {"none", "queued", "running"}], outcome : {"none"} \cup Outcome,
                cancelled : BOOLEAN, lost : BOOLEAN] :
             t.phase = "ending" => t.outcome # "none"}

WorkflowTypeOK ==
    /\ run \in Run
    /\ \A s \in Steps : run.nodes[s].attempt <= MaxTries[s]
    /\ active \in Entry
    /\ closed \in BOOLEAN
    /\ caller \in [Callers -> Call]
    /\ \A c \in Callers : caller[c].at # "idle" => caller[c].attempt \in Attempts
    /\ task \in [Attempts -> Task]
    /\ nextJob \in Nat
    /\ executed \in [Steps -> Nat]
    /\ unknown \subseteq Steps
    /\ spent \in [faults : 0 .. FaultBudget, refused : BOOLEAN, panicked : BOOLEAN, crashes : 0 .. CrashBudget]

Init ==
    /\ run = NoRun
    /\ active = Absent
    /\ closed = FALSE
    /\ caller = [c \in Callers |-> AtRest]
    /\ task = [a \in Attempts |-> NoTask]
    /\ nextJob = 1
    /\ executed = [s \in Steps |-> 0]
    /\ unknown = {}
    /\ spent = [faults |-> 0, refused |-> FALSE, panicked |-> FALSE, crashes |-> 0]

-----------------------------------------------------------------------------
(* The journal: append_workflow_change and flush_workflow_session.          *)

Settled(node) == node.state \in {"completed", "skipped"}
CompletedSteps(nodes) == Cardinality({s \in Steps : Settled(nodes[s])})

\* A change the projection refuses is not written; one it accepts is written, and reported so, unless the append or
\* the flush fails.
Appended(valid, changed) ==
    IF ~valid
      THEN {[run |-> run, ok |-> FALSE, fault |-> 0]}
      ELSE {[run |-> changed, ok |-> TRUE, fault |-> 0]}
           \cup {[run |-> r, ok |-> FALSE, fault |-> 1] : r \in {run, changed}}

Write(w) ==
    /\ spent.faults + w.fault <= FaultBudget
    /\ run' = w.run
    /\ spent' = [spent EXCEPT !.faults = @ + w.fault]

MayResume(a, done) ==
    run.state \in {"running", "paused"} /\ a = run.attempt + 1 /\ done = CompletedSteps(run.nodes)

\* The job is recorded once, before the attempt's work, and under an id no attempt has had.
MayAdmit(a, id) ==
    /\ \A b \in Attempts : run.jobs[b] # id
    /\ run.state = "running" /\ run.attempt = a /\ run.jobs[a] = 0 /\ ~run.busy

MayRecord(s, node) ==
    LET prior == run.nodes[s]
    IN  /\ run.state = "running"
        /\ node.attempt <= MaxTries[s]
        /\ \A d \in DependsOn[s] : Settled(run.nodes[d])
        /\ CASE node.state = "started" ->
                  \/ prior.state = "none" /\ node.attempt = 1
                  \/ prior.state = "failed" /\ node.attempt = prior.attempt + 1 /\ s \in ReplaySafe
             [] node.state = "skipped" -> prior.state = "none" /\ node.attempt = 1
             [] OTHER -> prior = [node EXCEPT !.state = "started"]

\* Mutant: the intent is kept by the worker only.
IntentNotKept(s, node) == IF node.state = "started" THEN run ELSE [run EXCEPT !.nodes[s] = node, !.busy = TRUE]
Recorded(s, node) == [run EXCEPT !.nodes[s] = node, !.busy = TRUE]

\* The count that comes with the end of the run is compared with the journal's.
MayEnd(outcome, done) ==
    /\ run.state = "running" \/ (run.state = "paused" /\ outcome = "cancelled")
    /\ done = CompletedSteps(run.nodes)
    /\ outcome = "paused" => \A s \in Steps : run.nodes[s].state # "started"
    /\ outcome = "completed" => done = StepCount

End(outcome, done) == Appended(MayEnd(outcome, done), [run EXCEPT !.state = outcome])

-----------------------------------------------------------------------------
(* The service.                                                             *)

\* start: the definition is logged as attempt one; the id is new.
Start(c) ==
    /\ caller[c] = AtRest /\ run.state = "none"
    /\ \E w \in Appended(TRUE, [NoRun EXCEPT !.state = "running", !.attempt = 1]) :
          /\ Write(w)
          /\ caller' = IF w.ok THEN [caller EXCEPT ![c] = [at |-> "spawn", attempt |-> 1, done |-> 0]] ELSE caller
    /\ UNCHANGED <<active, closed, task, nextJob, executed, unknown>>

\* resume reads the projection under the session's lock, ...
ReadRun(c) ==
    /\ caller[c] = AtRest /\ run.state \in {"running", "paused"}
    /\ run.attempt < AttemptBudget
    /\ caller' = [caller EXCEPT ![c] = [at |-> "read", attempt |-> run.attempt + 1,
                                        done |-> CompletedSteps(run.nodes)]]
    /\ UNCHANGED <<run, active, closed, task, nextJob, executed, unknown, spent>>

\* ... looks under the runtime's lock whether an attempt is live, ...
CheckLive(c) ==
    /\ caller[c].at = "read"
    /\ caller' = [caller EXCEPT ![c] = IF active.held THEN AtRest ELSE [@ EXCEPT !.at = "checked"]]
    /\ UNCHANGED <<run, active, closed, task, nextJob, executed, unknown, spent>>

\* ... and logs the new attempt with what it read.
AppendResume(c) ==
    /\ caller[c].at = "checked"
    /\ LET a == caller[c].attempt
       IN \E w \in Appended(MayResume(a, caller[c].done),
                            [run EXCEPT !.attempt = a, !.busy = FALSE, !.state = "running"]) :
            /\ Write(w)
            /\ caller' = [caller EXCEPT ![c] = IF w.ok THEN [@ EXCEPT !.at = "spawn"] ELSE AtRest]
    /\ UNCHANGED <<active, closed, task, nextJob, executed, unknown>>

\* Mutant: the claim trusts the look that resume took.
TrustsTheLook == ~closed
\* spawn_attempt's guard under the runtime's lock.
MayClaim == ~closed /\ ~active.held

\* spawn_attempt up to the spawned job, whose body keeps the count of steps it was called with.  The registry may
\* have no room, or may not write its table: the entry is removed again.
SpawnAttempt(c) ==
    LET a == caller[c].attempt
    IN  /\ caller[c].at = "spawn"
        /\ \/ /\ ~MayClaim
              /\ caller' = [caller EXCEPT ![c] = AtRest]
              /\ UNCHANGED <<active, task, nextJob, spent>>
           \/ /\ MayClaim
              /\ active' = [Absent EXCEPT !.held = TRUE]
              /\ task' = [task EXCEPT ![a] = [NoTask EXCEPT !.phase = "new", !.job = nextJob,
                                                                     !.done = caller[c].done]]
              /\ nextJob' = nextJob + 1
              /\ caller' = [caller EXCEPT ![c] = AtRest]
              /\ UNCHANGED spent
           \/ /\ MayClaim
              /\ spent.faults < FaultBudget
              /\ spent' = [spent EXCEPT !.faults = @ + 1, !.refused = TRUE]
              /\ caller' = [caller EXCEPT ![c].at = "unspawned"]
              /\ nextJob' \in {nextJob, nextJob + 1}
              /\ UNCHANGED <<active, task>>
        /\ UNCHANGED <<run, closed, executed, unknown>>

\* spawn_attempt after a refused job: it reads the count of completed steps, ...
CountUnspawned(c) ==
    /\ caller[c].at = "unspawned"
    /\ caller' = [caller EXCEPT ![c].at = "counted", ![c].done = CompletedSteps(run.nodes)]
    /\ UNCHANGED <<run, active, closed, task, nextJob, executed, unknown, spent>>

\* ... and ends the run as failed with it.
EndUnspawned(c) ==
    /\ caller[c].at = "counted"
    /\ \E w \in End("failed", caller[c].done) : Write(w)
    /\ caller' = [caller EXCEPT ![c] = AtRest]
    /\ UNCHANGED <<active, closed, task, nextJob, executed, unknown>>

\* pause is remembered until the attempt's entry is removed.
Pause ==
    /\ active.held /\ ~active.pause
    /\ active' = [active EXCEPT !.pause = TRUE]
    /\ UNCHANGED <<run, closed, caller, task, nextJob, executed, unknown, spent>>

\* JobRegistry.cancel: the token of a job that has not settled.
CancelsJob(a) ==
    /\ task[a].phase # "none" /\ ~task[a].cancelled
    /\ task' = [task EXCEPT ![a].cancelled = TRUE]

\* The registry's own cancel and cancel_all (the tool cancel_job, an interrupt) know the job from its admission on.
CancelJob(a) ==
    /\ CancelsJob(a)
    /\ UNCHANGED <<run, active, closed, caller, nextJob, executed, unknown, spent>>

\* cancel holds the runtime's lock throughout.  A live attempt is cancelled through its job; before the job is
\* attached the call is refused; without an attempt the run is ended in the log.
Cancel ==
    /\ ~closed
    /\ \/ /\ active.held /\ active.job # 0 /\ CancelsJob(active.job)
          /\ UNCHANGED <<run, spent>>
       \/ /\ ~active.held /\ run.state \in {"running", "paused"}
          /\ \E w \in End("cancelled", CompletedSteps(run.nodes)) : Write(w)
          /\ UNCHANGED task
    /\ UNCHANGED <<active, closed, caller, nextJob, executed, unknown>>

\* close refuses further attempts and cancels the job it knows.
Close ==
    /\ ~closed
    /\ closed' = TRUE
    /\ \/ active.job # 0 /\ CancelsJob(active.job)
       \/ (active.job # 0 => task[active.job].phase = "none" \/ task[active.job].cancelled) /\ UNCHANGED task
    /\ UNCHANGED <<run, active, caller, nextJob, executed, unknown, spent>>

-----------------------------------------------------------------------------
(* The job of an attempt: the admission, and the graph worker.              *)

Ends(a, outcome) == [task EXCEPT ![a] = [NoTask EXCEPT !.phase = "ending", !.outcome = outcome,
                                                       !.cancelled = task[a].cancelled]]

\* The closure of spawn_attempt: attach_job, then the Job change before any work.
Admit(a) ==
    /\ task[a].phase = "new"
    /\ active' = IF active.held THEN [active EXCEPT !.job = a] ELSE active
    /\ \E w \in Appended(MayAdmit(a, task[a].job), [run EXCEPT !.jobs[a] = task[a].job]) :
          /\ Write(w)
          /\ task' = IF w.ok THEN [task EXCEPT ![a].phase = "open"]
                     ELSE [task EXCEPT ![a].phase = "unadmitted", ![a].cancelled = TRUE]
    /\ UNCHANGED <<closed, caller, nextJob, executed, unknown>>

\* A refused admission ends the run with the count spawn_attempt was called with, which the journal may have left
\* behind; then remove_active.
EndUnadmitted(a) ==
    /\ task[a].phase = "unadmitted"
    /\ \E w \in End("failed", task[a].done) : Write(w)
    /\ active' = Absent
    /\ task' = [task EXCEPT ![a] = NoTask]
    /\ UNCHANGED <<closed, caller, nextJob, executed, unknown>>

\* run_owned reads the nodes once; a failed read, or an intent without a result ends the attempt.
Interrupted(nodes) == \E s \in Steps : nodes[s].state = "started"

Open(a) ==
    /\ task[a].phase = "open"
    /\ \/ /\ task' = IF Interrupted(run.nodes) THEN Ends(a, "failed")
                     ELSE [task EXCEPT ![a].phase = "loop", ![a].nodes = run.nodes]
          /\ UNCHANGED spent
       \/ /\ spent.faults < FaultBudget
          /\ spent' = [spent EXCEPT !.faults = @ + 1]
          /\ task' = Ends(a, "failed")
    /\ UNCHANGED <<run, active, closed, caller, nextJob, executed, unknown>>

\* The filter of the loop: not yet tried, or failed and allowed to be tried again; every dependency settled.
MayTry(nodes, s) ==
    \/ nodes[s].state = "none"
    \/ nodes[s].state = "failed" /\ nodes[s].attempt < MaxTries[s] /\ s \in ReplaySafe
Ready(nodes) == {s \in Steps : MayTry(nodes, s) /\ \A d \in DependsOn[s] : Settled(nodes[d])}
First(set) == {s \in set : Cardinality({t \in set : t < s}) < MaxParallel}

Done(t) == CompletedSteps(t.nodes) = StepCount

\* Mutant: a graph without a ready step waits for one.
KeepsWaiting(t) ==
    IF t.cancelled THEN "cancelled" ELSE IF Done(t) THEN "completed" ELSE IF active.pause THEN "paused" ELSE "none"
\* The worker's way out of its loop, in the order of the checks; "none" when there is something to launch.
WayOut(t) ==
    IF t.cancelled THEN "cancelled"
    ELSE IF Done(t) THEN "completed"
    ELSE IF active.pause THEN "paused"
    ELSE IF Ready(t.nodes) = {} THEN "failed"
    ELSE "none"

Loop(a) ==
    /\ task[a].phase = "loop"
    /\ LET ready == First(Ready(task[a].nodes))
       IN task' = IF WayOut(task[a]) # "none" THEN Ends(a, WayOut(task[a]))
                  ELSE [task EXCEPT ![a].phase = IF ready = {} THEN "join" ELSE "launch", ![a].todo = ready]
    /\ UNCHANGED <<run, active, closed, caller, nextJob, executed, unknown, spent>>

\* Mutant: a skipped dependency counts as a completed one.
SkipByCondition(nodes, s) == IF s \in Conditional THEN BOOLEAN ELSE {FALSE}
\* A step is skipped when a dependency was, or when its condition says so.
SkipChoices(nodes, s) ==
    IF \E d \in DependsOn[s] : nodes[d].state = "skipped" THEN {TRUE}
    ELSE IF s \in Conditional THEN BOOLEAN ELSE {FALSE}

\* What the launch of a step leaves in the worker: the skip is remembered, the effect is queued.
AfterLaunch(t, s, node) ==
    LET rest == t.todo \ {s}
    IN  [t EXCEPT !.todo = rest,
                  !.phase = IF rest = {} THEN "join" ELSE "launch",
                  !.nodes[s] = IF node.state = "skipped" THEN node ELSE @,
                  !.effect[s] = IF node.state = "skipped" THEN "none" ELSE "queued"]

\* The next step of the ready list: its intent, or the skip, is in the log before the worker goes on.  When that
\* fails the attempt ends, and the effects queued so far never ran.
Launch(a) ==
    /\ task[a].phase = "launch"
    /\ \E s \in task[a].todo :
         /\ \A t \in task[a].todo : s <= t
         /\ \E skip \in SkipChoices(task[a].nodes, s) :
            LET node == [state |-> IF skip THEN "skipped" ELSE "started", attempt |-> task[a].nodes[s].attempt + 1]
            IN \E w \in Appended(MayRecord(s, node), Recorded(s, node)) :
                 /\ Write(w)
                 /\ task' = IF w.ok THEN [task EXCEPT ![a] = AfterLaunch(@, s, node)] ELSE Ends(a, "failed")
    /\ UNCHANGED <<active, closed, caller, nextJob, executed, unknown>>

\* The effect of a queued step; a retry waits first and gives up when it is cancelled.
Begin(a, s) ==
    /\ task[a].phase = "join" /\ task[a].effect[s] = "queued"
    /\ task[a].nodes[s].attempt > 0 => ~task[a].cancelled
    /\ task' = [task EXCEPT ![a].effect[s] = "running"]
    /\ executed' = [executed EXCEPT ![s] = @ + 1]
    /\ UNCHANGED <<run, active, closed, caller, nextJob, unknown, spent>>

\* One result of the joined effects, and its record.  A step whose condition or input cannot be resolved, or whose
\* retry was cancelled, fails without an effect.  A record that fails cancels the attempt's other steps.
Settle(a, s) ==
    /\ task[a].phase = "join" /\ task[a].effect[s] # "none"
    /\ \E state \in IF task[a].effect[s] = "running" THEN {"completed", "failed"} ELSE {"failed"} :
         LET node == [state |-> state, attempt |-> task[a].nodes[s].attempt + 1]
         IN \E w \in Appended(MayRecord(s, node), Recorded(s, node)) :
              /\ Write(w)
              /\ task' = [task EXCEPT ![a].nodes[s] = node,
                                      ![a].effect[s] = "none",
                                      ![a].cancelled = @ \/ ~w.ok,
                                      ![a].lost = @ \/ ~w.ok]
              /\ unknown' = IF task[a].effect[s] = "running" /\ w.run.nodes[s] # node THEN unknown \cup {s} ELSE unknown
    /\ UNCHANGED <<active, closed, caller, nextJob, executed>>

\* Every admitted effect is over: the next round, or the end after a lost record.
Joined(a) ==
    /\ task[a].phase = "join" /\ \A s \in Steps : task[a].effect[s] = "none"
    /\ task' = IF task[a].lost THEN Ends(a, "failed") ELSE [task EXCEPT ![a].phase = "loop"]
    /\ UNCHANGED <<run, active, closed, caller, nextJob, executed, unknown, spent>>

\* execute_attempt after the worker: the End change, written or not, then remove_active.
EndAttempt(a) ==
    /\ task[a].phase = "ending"
    /\ \E w \in End(task[a].outcome, CompletedSteps(run.nodes)) : Write(w)
    /\ active' = Absent
    /\ task' = [task EXCEPT ![a] = NoTask]
    /\ UNCHANGED <<closed, caller, nextJob, executed, unknown>>

-----------------------------------------------------------------------------
\* The body of the job panics, in an effect or anywhere else outside the session's lock: the registry catches it and
\* settles the job.  The joined effects are dropped, nothing is written, and remove_active never runs.
Panic(a) ==
    /\ task[a].phase # "none"
    /\ spent.faults < FaultBudget
    /\ spent' = [spent EXCEPT !.faults = @ + 1, !.panicked = TRUE]
    /\ unknown' = unknown \cup {s \in Steps : task[a].effect[s] = "running"}
    /\ task' = [task EXCEPT ![a] = NoTask]
    /\ UNCHANGED <<run, active, closed, caller, nextJob, executed>>

\* The process ends anywhere and another one opens the session: the log is what is left.
Crash ==
    /\ spent.crashes < CrashBudget
    /\ spent' = [spent EXCEPT !.crashes = @ + 1, !.panicked = FALSE]
    /\ unknown' = unknown \cup {s \in Steps : \E a \in Attempts : task[a].effect[s] = "running"}
    /\ active' = Absent
    /\ closed' = FALSE
    /\ caller' = [c \in Callers |-> AtRest]
    /\ task' = [a \in Attempts |-> NoTask]
    /\ UNCHANGED <<run, nextJob, executed>>

\* What the job of an attempt does, and what a call of resume or start does once it has begun.
TaskStep(a) ==
    \/ Admit(a) \/ EndUnadmitted(a) \/ Open(a) \/ Loop(a) \/ Launch(a) \/ Joined(a) \/ EndAttempt(a)
    \/ \E s \in Steps : Begin(a, s) \/ Settle(a, s)

CallStep(c) == CheckLive(c) \/ AppendResume(c) \/ SpawnAttempt(c) \/ CountUnspawned(c) \/ EndUnspawned(c)

Next ==
    \/ \E c \in Callers : Start(c) \/ ReadRun(c) \/ CallStep(c)
    \/ Pause \/ Cancel \/ Close \/ Crash
    \/ \E a \in Attempts : TaskStep(a) \/ CancelJob(a) \/ Panic(a)

\* The runtime polls every spawned job, an effect ends (a tool, an agent or a timer returns), and a caller's thread
\* runs on.  Nobody has to start, resume, pause or cancel anything.
Fairness ==
    /\ \A a \in Attempts : WF_vars(TaskStep(a))
    /\ \A c \in Callers : WF_vars(CallStep(c))

Spec == Init /\ [][Next]_vars /\ Fairness

-----------------------------------------------------------------------------
(* What the runs check.                                                     *)

Live(a) == task[a].phase # "none"
Running(s) == \E a \in Attempts : task[a].effect[s] = "running"

\* However often the run is resumed, interrupted or refused by the disk: an effect takes place at most
\* max_attempts times, once if it is not replay-safe (run_owned, the rules of project_workflows for Started).
EffectsBounded ==
    \A s \in Steps : executed[s] <= IF s \in ReplaySafe THEN MaxTries[s] ELSE 1

\* An effect whose outcome never reached the log, because the process ended or the record failed, is not repeated by
\* any later attempt, not even one that is replay-safe (the check for Started nodes at the top of run_owned).
UnknownNotRepeated ==
    [][\A s \in unknown : executed'[s] = executed[s]]_vars

\* While an effect takes place its intent is in the log, so that a crash at any moment is seen afterwards.
IntentBeforeEffect ==
    \A s \in Steps : Running(s) => run.nodes[s].state = "started"

\* A step that took effect had the results of all its dependencies in the log; none of them was skipped.
InputsWereThere ==
    \A s \in Steps : executed[s] > 0 => \A d \in DependsOn[s] : run.nodes[d].state = "completed"

\* A run that the log calls ended or paused has no attempt that can still act on the world: at most the last write of
\* an attempt that lost is outstanding (cancel, resume and spawn_attempt race for the run).  The exception is a job
\* the registry refused: spawn_attempt gives up its claim before it ends the run, and a second caller fits between.
EndedIsQuiet ==
    run.state \in Outcome /\ ~spent.refused =>
        \A a \in Attempts : task[a].phase \in {"none", "new", "unadmitted", "ending"}

\* At most one attempt is past its admission, and it is the one in the service's table (spawn_attempt's claim).
OneCoordinator ==
    /\ \A a, b \in Attempts : Live(a) /\ Live(b) => a = b
    /\ \A a \in Attempts : Live(a) => active.held

\* Every claimed run is released again: an attempt comes to its end whatever fails on its way, so that the run can be
\* resumed or cancelled afterwards (remove_active on every path).  The exception is a body that panics: its entry
\* stays until the process ends.
AttemptEnds == active.held ~> ~active.held \/ spent.panicked
=============================================================================
