---------------------------- MODULE Permissions ----------------------------
(***************************************************************************)
(* Who may change the workspace: Plan mode, the switchable approval policy *)
(* and the questions put to the person in front of the session.            *)
(*                                                                         *)
(* Plan mode is entered in two stages.  The selection is logged and blocks *)
(* new mutations at once; it is committed when the turn reaches a step     *)
(* boundary, the running hooks are over, the background work has been      *)
(* cancelled and has ended and the terminals of the session are killed.  It*)
(* is left by a command of the user, or by a review in which the user      *)
(* accepts the proposed plan and with it the policy that follows.          *)
(*                                                                         *)
(* A tool call is admitted under the policy of that moment, may wait for   *)
(* the person's answer while everything else moves on, and meets the Plan  *)
(* guard a second time before it starts; the later layers of the waterfall *)
(* run between that guard and the tool.                                    *)
(***************************************************************************)
EXTENDS Integers, Sequences, FiniteSets

CONSTANTS
    Calls,          \* mutating tool calls, each made at most once
    AgentCalls,     \* those made by background agents; the rest belong to the turn
    FileTools,      \* those AcceptedEdits::allows_file_tool admits
    TerminalCalls,  \* calls of the turn that leave a terminal of the session open
    Inputs,         \* the SessionAllowRules each call may turn out to ask for: tool and arguments
    HookPoints,     \* where the turn is when a hook is triggered
    Child,          \* the child ceiling each call runs under, "none" without one
    FirstPolicy,    \* the policy the process starts with
    UserPolicies,   \* the policies the user switches to
    TurnBudget, EntryBudget, SwitchBudget, ReviewBudget,
    MishapBudget    \* failed writes, waits that time out, cancellations and restarts together

Policy == {"full", "accepted", "ask", "deny"}
Instance == {"root", "child"}     \* the two AcceptedEdits instances: the parent's and the child's

ASSUME CallAssumption ==
    /\ AgentCalls \subseteq Calls /\ FileTools \subseteq Calls /\ TerminalCalls \subseteq Calls \ AgentCalls
    /\ DOMAIN Inputs = Calls /\ Child \in [Calls -> {"none", "ask", "accepted", "deny"}]
    /\ HookPoints \subseteq {"closed", "boundary", "step", "ending"}
    /\ FirstPolicy \in Policy /\ UserPolicies \subseteq Policy
ASSUME PermissionBoundAssumption ==
    TurnBudget \in Nat /\ EntryBudget \in Nat /\ SwitchBudget \in Nat /\ ReviewBudget \in Nat /\ MishapBudget \in Nat

VARIABLES
    active,     \* PlanState.active: Plan is committed
    entering,   \* PlanState.pending = Some(true)
    logged,     \* what PlanMode::from_log folds out of the session log
    torn,       \* a failed flush left a logged exit that memory did not follow
    episode,    \* which review_cancellation token is current
    reviewed,   \* the decision of the last PlanReview record in the session log
    overtaken,  \* the committed entry was selected again after its wait had begun
    policy,     \* SwitchableApproval.current
    call,       \* each tool call
    consent,    \* what the person allowed, and for which call
    gate,       \* who holds the lock of each AcceptedEdits instance
    grants,     \* the rules each AcceptedEdits instance remembers
    review,     \* each runner of exit_plan_mode
    turn,       \* where the turn loop is
    settle,     \* each commit_pending that is under way
    hook,       \* a handler of a hook is past the execution gate and runs
    terminal,   \* a terminal of the session: none, listed, or retired by a kill that failed
    cmd,        \* the command the surface runs; it runs one at a time
    stale,      \* the job registry holds rows restored from an earlier process
    spent       \* what the bounds have used up

planVars == <<active, entering, logged, torn, episode, reviewed, overtaken>>
callVars == <<call, consent, gate, grants>>
workVars == <<hook, terminal>>
vars == <<active, entering, logged, torn, episode, reviewed, overtaken, policy, call, consent, gate, grants, review,
          turn, settle, hook, terminal, cmd, stale, spent>>

Nobody == "nobody"
Reviewer == {"tool", "command"}
Settler == {"turn", "command"}
Unasked == [stage |-> "idle", input |-> "none", under |-> "none", todo |-> <<>>, said |-> "none",
            cancelled |-> FALSE, background |-> FALSE]
NoReview == [stage |-> "idle", token |-> 0, answer |-> "none", timely |-> TRUE, cancelled |-> FALSE]
NotSettling == [stage |-> "off", awaits |-> {}, since |-> 0]
AllInputs == UNION {Inputs[c] : c \in Calls}

Decider == [kind : Policy, at : Instance]
ToolCall == [stage : {"idle", "thinking", "deciding", "gated", "prompt", "approved", "cleared", "running", "done",
                      "refused"},
             input : AllInputs \union {"none"}, under : Policy \union {"none"}, todo : Seq(Decider),
             said : {"none", "allow", "session", "deny"}, cancelled : BOOLEAN, background : BOOLEAN]
Consent == [call : Calls, at : Instance, kind : {"allow", "session"}, input : AllInputs \union {"none"}]
Review == [stage : {"idle", "gate", "open", "asked", "decided"}, token : Nat,
           answer : {"none", "edits", "default", "stay"}, timely : BOOLEAN, cancelled : BOOLEAN]
\* since: how many entries had been selected when the settlement began.
Settlement == [stage : {"off", "hooks", "jobs", "terminals"}, awaits : SUBSET Calls, since : Nat]

PermissionTypeOK ==
    /\ active \in BOOLEAN /\ entering \in BOOLEAN /\ logged \in BOOLEAN /\ torn \in BOOLEAN
    /\ episode \in Nat /\ reviewed \in {"none", "open", "edits", "default"} /\ overtaken \in BOOLEAN
    /\ policy \in Policy
    /\ call \in [Calls -> ToolCall]
    /\ consent \subseteq Consent
    /\ gate \in [Instance -> Calls \union {Nobody}]
    /\ grants \in [Instance -> SUBSET (AllInputs \union {"none"})]
    /\ review \in [Reviewer -> Review]
    /\ turn \in {"closed", "boundary", "step", "ending"}
    /\ settle \in [Settler -> Settlement]
    /\ hook \in BOOLEAN /\ terminal \in {"none", "open", "lost"}
    /\ cmd \in {"idle", "enter", "review"}
    /\ stale \in BOOLEAN
    /\ spent \in [turns : Nat, entries : Nat, switches : Nat, reviews : Nat, mishaps : Nat]

-----------------------------------------------------------------------------
(* What the guards read                                                    *)

\* PlanMode::active: a selection that is not committed yet already blocks.
Planning == active \/ entering

Unfinished(c) == call[c].stage \notin {"idle", "refused", "done"}
\* Past the Plan guard: nothing but a later layer keeps the tool from running.
Working(c) == call[c].stage \in {"cleared", "running"}
IsJob(c) == c \in AgentCalls \/ call[c].background
TurnCalls == {c \in Calls : Unfinished(c) /\ ~IsJob(c)}

\* Mutant: the entry waits for nothing.
NothingRunning == {}

\* The jobs cancel_all reaches and settle_activity then waits for.
LiveJobs == {c \in Calls : Unfinished(c) /\ IsJob(c)}

\* has_open_turn: the log has a TurnStart without its TurnEnd.
OpenInLog == turn \in {"boundary", "step"}

ReviewHolder == {r \in Reviewer : review[r].stage \in {"open", "asked", "decided"}}

Mishap == spent.mishaps < MishapBudget
CountMishap == spent' = [spent EXCEPT !.mishaps = @ + 1]

-----------------------------------------------------------------------------
(* Entering Plan mode                                                      *)

\* Mutant: the entry is selected without being logged.
EnterUnlogged(back) ==
    /\ entering' = TRUE /\ cmd' = back
    /\ UNCHANGED <<workVars, active, logged, torn, episode, reviewed, overtaken>>

\* The part of PlanMode::set under the plan lock: the entry is logged first.
EnterLogged(back) ==
    /\ logged' = TRUE /\ torn' = FALSE /\ entering' = TRUE /\ cmd' = back
    /\ UNCHANGED <<workVars, active, episode, reviewed, overtaken>>

\* set(true).  An entry into the committed mode does nothing.
Set(back) ==
    /\ spent.entries < EntryBudget
    /\ ~(active /\ ~entering)
    /\ \/ /\ EnterLogged(back)
          /\ spent' = [spent EXCEPT !.entries = @ + 1]
       \/ /\ Mishap
          /\ spent' = [spent EXCEPT !.mishaps = @ + 1, !.entries = @ + 1]
          /\ UNCHANGED <<planVars, cmd>>
    /\ UNCHANGED <<workVars, policy, callVars, review, turn, settle, stale>>

\* "/plan on": between turns the command commits the entry itself.
EnterByCommand == cmd = "idle" /\ Set(IF OpenInLog THEN "idle" ELSE "enter")

\* enter_plan_mode, always inside an open turn: the entry waits for a boundary.
EnterByTool == turn = "step" /\ Set(cmd)

\* Mutant: the turn commits before a step only.
NoBoundaryAtTheEnd == turn = "boundary"

\* The turn loop commits a pending entry before each step and after its last.
AtBoundary == turn \in {"boundary", "ending"}

\* commit_pending finds an entry pending and begins to settle_activity.
BeginSettle(w) ==
    /\ entering /\ settle[w].stage = "off"
    /\ w = "turn" => AtBoundary
    /\ w = "command" => cmd = "enter"
    /\ settle' = [settle EXCEPT ![w] = [stage |-> "hooks", awaits |-> {}, since |-> spent.entries]]
    /\ UNCHANGED <<planVars, policy, callVars, review, turn, workVars, cmd, stale, spent>>

\* wait_for_idle has returned: every job is cancelled, then each is awaited.
CancelJobs(w) ==
    /\ settle[w].stage = "hooks" /\ ~hook
    /\ settle' = [settle EXCEPT ![w].stage = "jobs", ![w].awaits = LiveJobs]
    /\ call' = [c \in Calls |-> IF c \in LiveJobs THEN [call[c] EXCEPT !.cancelled = TRUE] ELSE call[c]]
    /\ UNCHANGED <<planVars, policy, consent, gate, grants, review, turn, workVars, cmd, stale, spent>>

\* Every awaited task is over.  A row restored from an earlier process has no
\* task handle, and wait_for_task_exit takes a missing handle for a live one.
QuietFor(w) == ~stale /\ \A c \in settle[w].awaits : ~Unfinished(c)

\* The jobs are over; the terminals are next.
JobsOver(w) ==
    /\ settle[w].stage = "jobs" /\ QuietFor(w)
    /\ settle' = [settle EXCEPT ![w].stage = "terminals"]
    /\ UNCHANGED <<planVars, policy, callVars, review, turn, workVars, cmd, stale, spent>>

\* A terminal of the session, or of the world, is killed.
KillTerminal(w) ==
    /\ settle[w].stage = "terminals" /\ terminal = "open"
    /\ terminal' = "none"
    /\ UNCHANGED <<planVars, policy, callVars, review, turn, settle, hook, cmd, stale, spent>>

\* What a settlement may have to wait for.
Waits(w) ==
    \/ settle[w].stage = "hooks" /\ hook
    \/ settle[w].stage = "jobs" /\ ~QuietFor(w)
    \/ settle[w].stage = "terminals" /\ terminal = "open"

\* Where the caller of commit_pending goes on.
Returns(w, ok) ==
    /\ settle' = [settle EXCEPT ![w] = NotSettling]
    /\ turn' = IF w # "turn" THEN turn
               ELSE IF turn = "ending" THEN "closed" ELSE IF ok THEN "step" ELSE "ending"
    /\ cmd' = IF w = "command" THEN "idle" ELSE cmd

\* commit_locked: the entry is logged once more and flushed, then memory follows.
CommitEntry(w) ==
    /\ logged' = TRUE /\ torn' = FALSE /\ active' = TRUE /\ entering' = FALSE
    /\ overtaken' = (settle[w].since # spent.entries)
    /\ UNCHANGED <<episode, reviewed>>

\* The rest of commit_pending: the pending entry is read again and committed.
Commit(w) ==
    /\ settle[w].stage = "terminals" /\ terminal # "open"
    /\ \/ entering /\ CommitEntry(w) /\ Returns(w, TRUE) /\ UNCHANGED spent
       \/ ~entering /\ Returns(w, TRUE) /\ UNCHANGED <<planVars, spent>>
       \/ /\ entering /\ Mishap /\ CountMishap
          /\ Returns(w, FALSE)
          /\ \/ UNCHANGED <<logged, torn>>                \* the append failed
             \/ logged' = TRUE /\ torn' = FALSE           \* the flush behind it failed
          /\ UNCHANGED <<active, entering, episode, reviewed, overtaken>>
    /\ UNCHANGED <<policy, callVars, review, workVars, stale>>

\* settle_activity gives up after five seconds, or a kill fails; the entry stays
\* pending.  A terminal whose kill was under way is off the list by then.
SettleFails(w) ==
    /\ Waits(w)
    /\ Mishap /\ CountMishap
    /\ Returns(w, FALSE)
    /\ \/ UNCHANGED terminal
       \/ settle[w].stage = "terminals" /\ terminal' = "lost"
    /\ UNCHANGED <<planVars, policy, callVars, review, hook, stale>>

\* A command whose entry was left, or committed by the turn, before it settled.
EnterOvertaken ==
    /\ cmd = "enter" /\ ~entering /\ settle["command"].stage = "off"
    /\ cmd' = "idle"
    /\ UNCHANGED <<workVars, planVars, policy, callVars, review, turn, settle, stale, spent>>

-----------------------------------------------------------------------------
(* The user's own switches                                                 *)

\* switch_policy_by_user: the exit is logged, then policy and mode follow, and
\* the reviews of this episode are withdrawn.
SwitchByUser(p) ==
    /\ cmd = "idle" /\ spent.switches < SwitchBudget
    /\ \/ /\ policy' = p
          /\ active' = FALSE /\ entering' = FALSE
          /\ UNCHANGED <<reviewed, overtaken>>
          /\ IF Planning THEN logged' = FALSE /\ torn' = FALSE /\ episode' = episode + 1
                         ELSE UNCHANGED <<logged, torn, episode>>
          /\ spent' = [spent EXCEPT !.switches = @ + 1]
       \/ /\ Planning /\ Mishap
          /\ \/ UNCHANGED <<logged, torn>>                \* the append failed
             \/ logged' = FALSE /\ torn' = TRUE           \* the flush behind it failed
          /\ spent' = [spent EXCEPT !.mishaps = @ + 1, !.switches = @ + 1]
          /\ UNCHANGED <<active, entering, episode, reviewed, overtaken, policy>>
    /\ UNCHANGED <<workVars, callVars, review, turn, settle, cmd, stale>>

-----------------------------------------------------------------------------
(* The review of a plan                                                    *)

\* ExitPlanTool::run up to the review gate; the command has its own run.
AskReview(r) ==
    /\ Planning /\ review[r].stage = "idle" /\ spent.reviews < ReviewBudget
    /\ IF r = "tool" THEN turn = "step" /\ UNCHANGED cmd ELSE cmd = "idle" /\ cmd' = "review"
    /\ review' = [review EXCEPT ![r] = [NoReview EXCEPT !.stage = "gate"]]
    /\ spent' = [spent EXCEPT !.reviews = @ + 1]
    /\ UNCHANGED <<workVars, planVars, policy, callVars, turn, settle, stale>>

ReviewOver(r) ==
    /\ review' = [review EXCEPT ![r] = NoReview]
    /\ cmd' = IF r = "command" THEN "idle" ELSE cmd

\* Past the gate the runner takes the token of the episode it is in.
OpenReview(r) ==
    /\ review[r].stage = "gate"
    /\ \/ /\ review[r].cancelled \/ (ReviewHolder = {} /\ ~Planning)
          /\ ReviewOver(r)
       \/ /\ ~review[r].cancelled /\ ReviewHolder = {} /\ Planning
          /\ review' = [review EXCEPT ![r].stage = "open", ![r].token = episode]
          /\ UNCHANGED cmd
    /\ UNCHANGED <<workVars, planVars, policy, callVars, turn, settle, stale, spent>>

\* record_review: refused unless Plan is committed with nothing pending.  Any
\* review record that is no acceptance folds to "active".
RecordReview ==
    /\ active /\ ~entering
    /\ logged' = TRUE /\ torn' = FALSE /\ reviewed' = "open"
    /\ UNCHANGED <<active, entering, episode, overtaken>>

\* The proposal is recorded as pending and put to the person.
ProposeReview(r) ==
    /\ review[r].stage = "open"
    /\ \/ /\ RecordReview
          /\ review' = [review EXCEPT ![r].stage = "asked"]
          /\ UNCHANGED <<cmd, spent>>
       \/ /\ ~(active /\ ~entering)
          /\ ReviewOver(r) /\ UNCHANGED <<planVars, spent>>
       \/ /\ active /\ ~entering /\ Mishap /\ CountMishap
          /\ ReviewOver(r) /\ UNCHANGED planVars
    /\ UNCHANGED <<workVars, policy, callVars, turn, settle, stale>>

\* Timing: a command that enters Plan mode returns within the five seconds of
\* settle_activity, before the plan it waits for is written, read and answered.
CommandIsSettled == cmd # "enter"

\* answer_plan, while the waiter of this review is there.
AnswerReview(r, d) ==
    /\ review[r].stage = "asked" /\ review[r].answer = "none"
    /\ CommandIsSettled
    /\ review' = [review EXCEPT ![r].answer = d, ![r].timely = (review[r].token = episode)]
    /\ UNCHANGED <<workVars, planVars, policy, callVars, turn, settle, cmd, stale, spent>>

\* The select over the episode's token and the answer is biased to the token.
Withdrawn(r) == review[r].token # episode

\* The review's select returns: withdrawn, cancelled, or with the answer.
ReviewReturns(r) ==
    /\ review[r].stage = "asked"
    /\ \/ /\ Withdrawn(r)
          /\ ReviewOver(r)
       \/ /\ ~Withdrawn(r) /\ (review[r].cancelled \/ review[r].answer # "none")
          /\ review' = [review EXCEPT ![r].stage = "decided",
                                      ![r].answer = IF review[r].cancelled THEN "stay" ELSE @]
          /\ UNCHANGED cmd
    /\ UNCHANGED <<workVars, planVars, policy, callVars, turn, settle, stale, spent>>

Target(d) == IF d = "edits" THEN "accepted" ELSE "ask"
Accepts(r) == review[r].answer \in {"edits", "default"}

\* accept: the acceptance is logged, then policy and mode follow.
Accept(r) ==
    /\ logged' = FALSE /\ torn' = FALSE /\ reviewed' = review[r].answer
    /\ policy' = Target(review[r].answer)
    /\ active' = FALSE /\ entering' = FALSE
    /\ UNCHANGED <<episode, overtaken>>

\* What the decision does: accept, or one more record that keeps the mode.
ApplyReview(r) ==
    /\ review[r].stage = "decided"
    /\ \/ active /\ ~entering /\ Accepts(r) /\ Accept(r) /\ UNCHANGED spent
       \/ ~Accepts(r) /\ RecordReview /\ UNCHANGED <<policy, spent>>
       \/ ~(active /\ ~entering) /\ UNCHANGED <<planVars, policy, spent>>
       \/ active /\ ~entering /\ Mishap /\ CountMishap /\ UNCHANGED <<planVars, policy>>
    /\ ReviewOver(r)
    /\ UNCHANGED <<workVars, callVars, turn, settle, stale>>

-----------------------------------------------------------------------------
(* Tool calls                                                              *)

\* Mutant: the ceiling of the child is not asked.
ParentOnly(c) == <<[kind |-> policy, at |-> "root"]>>

\* Whom decide_with_child_policy asks, in order.  A fresh prompt of the parent
\* also answers for the child.
Deciders(c) ==
    IF Child[c] = "none" \/ (policy = "ask" /\ Child[c] # "deny")
    THEN <<[kind |-> policy, at |-> "root"]>>
    ELSE IF Child[c] = "deny" THEN <<[kind |-> "deny", at |-> "child"]>>
    ELSE <<[kind |-> policy, at |-> "root"], [kind |-> Child[c], at |-> "child"]>>

Asker(c) == Head(call[c].todo)
At(c, s) == [call EXCEPT ![c].stage = s]

\* A refused call is over; what it asked for is forgotten.
Refused(c) == [call EXCEPT ![c] = [Unasked EXCEPT !.stage = "refused", !.background = call[c].background]]

\* The turn starts a background agent; the agent tool is open in Plan mode.
SpawnAgent(c) ==
    /\ turn = "step" /\ c \in AgentCalls /\ call[c].stage = "idle"
    /\ call' = At(c, "thinking")
    /\ UNCHANGED <<workVars, planVars, policy, consent, gate, grants, review, turn, settle, cmd, stale, spent>>

\* admit_call: the Plan guard comes before any question, then the policy of
\* this moment is taken.  A cancelled agent makes no further call.
Admit(c) ==
    /\ IF c \in AgentCalls THEN call[c].stage = "thinking" ELSE turn = "step" /\ call[c].stage = "idle"
    /\ \/ (Planning \/ call[c].cancelled) /\ call' = Refused(c)
       \/ /\ ~Planning /\ ~call[c].cancelled
          /\ \E x \in Inputs[c] :
                call' = [call EXCEPT ![c].stage = "deciding", ![c].input = x, ![c].under = policy,
                                     ![c].todo = Deciders(c)]
    /\ UNCHANGED <<workVars, planVars, policy, consent, gate, grants, review, turn, settle, cmd, stale, spent>>

\* One decider after the other; each is a policy's decide_cancellable.
Decide(c) ==
    /\ call[c].stage = "deciding"
    /\ call' = IF call[c].todo = <<>> THEN At(c, "approved")
               ELSE LET kind == Asker(c).kind IN
                    IF kind = "full" THEN [call EXCEPT ![c].todo = Tail(@)]
                    ELSE IF kind = "deny" \/ call[c].cancelled THEN Refused(c)
                    ELSE IF kind = "ask" THEN At(c, "prompt")
                    ELSE IF c \in FileTools THEN [call EXCEPT ![c].todo = Tail(@)] ELSE At(c, "gated")
    /\ UNCHANGED <<workVars, planVars, policy, consent, gate, grants, review, turn, settle, cmd, stale, spent>>

\* The wait for the AcceptedEdits lock watches the call's cancellation.
GivesUp(c) == call[c].cancelled

\* AcceptedEdits under its lock: a remembered rule, or a question asked with
\* the lock held.
EnterGate(c) ==
    /\ call[c].stage = "gated"
    /\ \/ GivesUp(c) /\ call' = Refused(c) /\ UNCHANGED gate
       \/ /\ ~GivesUp(c) /\ gate[Asker(c).at] = Nobody
          /\ IF call[c].input \in grants[Asker(c).at]
             THEN call' = [call EXCEPT ![c].stage = "deciding", ![c].todo = Tail(@)] /\ UNCHANGED gate
             ELSE call' = At(c, "prompt") /\ gate' = [gate EXCEPT ![Asker(c).at] = c]
    /\ UNCHANGED <<workVars, planVars, policy, consent, grants, review, turn, settle, cmd, stale, spent>>

\* try_answer_with, while the waiter of this question is there.
Answer(c, a) ==
    /\ call[c].stage = "prompt" /\ call[c].said = "none"
    /\ call' = [call EXCEPT ![c].said = a]
    /\ consent' = IF a = "deny" THEN consent
                  ELSE consent \union {[call |-> c, at |-> Asker(c).at, kind |-> a, input |-> call[c].input]}
    /\ UNCHANGED <<workVars, planVars, policy, gate, grants, review, turn, settle, cmd, stale, spent>>

\* deny_all_pending: the surface goes away and fails everything open closed.
DenyAll ==
    /\ \/ \E c \in Calls : call[c].stage = "prompt" /\ call[c].said = "none"
       \/ \E r \in Reviewer : review[r].stage = "asked" /\ review[r].answer = "none"
    /\ call' = [c \in Calls |-> IF call[c].stage = "prompt" /\ call[c].said = "none"
                                THEN [call[c] EXCEPT !.said = "deny"] ELSE call[c]]
    /\ review' = [r \in Reviewer |-> IF review[r].stage = "asked" /\ review[r].answer = "none"
                                     THEN [review[r] EXCEPT !.answer = "stay", !.timely = (review[r].token = episode)]
                                     ELSE review[r]]
    /\ UNCHANGED <<workVars, planVars, policy, consent, gate, grants, turn, settle, cmd, stale, spent>>

\* A rule is remembered by AcceptedEdits only, when the person said so.
Remembers(c) == IF Asker(c).kind = "accepted" /\ call[c].said = "session" THEN {call[c].input} ELSE {}

\* request_approval returns: its select is biased to the cancellation.
Resolve(c) ==
    /\ call[c].stage = "prompt"
    /\ call[c].cancelled \/ call[c].said # "none"
    /\ gate' = [i \in Instance |-> IF gate[i] = c THEN Nobody ELSE gate[i]]
    /\ IF call[c].cancelled \/ call[c].said = "deny"
       THEN call' = Refused(c) /\ UNCHANGED grants
       ELSE /\ call' = [call EXCEPT ![c].stage = "deciding", ![c].todo = Tail(@), ![c].said = "none"]
            /\ grants' = [grants EXCEPT ![Asker(c).at] = @ \union Remembers(c)]
    /\ UNCHANGED <<workVars, planVars, policy, consent, review, turn, settle, cmd, stale, spent>>

\* execute_preapproved_observed and PlanGuard: the mode is read again.
MayStart(c) == ~call[c].cancelled /\ ~Planning

\* The approved call passes the guard, or is refused after all.
Guard(c) ==
    /\ call[c].stage = "approved"
    /\ call' = IF MayStart(c) THEN At(c, "cleared") ELSE Refused(c)
    /\ UNCHANGED <<planVars, policy, consent, gate, grants, review, turn, settle, workVars, cmd, stale, spent>>

\* The later layers of the waterfall have run: the tool starts, whatever was
\* selected or cancelled meanwhile, unless one of them refused it.
Start(c) ==
    /\ call[c].stage = "cleared"
    /\ call' \in {At(c, "running"), Refused(c)}
    /\ UNCHANGED <<planVars, policy, consent, gate, grants, review, turn, settle, workVars, cmd, stale, spent>>

\* The tool is done.  A terminal it opened stays.
Finish(c) ==
    /\ call[c].stage = "running"
    /\ call' = At(c, "done")
    /\ terminal' = IF c \in TerminalCalls THEN "open" ELSE terminal
    /\ UNCHANGED <<planVars, policy, consent, gate, grants, review, turn, settle, hook, cmd, stale, spent>>

\* A running call of the turn is moved to the background; the turn goes on.
Promote(c) ==
    /\ call[c].stage = "running" /\ ~IsJob(c)
    /\ call' = [call EXCEPT ![c].background = TRUE]
    /\ UNCHANGED <<workVars, planVars, policy, consent, gate, grants, review, turn, settle, cmd, stale, spent>>

\* A job or one call is cancelled from outside.
Cancel(c) ==
    /\ Mishap /\ Unfinished(c) /\ ~call[c].cancelled
    /\ call' = [call EXCEPT ![c].cancelled = TRUE]
    /\ spent' = [spent EXCEPT !.mishaps = @ + 1]
    /\ UNCHANGED <<workVars, planVars, policy, consent, gate, grants, review, turn, settle, cmd, stale>>

\* run_one asks the gate before it runs a handler of a hook.
HookStarts ==
    /\ ~hook /\ ~Planning /\ turn \in HookPoints
    /\ hook' = TRUE
    /\ UNCHANGED <<planVars, policy, callVars, review, turn, settle, terminal, cmd, stale, spent>>

\* A handler returns, or is abandoned at HOOK_TIMEOUT.
HookEnds ==
    /\ hook
    /\ hook' = FALSE
    /\ UNCHANGED <<planVars, policy, callVars, review, turn, settle, terminal, cmd, stale, spent>>

-----------------------------------------------------------------------------
(* The turn and the process                                                *)

OpenTurn ==
    /\ turn = "closed" /\ spent.turns < TurnBudget
    /\ turn' = "boundary"
    /\ spent' = [spent EXCEPT !.turns = @ + 1]
    /\ UNCHANGED <<workVars, planVars, policy, callVars, review, settle, cmd, stale>>

\* Nothing is pending at the boundary: the step runs.
PassBoundary ==
    /\ turn = "boundary" /\ ~entering /\ settle["turn"].stage = "off"
    /\ turn' = "step"
    /\ UNCHANGED <<workVars, planVars, policy, callVars, review, settle, cmd, stale, spent>>

\* The step's batch is over, its calls and its review with it.
EndStep(next) ==
    /\ turn = "step" /\ TurnCalls = {} /\ review["tool"].stage = "idle"
    /\ turn' = next
    /\ UNCHANGED <<workVars, planVars, policy, callVars, review, settle, cmd, stale, spent>>

\* The user interrupts the turn: its calls and its review are cancelled.
CancelTurn ==
    /\ turn = "step" /\ Mishap
    /\ call' = [c \in Calls |-> IF c \in TurnCalls THEN [call[c] EXCEPT !.cancelled = TRUE] ELSE call[c]]
    /\ review' = [review EXCEPT !["tool"].cancelled = (@ \/ review["tool"].stage # "idle")]
    /\ spent' = [spent EXCEPT !.mishaps = @ + 1]
    /\ UNCHANGED <<workVars, planVars, policy, consent, gate, grants, turn, settle, cmd, stale>>

\* Nothing is pending after the last step: the session is idle.
CloseTurn ==
    /\ turn = "ending" /\ settle["turn"].stage = "off"
    /\ entering => ~AtBoundary
    /\ turn' = "closed"
    /\ UNCHANGED <<workVars, planVars, policy, callVars, review, settle, cmd, stale, spent>>

\* The policy the plan plugin applies when it is composed: that of the last
\* review, if it was an acceptance.
Resumed == IF reviewed \in {"edits", "default"} THEN Target(reviewed) ELSE FirstPolicy

\* The process ends anywhere and the session is resumed: Plan mode and the policy
\* of an accepted plan come from the log, the job rows from their history.  What
\* was allowed in the earlier process is forgotten, its calls are over.
Restart ==
    /\ Mishap
    /\ active' = logged /\ entering' = FALSE /\ torn' = FALSE /\ episode' = episode + 1 /\ overtaken' = FALSE
    /\ policy' = Resumed
    /\ stale' = (stale \/ \E c \in Calls : IsJob(c) /\ call[c].stage # "idle")
    /\ call' = [c \in Calls |-> IF call[c].stage = "idle" THEN call[c] ELSE [Unasked EXCEPT !.stage = "refused"]]
    /\ consent' = {} /\ gate' = [i \in Instance |-> Nobody] /\ grants' = [i \in Instance |-> {}]
    /\ review' = [r \in Reviewer |-> NoReview]
    /\ settle' = [w \in Settler |-> NotSettling]
    /\ hook' = FALSE /\ terminal' = "none"
    /\ turn' = "closed" /\ cmd' = "idle"
    /\ spent' = [spent EXCEPT !.mishaps = @ + 1]
    /\ UNCHANGED <<logged, reviewed>>

-----------------------------------------------------------------------------
Init ==
    /\ active = FALSE /\ entering = FALSE /\ logged = FALSE /\ torn = FALSE /\ episode = 1
    /\ reviewed = "none" /\ overtaken = FALSE
    /\ policy = FirstPolicy
    /\ call = [c \in Calls |-> Unasked] /\ consent = {}
    /\ gate = [i \in Instance |-> Nobody] /\ grants = [i \in Instance |-> {}]
    /\ review = [r \in Reviewer |-> NoReview]
    /\ turn = "closed" /\ settle = [w \in Settler |-> NotSettling] /\ cmd = "idle" /\ stale = FALSE
    /\ hook = FALSE /\ terminal = "none"
    /\ spent = [turns |-> 0, entries |-> 0, switches |-> 0, reviews |-> 0, mishaps |-> 0]

\* What the person, the provider and the host do.
Outside ==
    \/ EnterByCommand \/ EnterByTool \/ DenyAll \/ OpenTurn \/ CancelTurn \/ Restart \/ HookStarts
    \/ \E p \in UserPolicies : SwitchByUser(p)
    \/ \E r \in Reviewer : AskReview(r) \/ \E d \in {"edits", "default", "stay"} : AnswerReview(r, d)
    \/ \E c \in Calls : SpawnAgent(c) \/ (c \notin AgentCalls /\ Admit(c)) \/ Promote(c) \/ Cancel(c)
    \/ \E c \in Calls : \E a \in {"allow", "session", "deny"} : Answer(c, a)

\* What the code does by itself once it can.
CallStep(c) == (c \in AgentCalls /\ Admit(c)) \/ Decide(c) \/ EnterGate(c) \/ Resolve(c) \/ Guard(c) \/ Start(c)
               \/ Finish(c)
ReviewStep(r) == OpenReview(r) \/ ProposeReview(r) \/ ReviewReturns(r) \/ ApplyReview(r)
EntryStep(w) == BeginSettle(w) \/ CancelJobs(w) \/ JobsOver(w) \/ KillTerminal(w) \/ Commit(w) \/ SettleFails(w)
TurnStep == PassBoundary \/ CloseTurn \/ \E next \in {"boundary", "ending"} : EndStep(next)

Next ==
    \/ Outside \/ TurnStep \/ EnterOvertaken \/ HookEnds
    \/ \E c \in Calls : CallStep(c)
    \/ \E r \in Reviewer : ReviewStep(r)
    \/ \E w \in Settler : EntryStep(w)

Fairness ==
    /\ WF_vars(TurnStep) /\ WF_vars(EnterOvertaken) /\ WF_vars(HookEnds)
    /\ \A c \in Calls : WF_vars(CallStep(c))
    /\ \A r \in Reviewer : WF_vars(ReviewStep(r))
    /\ \A w \in Settler : WF_vars(EntryStep(w))

Spec == Init /\ [][Next]_vars /\ Fairness

-----------------------------------------------------------------------------
(* Properties                                                              *)

\* Once Plan mode is committed no mutating call is past the guard and no terminal
\* of the session is listed: the entry has waited for the batch of the turn and
\* for every job, and a call approved before the entry is refused at the guard.
\* No handler of a hook runs on either, unless Plan mode was left and selected
\* again after that wait had begun.
CommittedPlanIsQuiet ==
    active => (\A c \in Calls : ~Working(c)) /\ terminal # "open" /\ (hook => overtaken)

\* What a restart folds out of the log is the mode the process was in, after
\* every order of entries, exits, reviews and failed writes; except that an exit
\* whose flush failed is in the log although the process stays in Plan mode.
RestartAgrees == logged = Planning \/ (torn /\ Planning)

\* What the person said about this very call, or for good about its input, to the
\* instance that asks, in this process.
AskedFor(c) == \E k \in consent : k.call = c
Allowed(c, i) ==
    \E k \in consent : k.at = i /\ (k.call = c \/ (k.kind = "session" /\ k.input = call[c].input))

\* A call that ran was allowed by the policy it was admitted under and by the
\* ceiling of its child: under "ask" by an answer of its own, under accepted
\* edits as a file tool, by an answer, or by a grant given for the same input to
\* the same instance, whatever was switched, cancelled or answered meanwhile.
ConsentCovers ==
    \A c \in Calls : call[c].stage \in {"cleared", "running", "done"} =>
        /\ call[c].under # "deny" /\ Child[c] # "deny"
        /\ call[c].under = "ask" => AskedFor(c)
        /\ call[c].under = "accepted" => c \in FileTools \/ Allowed(c, "root")
        /\ Child[c] = "ask" => AskedFor(c)
        /\ Child[c] = "accepted" => c \in FileTools \/ AskedFor(c) \/ Allowed(c, "child")

\* A decision that is about to be applied was given while the episode it was
\* asked in was still the current one: a late answer to a review the user's own
\* exit has withdrawn is never taken.
TimelyDecision == \A r \in Reviewer : review[r].stage = "decided" => review[r].timely

OpenQuestion ==
    \/ \E c \in Calls : call[c].stage = "prompt" /\ call[c].said = "none" /\ ~call[c].cancelled
    \/ \E r \in Reviewer : review[r].stage = "asked" /\ review[r].answer = "none"

\* An entry into Plan mode is committed or left again, unless a write failed, a
\* job outlived the wait of five seconds, or a person owes an answer: the turn
\* commits what was selected during its last step, the command what was selected
\* between turns.
EntryWaitsForPeopleOnly == entering ~> (~entering \/ spent.mishaps > 0 \/ OpenQuestion)

\* A wait that cannot end is a wait for work that is running: "stop the running
\* work and retry /plan on" can be followed.
BlockedByWork == \A w \in Settler : settle[w].stage = "jobs" /\ ~QuietFor(w) => LiveJobs # {}
=============================================================================
