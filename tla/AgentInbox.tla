----------------------------- MODULE AgentInbox -----------------------------
(***************************************************************************)
(* The durable inbox of a root agent and everyone who touches it: the      *)
(* submitters that queue input, the turn that drains it, the foreground    *)
(* prompt of a user, and the automatic driver that opens turns by itself.  *)
(*                                                                         *)
(* A submission never starts a turn.  Either it finds the agent idle and   *)
(* wakes the driver, or it finds a turn running and counts on that turn    *)
(* (or its settlement) to see the queue.  The module asks when that is     *)
(* true, and what a turn may admit.                                        *)
(*                                                                         *)
(* Session appends succeed (SessionLog is about those that do not), and    *)
(* no agent completion is waiting for capacity, so that                    *)
(* reconcile_completion_capacity has nothing to deliver.                   *)
(***************************************************************************)
EXTENDS Integers, Sequences, FiniteSets

CONSTANTS
    Message,       \* inbox occurrences, one submission each
    Delivery,      \* follow_up, steer or inject, for each message
    Team,          \* the messages the team mailbox delivers, and may redeliver
    MaxPending,    \* MAX_PENDING_INBOX_MESSAGES
    DriverTurns,   \* how many turns one driver runs (64 in the code)
    Foreground,    \* the prompting host holds an InboxWakeBarrier (the TUI does)
    PromptBudget, CancelBudget, FailBudget, CrashBudget, StepBudget

CONSTANT NoMessage
ASSUME MessageAssumption ==
    /\ NoMessage \notin Message
    /\ Delivery \in [Message -> {"follow_up", "steer", "inject"}]
    /\ Team \subseteq {m \in Message : Delivery[m] = "follow_up"}
    /\ Foreground \in BOOLEAN
ASSUME InboxBoundAssumption ==
    /\ MaxPending \in Nat /\ DriverTurns \in Nat /\ PromptBudget \in Nat
    /\ CancelBudget \in Nat /\ FailBudget \in Nat /\ CrashBudget \in Nat
    /\ StepBudget \in Nat

VARIABLES
    nextTurn, nextStep,  \* the two queues of InboxProjection
    inserted,            \* every occurrence some splice inserted
    claimed,             \* how often each occurrence was admitted as user/message
    canceled,            \* occurrences a splice removed as Canceled
    sub,                 \* where each message's submission stands
    turn,                \* the turn that owns the gate
    paused,              \* inbox_auto_paused
    deferred,            \* inbox_wake_deferred
    driver,              \* the automatic driver; its pc says whether inbox_driver_running
    recheck,             \* finished drivers about to call wake_native_parent again
    user,                \* the host that sends fresh prompts
    spent                \* what the bounds have used up

queues == <<nextTurn, nextStep, inserted, claimed, canceled>>
vars == <<nextTurn, nextStep, inserted, claimed, canceled, sub, turn, paused, deferred, driver, recheck, user, spent>>

(***************************************************************************)
(* Turn phases.  The cancellation lease of begin_turn is held from         *)
(* "opening" to "leaving"; the turn gate is held to the end of "released". *)
(*    opening    begin_turn; the opening input is about to be read         *)
(*    hook       user-prompt hooks are running                             *)
(*    admitted   the opening input is a user/message, turn/start is next   *)
(*    boundary   top of the step loop                                      *)
(*    draining   step/start is durable, drain_next_step is claiming        *)
(*    request    the provider stream and the tool batch                    *)
(*    redraining no tool call is left: the drain before settling           *)
(*    settling   turn/end is durable, the inbox not yet announced          *)
(*    leaving    the result is known, the lease not yet dropped            *)
(*    released   AgentIdle is published, the gate not yet free             *)
(* An idle turn record remembers how the last turn of this process ended.  *)
(***************************************************************************)
Phase == {"idle", "opening", "hook", "admitted", "boundary", "draining",
          "request", "redraining", "settling", "leaving", "released"}

NoTurn == [phase |-> "idle", gate |-> "none", id |-> NoMessage, left |-> 0,
           drained |-> FALSE, open |-> FALSE, step |-> FALSE,
           cancelled |-> FALSE, result |-> "none", steps |-> 0]
NoDriver == [pc |-> "off", id |-> NoMessage, turns |-> 0, ok |-> TRUE, cancelled |-> FALSE]
NothingSpent == [prompts |-> 0, cancels |-> 0, fails |-> 0, crashes |-> 0]

Turn == [phase : Phase, gate : {"none", "user", "driver"}, id : Message \union {NoMessage}, left : Nat,
         drained : BOOLEAN, open : BOOLEAN, step : BOOLEAN, cancelled : BOOLEAN,
         result : {"none", "ok", "empty", "error", "aborted"}, steps : Nat]
Driver == [pc : {"off", "failed", "picking", "waiting", "turn", "releasing"},
           id : Message \union {NoMessage}, turns : Nat, ok : BOOLEAN, cancelled : BOOLEAN]
Spending == [prompts : Nat, cancels : Nat, fails : Nat, crashes : Nat]

TypeOK ==
    /\ nextTurn \in Seq(Message) /\ nextStep \in Seq(Message)
    /\ inserted \subseteq Message /\ canceled \subseteq Message
    /\ claimed \in [Message -> Nat]
    /\ sub \in [Message -> {"new", "sawBusy", "sawIdle", "waking", "mailed", "done"}]
    /\ turn \in Turn
    /\ paused \in BOOLEAN
    /\ deferred \in Nat
    /\ driver \in Driver
    /\ recheck \in Nat
    /\ user \in {"idle", "waiting", "turn", "joining"}
    /\ spent \in Spending

-----------------------------------------------------------------------------
(* Queries                                                                 *)

Elems(q) == {q[i] : i \in 1..Len(q)}
Pending == Elems(nextTurn) \union Elems(nextStep)

\* check_capacity: the count across both queues.
HasCapacity == Len(nextTurn) + Len(nextStep) < MaxPending

\* AgentCancellation::is_turn_active
Active == turn.phase \notin {"idle", "released"}

\* next_wakeable_message: the oldest input, unless only injects wait.
NextWakeable ==
    CASE nextTurn # << >> -> Head(nextTurn)
      [] nextTurn = << >> /\ (\E m \in Elems(nextStep) : Delivery[m] = "steer") -> Head(nextStep)
      [] OTHER -> NoMessage

\* wake_native_parent for the root conversation: reserve the driver unless
\* delivery is paused, deferred, cancelled, pointless or already driven.
MayDrive(barriers) ==
    /\ ~paused
    /\ ~(Active /\ turn.cancelled)
    /\ barriers = 0
    /\ NextWakeable # NoMessage
    /\ driver.pc \in {"off", "failed"}

\* Nobody drives, and somebody else has to ask for the next wake.
GaveUp == [NoDriver EXCEPT !.pc = "failed"]

\* The driver is a coordinator job; the registry may refuse it ("native inbox
\* remains queued"), and the reservation is given back.
WakeDriver(barriers) ==
    \/ /\ driver' = IF MayDrive(barriers) THEN [NoDriver EXCEPT !.pc = "picking"] ELSE driver
       /\ UNCHANGED spent
    \/ /\ MayDrive(barriers) /\ spent.fails < FailBudget
       /\ driver' = GaveUp
       /\ spent' = [spent EXCEPT !.fails = @ + 1]

-----------------------------------------------------------------------------
Init ==
    /\ nextTurn = << >> /\ nextStep = << >>
    /\ inserted = {} /\ canceled = {}
    /\ claimed = [m \in Message |-> 0]
    /\ sub = [m \in Message |-> "new"]
    /\ turn = NoTurn
    /\ paused = FALSE
    /\ deferred = 0
    /\ driver = NoDriver
    /\ recheck = 0
    /\ user = "idle"
    /\ spent = NothingSpent

-----------------------------------------------------------------------------
(* Submission: enqueue_inbox_with_source evaluates is_turn_active() first, *)
(* then enqueue_owned_inbox takes the session lock and appends.            *)

ReadActive(m) ==
    /\ m \notin Team
    /\ sub[m] = "new"
    /\ sub' = [sub EXCEPT ![m] = IF Active THEN "sawBusy" ELSE "sawIdle"]
    /\ UNCHANGED <<queues, turn, paused, deferred, driver, recheck, user, spent>>

\* The insert splice, at the end of the delivery's queue.
Insert(m) ==
    /\ inserted' = inserted \union {m}
    /\ IF Delivery[m] = "follow_up"
       THEN nextTurn' = Append(nextTurn, m) /\ UNCHANGED nextStep
       ELSE nextStep' = Append(nextStep, m) /\ UNCHANGED nextTurn
    /\ UNCHANGED <<claimed, canceled>>

\* enqueue_owned_inbox: capacity, the durable insert, and the wake decided from
\* the activity read before it.
Enqueue(m) ==
    /\ sub[m] \in {"sawBusy", "sawIdle"}
    /\ HasCapacity
    /\ Insert(m)
    /\ sub' = [sub EXCEPT ![m] = IF sub[m] = "sawIdle" /\ Delivery[m] # "inject"
                                 THEN "waking" ELSE "done"]
    /\ UNCHANGED <<turn, paused, deferred, driver, recheck, user, spent>>

\* InboxAdmissionError::PendingCount: the caller keeps its text and may retry.
RefuseFull(m) ==
    /\ sub[m] \in {"sawBusy", "sawIdle"}
    /\ ~HasCapacity
    /\ sub' = [sub EXCEPT ![m] = "new"]
    /\ UNCHANGED <<queues, turn, paused, deferred, driver, recheck, user, spent>>

\* publish_inbox_submission -> emit_inbox -> request_inbox_wake
PublishWake(m) ==
    /\ sub[m] = "waking"
    /\ sub' = [sub EXCEPT ![m] = "done"]
    /\ WakeDriver(deferred)
    /\ UNCHANGED <<queues, turn, paused, deferred, recheck, user>>

\* Mutant: a redelivery is only refused while the first is still pending.
DeliverTeamMailPendingOnly(m) ==
    /\ m \in Team
    /\ sub[m] \in {"new", "done"}
    /\ m \notin Pending
    /\ claimed[m] < 2
    /\ HasCapacity
    /\ Insert(m)
    /\ sub' = [sub EXCEPT ![m] = "mailed"]
    /\ UNCHANGED <<turn, paused, deferred, driver, recheck, user, spent>>

\* deliver_team_mail: inserted once across pending and already-claimed history.
DeliverTeamMail(m) ==
    /\ m \in Team
    /\ sub[m] \in {"new", "done"}
    /\ m \notin inserted
    /\ HasCapacity
    /\ Insert(m)
    /\ sub' = [sub EXCEPT ![m] = "mailed"]
    /\ UNCHANGED <<turn, paused, deferred, driver, recheck, user, spent>>

\* ... and the wake is decided after the append.
PublishTeamMail(m) ==
    /\ sub[m] = "mailed"
    /\ sub' = [sub EXCEPT ![m] = "done"]
    /\ IF Active THEN UNCHANGED <<driver, spent>> ELSE WakeDriver(deferred)
    /\ UNCHANGED <<queues, turn, paused, deferred, recheck, user>>

-----------------------------------------------------------------------------
(* Cancellation of pending input                                           *)

\* A queue without the occurrences in S: the positions that stay, in their order.
Kept(q, S) == {i \in 1..Len(q) : q[i] \notin S}
Rank(K, i) == Cardinality({k \in K : k <= i})
Without(q, S) ==
    [j \in 1..Cardinality(Kept(q, S)) |-> q[CHOOSE i \in Kept(q, S) : Rank(Kept(q, S), i) = j]]

Remove(S) ==
    /\ nextTurn' = Without(nextTurn, S)
    /\ nextStep' = Without(nextStep, S)
    /\ canceled' = canceled \union S
    /\ UNCHANGED <<inserted, claimed>>

\* cancel_inbox
CancelInbox(m) ==
    /\ m \in Pending
    /\ spent.cancels < CancelBudget
    /\ Remove({m})
    /\ spent' = [spent EXCEPT !.cancels = @ + 1]
    /\ UNCHANGED <<sub, turn, paused, deferred, driver, recheck, user>>

\* recall_human_messages: one atomic batch; team mail stays queued.
RecallHumanMessages ==
    /\ Pending \ Team # {}
    /\ spent.cancels < CancelBudget
    /\ Remove(Pending \ Team)
    /\ spent' = [spent EXCEPT !.cancels = @ + 1]
    /\ UNCHANGED <<sub, turn, paused, deferred, driver, recheck, user>>

-----------------------------------------------------------------------------
(* run_turn: entry                                                         *)

BeginTurn(who, id) == [NoTurn EXCEPT !.phase = "opening", !.gate = who, !.id = id]

\* A fresh prompt takes the gate, lifts the pause and begins.
BeginFresh ==
    /\ user = "waiting"
    /\ turn.gate = "none"
    /\ user' = "turn"
    /\ paused' = FALSE
    /\ turn' = BeginTurn("user", NoMessage)
    /\ UNCHANGED <<queues, sub, deferred, driver, recheck, spent>>

\* Mutant: the gate is kept while the barrier is awaited.
BeginAutomaticHoldingGate ==
    /\ driver.pc = "waiting"
    /\ turn.gate = "none"
    /\ IF deferred > 0
       THEN turn' = [turn EXCEPT !.gate = "driver"] /\ UNCHANGED driver
       ELSE /\ driver' = [driver EXCEPT !.pc = "turn"]
            /\ turn' = BeginTurn("driver", driver.id)
    /\ UNCHANGED <<queues, sub, paused, deferred, recheck, user, spent>>

\* An automatic turn waits for the gate, then for the foreground barrier; a
\* pause refuses it, which ends the driver with an error.
BeginAutomatic ==
    /\ driver.pc = "waiting"
    /\ turn.gate = "none"
    /\ deferred = 0
    /\ IF paused
       THEN /\ driver' = [driver EXCEPT !.pc = "releasing", !.ok = FALSE]
            /\ UNCHANGED turn
       ELSE /\ driver' = [driver EXCEPT !.pc = "turn"]
            /\ turn' = BeginTurn("driver", driver.id)
    /\ UNCHANGED <<queues, sub, paused, deferred, recheck, user, spent>>

\* Neither the wait for the gate nor the wait for the barrier outlives the
\* driver's job.
StopWaiting ==
    /\ driver.pc = "waiting" /\ driver.cancelled
    /\ driver' = [driver EXCEPT !.pc = "releasing", !.ok = FALSE]
    /\ UNCHANGED <<queues, sub, turn, paused, deferred, recheck, user, spent>>

\* The cancellation run_turn's caller gave it: that of the driver's job.
CallerCancelled == turn.gate = "driver" /\ driver.cancelled

\* The opening text is read for the hooks, unless the caller is gone by now; a
\* vanished occurrence is FollowUpError::Empty.
ReadOpening ==
    /\ turn.phase = "opening"
    /\ turn' = IF CallerCancelled THEN [turn EXCEPT !.phase = "leaving", !.result = "error"]
               ELSE IF turn.gate = "user" \/ turn.id \in Pending
               THEN [turn EXCEPT !.phase = "hook"]
               ELSE [turn EXCEPT !.phase = "leaving", !.result = "empty"]
    /\ UNCHANGED <<queues, sub, paused, deferred, driver, recheck, user, spent>>

\* No connected route, or a refusing hook.
RefuseOpening ==
    /\ turn.phase \in {"opening", "hook"}
    /\ spent.fails < FailBudget
    /\ turn' = [turn EXCEPT !.phase = "leaving", !.result = "error"]
    /\ spent' = [spent EXCEPT !.fails = @ + 1]
    /\ UNCHANGED <<queues, sub, paused, deferred, driver, recheck, user>>

\* Mutant: the splice is written without its user/message.
ClaimSpliceOnly(m) ==
    /\ nextTurn' = Without(nextTurn, {m})
    /\ nextStep' = Without(nextStep, {m})
    /\ UNCHANGED <<inserted, claimed, canceled>>

\* append_inbox_claim: the splice and its user/message in one batch.
Claim(m) ==
    /\ claimed' = [claimed EXCEPT ![m] = @ + 1]
    /\ nextTurn' = Without(nextTurn, {m})
    /\ nextStep' = Without(nextStep, {m})
    /\ UNCHANGED <<inserted, canceled>>

\* A fresh prompt appends its own message, unless it was cancelled before.
FreshAdmitted ==
    IF turn.cancelled THEN [turn EXCEPT !.phase = "leaving", !.result = "error"]
                      ELSE [turn EXCEPT !.phase = "admitted"]

\* Mutant: the claim takes whatever is first by now.
AdmitOpeningHead ==
    /\ turn.phase = "hook"
    /\ IF turn.gate = "user"
       THEN UNCHANGED queues /\ turn' = FreshAdmitted
       ELSE IF NextWakeable # NoMessage
       THEN Claim(NextWakeable) /\ turn' = [turn EXCEPT !.phase = "admitted"]
       ELSE UNCHANGED queues /\ turn' = [turn EXCEPT !.phase = "leaving", !.result = "empty"]
    /\ UNCHANGED <<sub, paused, deferred, driver, recheck, user, spent>>

\* After the hooks: a fresh prompt is admitted or cancelled; an inbox turn
\* claims exactly the occurrence it showed to the hooks, if it is still there.
AdmitOpening ==
    /\ turn.phase = "hook"
    /\ IF turn.gate = "user"
       THEN UNCHANGED queues /\ turn' = FreshAdmitted
       ELSE IF turn.id \in Pending
       THEN Claim(turn.id) /\ turn' = [turn EXCEPT !.phase = "admitted"]
       ELSE UNCHANGED queues /\ turn' = [turn EXCEPT !.phase = "leaving", !.result = "empty"]
    /\ UNCHANGED <<sub, paused, deferred, driver, recheck, user, spent>>

-----------------------------------------------------------------------------
(* run_turn: the step loop                                                 *)

TurnStart ==
    /\ turn.phase = "admitted"
    /\ turn' = [turn EXCEPT !.phase = "boundary", !.open = TRUE]
    /\ UNCHANGED <<queues, sub, paused, deferred, driver, recheck, user, spent>>

\* step/start; drain_next_step then fixes how many it will claim.
StepStart ==
    /\ turn.phase = "boundary"
    /\ turn' = [turn EXCEPT !.phase = "draining", !.step = TRUE, !.steps = @ + 1,
                            !.left = Len(nextStep), !.drained = FALSE]
    /\ UNCHANGED <<queues, sub, paused, deferred, driver, recheck, user, spent>>

\* One claim of drain_next_step, the session lock taken anew for each.
DrainOne ==
    /\ turn.phase \in {"draining", "redraining"}
    /\ turn.left > 0
    /\ nextStep # << >>
    /\ Claim(Head(nextStep))
    /\ turn' = [turn EXCEPT !.left = @ - 1, !.drained = TRUE]
    /\ UNCHANGED <<sub, paused, deferred, driver, recheck, user, spent>>

Drained == turn.left = 0 \/ nextStep = << >>

DrainedBoundary ==
    /\ turn.phase = "draining"
    /\ Drained
    /\ turn' = [turn EXCEPT !.phase = "request"]
    /\ UNCHANGED <<queues, sub, paused, deferred, driver, recheck, user, spent>>

\* Tool calls, a provider pause or a replay-safe fallback owe another step.
RequestContinues ==
    /\ turn.phase = "request"
    /\ turn.steps < StepBudget
    /\ turn' = [turn EXCEPT !.phase = "boundary", !.step = FALSE]
    /\ UNCHANGED <<queues, sub, paused, deferred, driver, recheck, user, spent>>

\* The model is done: step/end, and the drain that precedes settlement.
RequestFinishes ==
    /\ turn.phase = "request"
    /\ turn' = [turn EXCEPT !.phase = "redraining", !.step = FALSE,
                            !.left = Len(nextStep), !.drained = FALSE]
    /\ UNCHANGED <<queues, sub, paused, deferred, driver, recheck, user, spent>>

\* Mutant: an aborted turn forgets to pause automatic delivery.
AbortUnpaused ==
    /\ turn.phase = "request"
    /\ turn.cancelled \/ CallerCancelled
    /\ turn' = [turn EXCEPT !.phase = "leaving", !.step = FALSE, !.open = FALSE,
                            !.result = "aborted"]
    /\ UNCHANGED <<queues, sub, paused, deferred, driver, recheck, user, spent>>

\* Cancelled before the provider finished: step/end, turn/end aborted, pause.
Abort ==
    /\ turn.phase = "request"
    /\ turn.cancelled \/ CallerCancelled
    /\ turn' = [turn EXCEPT !.phase = "leaving", !.step = FALSE, !.open = FALSE,
                            !.result = "aborted"]
    /\ paused' = TRUE
    /\ UNCHANGED <<queues, sub, deferred, driver, recheck, user, spent>>

\* fail_request: close_failed_request ends the step if the stage has one open,
\* and the turn.  Nothing is announced.  The seams fail when the turn or its
\* caller is cancelled.
FailRequest ==
    /\ turn.phase \in {"boundary", "draining", "request", "redraining"}
    /\ \/ (turn.cancelled \/ CallerCancelled) /\ UNCHANGED spent
       \/ spent.fails < FailBudget /\ spent' = [spent EXCEPT !.fails = @ + 1]
    /\ turn' = [turn EXCEPT !.phase = "leaving", !.open = FALSE, !.result = "error",
                            !.step = @ /\ turn.phase \notin {"draining", "request"}]
    /\ UNCHANGED <<queues, sub, paused, deferred, driver, recheck, user>>

\* Anything claimed by the last drain owes another step; otherwise turn/end.
Settle ==
    /\ turn.phase = "redraining"
    /\ Drained
    /\ turn' = IF turn.drained
               THEN [turn EXCEPT !.phase = "boundary"]
               ELSE [turn EXCEPT !.phase = "settling", !.open = FALSE]
    /\ UNCHANGED <<queues, sub, paused, deferred, driver, recheck, user, spent>>

\* announce_settled_inbox
AnnounceSettled ==
    /\ turn.phase = "settling"
    /\ turn' = [turn EXCEPT !.phase = "leaving", !.result = "ok"]
    /\ WakeDriver(deferred)
    /\ UNCHANGED <<queues, sub, paused, deferred, recheck, user>>

\* drop(turn_cancellation); AgentIdle
ReleaseLease ==
    /\ turn.phase = "leaving"
    /\ turn' = [turn EXCEPT !.phase = "released", !.cancelled = FALSE]
    /\ UNCHANGED <<queues, sub, paused, deferred, driver, recheck, user, spent>>

\* AgentCancellation::cancel
CancelTurn ==
    /\ Active
    /\ ~turn.cancelled
    /\ spent.cancels < CancelBudget
    /\ turn' = [turn EXCEPT !.cancelled = TRUE]
    /\ spent' = [spent EXCEPT !.cancels = @ + 1]
    /\ UNCHANGED <<queues, sub, paused, deferred, driver, recheck, user>>

-----------------------------------------------------------------------------
(* The driver's loop, after run_turn returns and the gate is free          *)

ReturnToDriver ==
    /\ turn.phase = "released"
    /\ turn.gate = "driver"
    /\ turn' = [NoTurn EXCEPT !.result = turn.result]
    /\ driver' = IF turn.result \in {"ok", "empty"}
                 THEN [driver EXCEPT !.pc = "picking", !.turns = @ + 1]
                 ELSE [driver EXCEPT !.pc = "releasing", !.ok = FALSE]
    /\ UNCHANGED <<queues, sub, paused, deferred, recheck, user, spent>>

\* The next occurrence, or the end of the loop: idle, or out of turns.
DriverPick ==
    /\ driver.pc = "picking"
    /\ driver' =
        CASE NextWakeable = NoMessage -> [driver EXCEPT !.pc = "releasing", !.ok = TRUE]
          [] NextWakeable # NoMessage /\ driver.turns >= DriverTurns ->
                [driver EXCEPT !.pc = "releasing", !.ok = FALSE]
          [] OTHER -> [driver EXCEPT !.pc = "waiting", !.id = NextWakeable]
    /\ UNCHANGED <<queues, sub, turn, paused, deferred, recheck, user, spent>>

\* Mutant: a driver that ended well does not look again.
DriverReleaseNoRecheck ==
    /\ driver.pc = "releasing"
    /\ driver' = IF driver.ok /\ ~driver.cancelled THEN NoDriver ELSE GaveUp
    /\ UNCHANGED <<queues, sub, turn, paused, deferred, recheck, user, spent>>

\* drop(driver) clears inbox_driver_running; a driver that ended well looks
\* again, one that failed reports its error and does not, and neither does one
\* whose job was cancelled.
DriverRelease ==
    /\ driver.pc = "releasing"
    /\ LET well == driver.ok /\ ~driver.cancelled IN
        /\ driver' = IF well THEN NoDriver ELSE GaveUp
        /\ recheck' = IF well THEN recheck + 1 ELSE recheck
    /\ UNCHANGED <<queues, sub, turn, paused, deferred, user, spent>>

\* JobRegistry::cancel or cancel_all on the driver's job.
CancelDriver ==
    /\ driver.pc \notin {"off", "failed"} /\ ~driver.cancelled
    /\ spent.cancels < CancelBudget
    /\ driver' = [driver EXCEPT !.cancelled = TRUE]
    /\ spent' = [spent EXCEPT !.cancels = @ + 1]
    /\ UNCHANGED <<queues, sub, turn, paused, deferred, recheck, user>>

\* The second look; a refusal here is not reported.
DriverRecheck ==
    /\ recheck > 0
    /\ recheck' = recheck - 1
    /\ WakeDriver(deferred)
    /\ UNCHANGED <<queues, sub, turn, paused, deferred, user>>

-----------------------------------------------------------------------------
(* The prompting host                                                      *)

\* The TUI takes the barrier before its turn task exists.
Prompt ==
    /\ user = "idle"
    /\ spent.prompts < PromptBudget
    /\ user' = "waiting"
    /\ deferred' = IF Foreground THEN deferred + 1 ELSE deferred
    /\ spent' = [spent EXCEPT !.prompts = @ + 1]
    /\ UNCHANGED <<queues, sub, turn, paused, driver, recheck>>

ReturnToUser ==
    /\ turn.phase = "released"
    /\ turn.gate = "user"
    /\ turn' = [NoTurn EXCEPT !.result = turn.result]
    /\ user' = IF Foreground THEN "joining" ELSE "idle"
    /\ UNCHANGED <<queues, sub, paused, deferred, driver, recheck, spent>>

\* Mutant: dropping the barrier lets automatic turns start but wakes nobody.
DropBarrierSilently ==
    /\ user = "joining"
    /\ user' = "idle"
    /\ deferred' = deferred - 1
    /\ UNCHANGED <<queues, sub, turn, paused, driver, recheck, spent>>

\* InboxWakeBarrier::drop: the last one asks for a wake.
DropBarrier ==
    /\ user = "joining"
    /\ user' = "idle"
    /\ deferred' = deferred - 1
    /\ WakeDriver(deferred - 1)
    /\ UNCHANGED <<queues, sub, turn, paused, recheck>>

-----------------------------------------------------------------------------
\* The process dies and the host restarts: the queues are replayed from the
\* log, an open turn is repaired, and attaching the driver announces the inbox.
CrashAndResume ==
    /\ spent.crashes < CrashBudget
    /\ sub' = [m \in Message |-> IF m \in inserted THEN "done" ELSE "new"]
    /\ turn' = NoTurn
    /\ paused' = FALSE
    /\ deferred' = 0
    /\ recheck' = 0
    /\ user' = "idle"
    /\ \/ /\ driver' = IF NextWakeable # NoMessage THEN [NoDriver EXCEPT !.pc = "picking"] ELSE NoDriver
          /\ spent' = [spent EXCEPT !.crashes = @ + 1]
       \/ /\ NextWakeable # NoMessage /\ spent.fails < FailBudget
          /\ driver' = GaveUp
          /\ spent' = [spent EXCEPT !.crashes = @ + 1, !.fails = @ + 1]
    /\ UNCHANGED queues

-----------------------------------------------------------------------------
Submission ==
    \E m \in Message :
        ReadActive(m) \/ Enqueue(m) \/ RefuseFull(m) \/ PublishWake(m)
        \/ DeliverTeamMail(m) \/ PublishTeamMail(m)

TurnStep ==
    \/ ReadOpening \/ AdmitOpening \/ TurnStart \/ StepStart \/ DrainOne \/ DrainedBoundary
    \/ RequestContinues \/ RequestFinishes \/ Abort \/ Settle \/ AnnounceSettled
    \/ ReleaseLease \/ ReturnToDriver \/ ReturnToUser

DriverStep == BeginAutomatic \/ StopWaiting \/ DriverPick \/ DriverRelease \/ DriverRecheck

Next ==
    \/ Submission \/ TurnStep \/ DriverStep
    \/ Prompt \/ BeginFresh \/ DropBarrier
    \/ RefuseOpening \/ FailRequest \/ CancelTurn \/ CancelDriver
    \/ (\E m \in Message : CancelInbox(m)) \/ RecallHumanMessages
    \/ CrashAndResume

Spec == Init /\ [][Next]_vars

(***************************************************************************)
(* The discipline under which a busy answer is safe: no submission that    *)
(* saw a turn is still on its way to the queue when that turn gives up its *)
(* lease.                                                                  *)
(***************************************************************************)
Straddling == turn.phase = "leaving" /\ turn'.phase = "released" /\ \E m \in Message : sub[m] = "sawBusy"

PromptSpec == Init /\ [][Next /\ ~Straddling]_vars

(***************************************************************************)
(* The runtime schedules every task that can run: submissions in progress, *)
(* the turn (whose provider stream ends, or is cancelled), the driver, and *)
(* the host that prompted.  Nobody has to prompt, cancel, fail or crash.   *)
(***************************************************************************)
Fairness ==
    /\ WF_vars((TurnStep \/ DriverStep \/ BeginFresh \/ DropBarrier) /\ ~Straddling)
    /\ \A m \in Message : WF_vars(Enqueue(m) \/ RefuseFull(m) \/ PublishWake(m) \/ PublishTeamMail(m))

FairSpec == PromptSpec /\ Fairness

-----------------------------------------------------------------------------
(* Properties                                                              *)

\* Exactly once: an occurrence is admitted to the model at most once, and
\* never both pending and settled, or both admitted and cancelled, whatever
\* is redelivered, cancelled, drained or replayed after a crash.
AdmittedOnce ==
    \A m \in Message :
        /\ claimed[m] <= 1
        /\ m \in Pending => claimed[m] = 0 /\ m \notin canceled
        /\ claimed[m] = 1 => m \notin canceled

\* What became of each occurrence; "lost" is what Mailbox has no word for.
Fate ==
    [m \in Message |->
        CASE m \in Pending -> "pending"
          [] m \notin Pending /\ claimed[m] > 0 -> "admitted"
          [] m \notin Pending /\ claimed[m] = 0 /\ m \in canceled -> "withdrawn"
          [] OTHER -> IF m \in inserted THEN "lost" ELSE "absent"]

Mail == INSTANCE Mailbox WITH fate <- Fate

\* The inbox is a mailbox: an occurrence the log accepted stays queued until it
\* is admitted or withdrawn, once and for good; no splice, claim, recall, drain
\* or replay after a crash loses one or brings one back.
ImplementsMailbox == Mail!Spec

\* An inbox turn admits the occurrence its user-prompt hooks saw and no other
\* ("a cancellation or queue change never authorizes consuming a different
\* occurrence instead"), although the hooks ran without the session lock.
HooksSawWhatOpens ==
    [][turn.phase = "hook" /\ turn'.phase = "admitted" =>
        \A m \in Message : claimed'[m] # claimed[m] => m = turn.id]_vars

\* When the lease is gone the log has no turn and no step open, whichever of
\* the exits the turn took.
NothingOpenWhenIdle == ~Active => ~turn.open /\ ~turn.step

\* A user's cancellation stops automation: after an aborted turn the next turn
\* of this process is one the user asked for.
AbortHoldsAutomation ==
    [][turn.phase = "idle" /\ turn.result = "aborted" /\ turn'.phase = "opening"
        => turn'.gate = "user"]_vars

\* Nobody has anything left to do about the inbox.
AtRest ==
    /\ turn.phase = "idle"
    /\ driver.pc = "off" /\ recheck = 0
    /\ user = "idle"
    /\ ~paused
    /\ \A m \in Message : sub[m] \in {"new", "done"}

\* A message is never left behind: when everything is at rest, and the last driver
\* neither failed nor was refused or cancelled by the job registry, nothing
\* wakeable is waiting in a queue.
NothingStranded == AtRest => NextWakeable = NoMessage

\* Every steer and follow-up that was queued is eventually admitted or
\* cancelled, or automation has stopped: paused by an aborted turn, or its last
\* driver failed, was refused by the job registry or cancelled there.
WakeableSettles ==
    \A m \in Message :
        (m \in Pending /\ Delivery[m] # "inject")
            ~> (m \notin Pending \/ paused \/ driver.pc = "failed")

\* A prompt always comes back: gate, barrier and driver never wait for each
\* other in a circle.
PromptReturns == user = "waiting" ~> user = "idle"

=============================================================================
