------------------------------ MODULE ToolBatch ------------------------------
(***************************************************************************)
(* The scheduler of one step's tool calls (heycode_agent::schedule) and    *)
(* the agent's side of it (ToolBatch in agent.rs).                         *)
(*                                                                         *)
(* The driver is one task: it starts calls in the model's order, asks for  *)
(* approval of one call at a time, overlaps calls whose tools declare      *)
(* themselves read-only, and appends tool/call and tool/result through one *)
(* ordered cursor.  Around it, at any moment: the turn or the caller is    *)
(* cancelled, tools finish in any order, an approval is answered late, an  *)
(* append fails, and a tool is registered or unregistered, which changes   *)
(* what parallel_safe answers for a call that is already under way.        *)
(*                                                                         *)
(* Call k of the model's list is index k - 1 in the code.                  *)
(***************************************************************************)
EXTENDS Integers, Sequences, FiniteSets

CONSTANTS
    N,             \* how many calls the assistant declared
    MaxParallel,   \* MAX_PARALLEL_TOOL_CALLS, after max(1)
    FaultBudget,   \* how many appends may fail
    ReloadBudget   \* how often the registry may change under the batch

ASSUME NAssumption == N \in Nat
ASSUME MaxParallelAssumption == MaxParallel \in Nat /\ MaxParallel > 0
ASSUME BudgetAssumption == FaultBudget \in Nat /\ ReloadBudget \in Nat

Call == 1..N

VARIABLES
    pc,         \* where the driver is
    safe,       \* the calls whose tool, as registered now, may overlap others
    slots,      \* Cursor.slots: the outcome waiting to be committed
    started, announced, committed,   \* Cursor: counts, so call started + 1 is next
    admitting,  \* the call whose admission is in flight, 0 for none
    withdrawn,  \* the token of that admission is cancelled
    executing,  \* the calls whose run future is held
    tokens,     \* the calls whose execution token is held
    stopped,    \* the calls whose execution token is cancelled
    barrier,    \* barrier_executing
    cancelled,  \* the driver knows the batch is cancelled
    failed,     \* failure.is_some()
    requested,  \* the turn's or the caller's token is cancelled
    log,        \* the tool/call and tool/result lines appended
    launched,   \* history: the calls run has been invoked for
    faults, reloads

cursor == <<slots, started, announced, committed>>
work == <<admitting, withdrawn, executing, tokens, stopped, barrier, launched>>
vars == <<pc, safe, cursor, work, cancelled, failed, requested, log, faults, reloads>>

(***************************************************************************)
(*   top       head of the loop: start a call, or find nothing to wait for *)
(*   select    waiting for a cancellation, an admission or a completion    *)
(*   drain     inside Cursor::drain, after an event                        *)
(*   head      ... in its trailing announce_head                           *)
(*   fill      the loop ended without a failure                            *)
(*   last      inside the final drain; lasthead its announce_head          *)
(*   returned  Ok(()); error: Err(..)                                      *)
(***************************************************************************)
Pc == {"top", "select", "drain", "head", "fill", "last", "lasthead", "returned", "error"}
Done == pc \in {"returned", "error"}
Closing == pc \in {"last", "lasthead", "returned"}

\* "refused" is a Ran outcome that carries a denial.
Outcome == {"ran", "refused", "notstarted"}
CallLine(i) == [call |-> i, what |-> "call"]
ResultLine(i, o) == [call |-> i, what |-> o]
LogLine == [call : Call, what : Outcome \union {"call"}]

TypeOK ==
    /\ pc \in Pc
    /\ safe \subseteq Call
    /\ slots \in [Call -> Outcome \union {"none"}]
    /\ started \in 0..N
    /\ committed \in 0..N
    /\ announced \in 0..N
    /\ announced \in {committed, committed + 1}
    /\ admitting \in 0..N
    /\ executing \subseteq Call
    /\ tokens \subseteq Call
    /\ stopped \subseteq Call
    /\ launched \subseteq Call
    /\ withdrawn \in BOOLEAN
    /\ barrier \in BOOLEAN
    /\ cancelled \in BOOLEAN
    /\ failed \in BOOLEAN
    /\ requested \in BOOLEAN
    /\ log \in Seq(LogLine)
    /\ faults \in Nat
    /\ reloads \in Nat

\* A batch may begin under a token that is already cancelled.
Init ==
    /\ pc = "top"
    /\ safe \in SUBSET Call
    /\ slots = [i \in Call |-> "none"]
    /\ started = 0
    /\ announced = 0
    /\ committed = 0
    /\ admitting = 0
    /\ withdrawn = FALSE
    /\ executing = {}
    /\ tokens = {}
    /\ stopped = {}
    /\ barrier = FALSE
    /\ requested \in BOOLEAN
    /\ cancelled = requested
    /\ failed = FALSE
    /\ log = <<>>
    /\ launched = {}
    /\ faults = 0
    /\ reloads = 0

-----------------------------------------------------------------------------
(* Cancellation                                                            *)

\* withdraw(admitting_token): the admission in flight, if there is one, is told.
Withdraw == withdrawn' = (withdrawn \/ admitting # 0)

\* Mutant: the executing calls are not told.
CancelNone == UNCHANGED stopped

\* cancel_all(tokens)
CancelAll == stopped' = stopped \union tokens

\* An announce or a commit returned an error inside the loop.
RecordFailure ==
    /\ faults < FaultBudget
    /\ faults' = faults + 1
    /\ failed' = TRUE
    /\ cancelled' = TRUE
    /\ Withdraw
    /\ CancelAll
    /\ UNCHANGED <<admitting, executing, tokens, barrier, launched>>
    /\ pc' = "top"

\* ... and inside the final drain, whose error is returned as it is.
ReturnFailure ==
    /\ faults < FaultBudget
    /\ faults' = faults + 1
    /\ pc' = "error"
    /\ UNCHANGED <<work, cancelled, failed>>

-----------------------------------------------------------------------------
(* The head of the loop                                                    *)

MayStart ==
    /\ ~failed
    /\ ~cancelled
    /\ admitting = 0
    /\ started < N
    /\ ~barrier
    /\ Cardinality(executing) < MaxParallel
    /\ (started + 1) \in safe \/ committed = started

\* Begin the next call: announce it if it is the head, then ask for its approval.
Start ==
    /\ pc = "top"
    /\ MayStart
    /\ started' = started + 1
    /\ IF announced = committed
       THEN /\ announced' = announced + 1
            /\ log' = Append(log, CallLine(announced + 1))
       ELSE UNCHANGED <<announced, log>>
    /\ admitting' = started + 1
    /\ withdrawn' = FALSE
    /\ pc' = "select"
    /\ UNCHANGED <<safe, slots, committed, executing, tokens, stopped, barrier, launched,
                   cancelled, failed, requested, faults, reloads>>

\* The head's tool/call could not be appended: no admission begins.
StartFails ==
    /\ pc = "top"
    /\ MayStart
    /\ announced = committed
    /\ started' = started + 1
    /\ RecordFailure
    /\ UNCHANGED <<safe, slots, announced, committed, requested, log, reloads>>

\* Mutant: the loop ends when no admission is in flight.
WaitForAdmissionOnly ==
    /\ pc = "top"
    /\ ~MayStart
    /\ pc' = IF admitting # 0 THEN "select" ELSE IF failed THEN "error" ELSE "fill"
    /\ UNCHANGED <<safe, cursor, work, cancelled, failed, requested, log, faults, reloads>>

\* Nothing starts; the loop ends when nothing is in flight either.
Wait ==
    /\ pc = "top"
    /\ ~MayStart
    /\ pc' = IF admitting # 0 \/ executing # {} THEN "select"
             ELSE IF failed THEN "error" ELSE "fill"
    /\ UNCHANGED <<safe, cursor, work, cancelled, failed, requested, log, faults, reloads>>

-----------------------------------------------------------------------------
(* select!, biased: a cancellation the driver has not seen comes first     *)

Unseen == requested /\ ~cancelled

SeeCancellation ==
    /\ pc = "select"
    /\ Unseen
    /\ cancelled' = TRUE
    /\ Withdraw
    /\ CancelAll
    /\ pc' = "drain"
    /\ UNCHANGED <<safe, cursor, admitting, executing, tokens, barrier, launched,
                   failed, requested, log, faults, reloads>>

AdmissionEnds ==
    /\ pc = "select"
    /\ ~Unseen
    /\ admitting # 0
    /\ admitting' = 0
    /\ withdrawn' = FALSE
    /\ pc' = "drain"
    /\ UNCHANGED <<safe, started, announced, committed, stopped,
                   cancelled, failed, requested, log, faults, reloads>>

\* The verdict of a cancelled admission decides nothing.
AdmissionDiscarded ==
    /\ AdmissionEnds
    /\ cancelled
    /\ UNCHANGED <<slots, executing, tokens, barrier, launched>>

Refused ==
    /\ AdmissionEnds
    /\ ~cancelled
    /\ slots' = [slots EXCEPT ![admitting] = "refused"]
    /\ UNCHANGED <<executing, tokens, barrier, launched>>

Approved ==
    /\ AdmissionEnds
    /\ ~cancelled
    /\ tokens' = tokens \union {admitting}
    /\ barrier' = (admitting \notin safe)
    /\ executing' = executing \union {admitting}
    /\ launched' = launched \union {admitting}
    /\ UNCHANGED slots

\* Mutant: the barrier flag is never lowered.
CompletedKeepsBarrier(i) ==
    /\ pc = "select"
    /\ ~Unseen
    /\ i \in executing
    /\ executing' = executing \ {i}
    /\ tokens' = tokens \ {i}
    /\ slots' = [slots EXCEPT ![i] = "ran"]
    /\ pc' = "drain"
    /\ UNCHANGED <<safe, started, announced, committed, admitting, withdrawn, stopped, launched, barrier,
                   cancelled, failed, requested, log, faults, reloads>>

\* The tool's future is ready: the barrier flag falls only if the registry,
\* asked again, still calls the tool a barrier.
Completed(i) ==
    /\ pc = "select"
    /\ ~Unseen
    /\ i \in executing
    /\ executing' = executing \ {i}
    /\ barrier' = (barrier /\ i \in safe)
    /\ tokens' = tokens \ {i}
    /\ slots' = [slots EXCEPT ![i] = "ran"]
    /\ pc' = "drain"
    /\ UNCHANGED <<safe, started, announced, committed, admitting, withdrawn, stopped, launched,
                   cancelled, failed, requested, log, faults, reloads>>

-----------------------------------------------------------------------------
(* Cursor::drain, one append at a time                                     *)

InDrain == (pc = "drain" /\ ~failed) \/ pc = "last"

\* An outcome is known for the first call that has no result yet.
HeadKnown == committed < N /\ slots[committed + 1] # "none"

\* The head is announced here only if it never started.
DrainAnnounce ==
    /\ InDrain
    /\ HeadKnown
    /\ announced = committed
    /\ announced' = announced + 1
    /\ log' = Append(log, CallLine(announced + 1))
    /\ UNCHANGED <<pc, safe, slots, started, committed, work, cancelled, failed, requested,
                   faults, reloads>>

\* ToolBatch::commit: the result of the head goes to the log.
DrainCommit ==
    /\ InDrain
    /\ HeadKnown
    /\ announced = committed + 1
    /\ log' = Append(log, ResultLine(committed + 1, slots[committed + 1]))
    /\ slots' = [slots EXCEPT ![committed + 1] = "none"]
    /\ committed' = committed + 1
    /\ pc' = IF pc = "drain" THEN "head" ELSE "lasthead"
    /\ UNCHANGED <<safe, started, announced, work, cancelled, failed, requested, faults, reloads>>

\* announce_head after a commit: the next call shows up once it has begun.
AnnounceHead ==
    /\ pc \in {"head", "lasthead"}
    /\ IF announced = committed /\ announced < started
       THEN /\ announced' = announced + 1
            /\ log' = Append(log, CallLine(announced + 1))
       ELSE UNCHANGED <<announced, log>>
    /\ pc' = IF pc = "head" THEN "drain" ELSE "last"
    /\ UNCHANGED <<safe, slots, started, committed, work, cancelled, failed, requested, faults, reloads>>

\* The announce or the commit of the head fails: its outcome was already taken
\* from the slot and is lost with it.
DrainFails ==
    /\ InDrain
    /\ HeadKnown
    /\ slots' = [slots EXCEPT ![committed + 1] = "none"]
    /\ IF pc = "drain" THEN RecordFailure ELSE ReturnFailure
    /\ UNCHANGED <<safe, started, announced, committed, requested, log, reloads>>

AnnounceHeadFails ==
    /\ pc \in {"head", "lasthead"}
    /\ announced = committed
    /\ announced < started
    /\ IF pc = "head" THEN RecordFailure ELSE ReturnFailure
    /\ UNCHANGED <<safe, cursor, requested, log, reloads>>

\* A gap, or the end of the list.
DrainEnds ==
    /\ pc \in {"drain", "last"}
    /\ (pc = "last" \/ ~failed) => ~HeadKnown
    /\ pc' = IF pc = "drain" THEN "top" ELSE "returned"
    /\ UNCHANGED <<safe, cursor, work, cancelled, failed, requested, log, faults, reloads>>

\* Mutant: only the calls that were never started are filled in.
FillUnstarted ==
    /\ pc = "fill"
    /\ slots' = [i \in Call |-> IF i > started /\ slots[i] = "none" THEN "notstarted" ELSE slots[i]]
    /\ pc' = "last"
    /\ UNCHANGED <<safe, started, announced, committed, work, cancelled, failed, requested, log, faults, reloads>>

\* Every call left owes the model exactly one result.
Fill ==
    /\ pc = "fill"
    /\ slots' = [i \in Call |-> IF i > committed /\ slots[i] = "none" THEN "notstarted" ELSE slots[i]]
    /\ pc' = "last"
    /\ UNCHANGED <<safe, started, announced, committed, work, cancelled, failed, requested, log, faults, reloads>>

-----------------------------------------------------------------------------
(* Around the driver                                                       *)

\* The turn's token or the caller's token is cancelled.
RequestCancel ==
    /\ ~Done
    /\ ~requested
    /\ requested' = TRUE
    /\ UNCHANGED <<pc, safe, cursor, work, cancelled, failed, log, faults, reloads>>

\* A tool is registered or unregistered by its owner while the batch runs.
Reload(i) ==
    /\ ~Done
    /\ reloads < ReloadBudget
    /\ reloads' = reloads + 1
    /\ safe' = IF i \in safe THEN safe \ {i} ELSE safe \union {i}
    /\ UNCHANGED <<pc, cursor, work, cancelled, failed, requested, log, faults>>

\* What the driver does without waiting for anyone.
DriverStep ==
    \/ Start \/ StartFails \/ Wait
    \/ SeeCancellation
    \/ DrainAnnounce \/ DrainCommit \/ AnnounceHead
    \/ DrainFails \/ AnnounceHeadFails \/ DrainEnds
    \/ Fill

Admitted == AdmissionDiscarded \/ Refused \/ Approved

Next ==
    \/ DriverStep
    \/ Admitted
    \/ \E i \in Call : Completed(i)
    \/ RequestCancel
    \/ \E i \in Call : Reload(i)

Spec == Init /\ [][Next]_vars

(***************************************************************************)
(* The runtime polls the driver; a withdrawn admission returns and a tool  *)
(* whose token is cancelled unwinds, as BatchCalls::admit and run promise. *)
(* Nobody must answer an approval and no tool must finish on its own.      *)
(***************************************************************************)
FairSpec ==
    /\ Spec
    /\ WF_vars(DriverStep)
    /\ WF_vars(withdrawn /\ Admitted)
    /\ \A i \in Call : WF_vars(i \in stopped /\ Completed(i))
-----------------------------------------------------------------------------
(* Properties                                                              *)

Status == IF pc = "returned" THEN "ok" ELSE IF pc = "error" THEN "error" ELSE "running"

Sequential == INSTANCE SequentialBatch WITH status <- Status

\* The batch implements the one-at-a-time batch: whatever order tools finish in
\* and wherever it is cancelled, the session log alternates tool/call and
\* tool/result in the model's order, calls that never started form a suffix,
\* Ok is returned only when every call has its answer, and nothing is appended
\* after a failed append.
SequentialLog == Sequential!Spec

\* What the log says of a call is what happened: a result exists only for a call
\* that was launched, refused, or truly never invoked; and "not started" is
\* written only for a cancelled batch, as long as the registry stood still.
HonestResults ==
    \A k \in 1..Len(log) :
        /\ log[k].what = "ran" => log[k].call \in launched
        /\ log[k].what \in {"refused", "notstarted"} => log[k].call \notin launched
        /\ log[k].what = "notstarted" => (cancelled \/ reloads > 0)

\* A barrier call runs alone: every call before it is committed, none after it has
\* begun, and nothing else executes (while the registry stands still).
BarrierAlone ==
    \A i \in executing \ safe :
        reloads = 0 => (executing = {i} /\ committed = i - 1 /\ started = i)

\* Counting the approval in flight, which may turn into an execution at any
\* moment, never more than MaxParallel calls are under way.
CeilingHolds ==
    Cardinality(executing \union ({admitting} \ {0})) <= MaxParallel

\* A cancelled batch has told everyone: every executing call's token is cancelled
\* and the admission in flight is withdrawn.
CancellationReaches ==
    cancelled => (executing \subseteq stopped /\ (admitting # 0 => withdrawn))

\* The batch never returns, with Ok or with an error, over a call that still runs
\* or an approval that is still asked.
NothingAbandoned == Done => (executing = {} /\ admitting = 0)

\* A tool is invoked at most once, never under a cancellation the driver has
\* seen, and only after every call the model listed before it was decided.
LaunchesInOrder ==
    [][\A i \in executing' \ executing :
          /\ i \notin launched
          /\ ~cancelled
          /\ \A j \in 1..(i - 1) : j \in launched \/ slots[j] = "refused" \/ j <= committed]_vars

\* A stopped turn ends: once either token is cancelled the batch returns.
CancelReturns == requested ~> Done
-----------------------------------------------------------------------------
(* The inductive invariant                                                 *)

InLoop == pc \in {"top", "select", "drain", "head", "fill"}

\* The loop has not overtaken itself, and a failure is a cancellation.
CursorInv ==
    /\ InLoop => announced <= started
    /\ failed => cancelled
    /\ (pc = "top" /\ ~failed) => ~HeadKnown
    /\ pc = "head" => ~failed

\* A waiting outcome is the truth about its call, and only about a begun call.
SlotInv ==
    \A i \in Call :
        /\ slots[i] # "none" => i > committed
        /\ slots[i] = "ran" => i \in launched
        /\ slots[i] \in {"refused", "notstarted"} => i \notin launched
        /\ slots[i] = "notstarted" => (~InLoop /\ (cancelled \/ reloads > 0))
        /\ (InLoop /\ slots[i] # "none") => i <= started
        /\ i \in launched => i <= started
        /\ i \in executing => (i > committed /\ i \in launched /\ slots[i] = "none")

\* Only the last begun call can be in admission; it has not run.
AdmissionInv ==
    admitting # 0 =>
        /\ admitting = started
        /\ admitting > committed
        /\ admitting \notin launched
        /\ slots[admitting] = "none"

\* Every begun call without an outcome is executing, except the last begun one,
\* which may be in admission or have lost its admission to a cancellation.
DecidedInv ==
    (InLoop /\ ~failed) =>
        \A i \in Call :
            (i > committed /\ i <= started /\ slots[i] = "none") =>
                \/ i \in executing
                \/ i = started /\ i \notin launched /\ (admitting = i \/ cancelled)

LogInv ==
    /\ Len(log) = announced + committed
    /\ \A k \in 1..Len(log) : log[k].what # "call" => log[k].call <= committed
    /\ InLoop => \A k \in 1..Len(log) : log[k].what # "notstarted"

BarrierInv ==
    reloads = 0 =>
        /\ barrier => executing \ safe # {}
        /\ executing \ safe # {} => barrier
        /\ \A i \in executing \ safe : executing = {i} /\ committed = i - 1 /\ started = i
        /\ (admitting # 0 /\ admitting \notin safe) => (executing = {} /\ committed = admitting - 1)

CancelInv ==
    /\ tokens = executing
    /\ cancelled => (executing \subseteq stopped /\ (admitting # 0 => withdrawn))

CeilingInv ==
    /\ Cardinality(executing) <= MaxParallel
    /\ admitting # 0 => Cardinality(executing) < MaxParallel

\* Nothing is in flight once the loop has ended, everything left has an outcome,
\* and the calls that never started are the last ones.
ClosingInv ==
    /\ pc \in {"fill", "last", "lasthead", "returned", "error"} => (executing = {} /\ admitting = 0)
    /\ pc = "fill" => (~failed /\ (cancelled \/ reloads > 0 \/ committed = N))
    /\ Closing =>
        /\ \A i \in Call : i > committed => slots[i] # "none"
        /\ \A i, j \in Call : (i < j /\ slots[i] = "notstarted") => slots[j] = "notstarted"
        /\ (committed > 0 /\ log[2 * committed].what = "notstarted") =>
               \A j \in Call : j > committed => slots[j] = "notstarted"
    /\ pc = "returned" => committed = N

BatchInv ==
    /\ TypeOK
    /\ CursorInv
    /\ SlotInv
    /\ AdmissionInv
    /\ DecidedInv
    /\ LogInv
    /\ BarrierInv
    /\ CancelInv
    /\ CeilingInv
    /\ ClosingInv
    /\ HonestResults
=============================================================================
