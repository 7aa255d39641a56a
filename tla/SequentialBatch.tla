--------------------------- MODULE SequentialBatch ---------------------------
(***************************************************************************)
(* What one step's tool calls promise the durable log, whatever overlaps:  *)
(* the log a one-at-a-time batch would have left.  Each call is announced, *)
(* then answered, before the next is announced; a call that never started  *)
(* is followed only by calls that never started; the batch returns Ok only *)
(* when every call the assistant declared has its answer.                  *)
(***************************************************************************)
EXTENDS Integers, Sequences

CONSTANT N    \* how many calls the assistant declared

VARIABLES
    log,      \* what the batch appended to the session
    status    \* "running", "ok" or "error"

Outcome == {"ran", "refused", "notstarted"}

\* A log line: tool/call, or tool/result with what became of the call.
CallLine(i) == [call |-> i, what |-> "call"]
ResultLine(i, o) == [call |-> i, what |-> o]

Init ==
    /\ log = <<>>
    /\ status = "running"

\* The call after the last answered one is announced.
Announce ==
    \E i \in 1..N :
        /\ status = "running"
        /\ Len(log) = 2 * (i - 1)
        /\ log' = Append(log, CallLine(i))
        /\ UNCHANGED status

\* The announced call is answered.
Answer ==
    \E i \in 1..N, o \in Outcome :
        /\ status = "running"
        /\ Len(log) = 2 * i - 1
        /\ (i > 1 /\ log[2 * (i - 1)].what = "notstarted") => o = "notstarted"
        /\ log' = Append(log, ResultLine(i, o))
        /\ UNCHANGED status

Return ==
    /\ status = "running"
    /\ Len(log) = 2 * N
    /\ status' = "ok"
    /\ UNCHANGED log

\* An append failed; nothing more is written.
Fail ==
    /\ status = "running"
    /\ status' = "error"
    /\ UNCHANGED log

Next == Announce \/ Answer \/ Return \/ Fail

Spec == Init /\ [][Next]_<<log, status>>
=============================================================================
