------------------------------- MODULE Mailbox -------------------------------
(***************************************************************************)
(* What the durable inbox promises whoever submits to it, whatever queues, *)
(* turns, drivers and crashes lie between: an accepted occurrence waits    *)
(* until it is admitted to the conversation or withdrawn, one of the two,  *)
(* once, and for good.  None is lost and none comes back.                  *)
(***************************************************************************)
CONSTANT Message

VARIABLE fate    \* "absent", "pending", "admitted" or "withdrawn", for each occurrence

Waiting == {m \in Message : fate[m] = "pending"}

Init == fate = [m \in Message |-> "absent"]

\* An occurrence is accepted once.
Submit(m) ==
    /\ fate[m] = "absent"
    /\ fate' = [fate EXCEPT ![m] = "pending"]

\* It becomes a message of the conversation.
Admit(m) ==
    /\ m \in Waiting
    /\ fate' = [fate EXCEPT ![m] = "admitted"]

\* Some that wait are withdrawn together.
Withdraw(S) ==
    /\ S \subseteq Waiting
    /\ fate' = [m \in Message |-> IF m \in S THEN "withdrawn" ELSE fate[m]]

Next ==
    \/ \E m \in Message : Submit(m) \/ Admit(m)
    \/ \E S \in SUBSET Message : Withdraw(S)

Spec == Init /\ [][Next]_fate
=============================================================================
