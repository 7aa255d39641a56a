--------------------------- MODULE MCPermissions ---------------------------
(* An instance of Permissions for TLC: a call of the turn, which leaves a    *)
(* terminal, and a background agent's call under a ceiling of its own, which *)
(* may turn out to ask for the same tool and arguments or for others.        *)
EXTENDS Permissions

MCInputs == [c \in Calls |-> IF c \in AgentCalls THEN {"same", "other"} ELSE {"same"}]
MCChild == [c \in Calls |-> IF c \in AgentCalls THEN "accepted" ELSE "none"]
=============================================================================
