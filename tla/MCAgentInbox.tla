---- MODULE MCAgentInbox ----
(* Small instances of AgentInbox for TLC. *)
EXTENDS AgentInbox

CONSTANTS f, s, i, t

\* A follow-up, a steer, an inject and a team mail.
AllDeliveries ==
    [m \in Message |-> CASE m = s -> "steer" [] m = i -> "inject" [] OTHER -> "follow_up"]
====
