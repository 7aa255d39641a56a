---- MODULE MCSessionStore ----
(* Small instances of SessionStore for TLC. *)
EXTENDS SessionStore, TLC

\* Sessions and hosts are interchangeable.
Symmetry == Permutations(Session) \union Permutations(Host)
====
