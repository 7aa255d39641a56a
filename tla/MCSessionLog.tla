---------------------------- MODULE MCSessionLog ----------------------------
(* Instances of SessionLog for TLC. *)
EXTENDS SessionLog, TLC

CONSTANTS h1, h2, h3, p1, p2

\* Two handles in one process, one in another: takeover inside a process and
\* contention between processes both happen.
TwoInOne == h1 :> p1 @@ h2 :> p1 @@ h3 :> p2

\* One handle per process: no takeover inside a process.
OneEach == h1 :> p1 @@ h2 :> p2

\* The two handles of one process are interchangeable.
SameProcess == Permutations({h1, h2})

=============================================================================
