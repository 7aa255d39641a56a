---------------------------- MODULE SessionStore ----------------------------
(***************************************************************************)
(* The store of sessions: a root with one directory per session, forks     *)
(* that share their parent's prefix, the recoverable trash, and the host   *)
(* processes that create, resume, fork, archive, delete, restore and       *)
(* discard sessions at the same time.                                      *)
(*                                                                         *)
(* A fork stores only its own suffix, so it opens only while every         *)
(* ancestor is where the fork left it.  Three locks protect that: a shared *)
(* lock on session.jsonl for every open handle, upgraded to exclusive for  *)
(* a mutation of a closed session; the writer lease on the directory; and  *)
(* the lineage lock on the root, which serialises fork, delete and restore *)
(* across processes.  discard_unused_session takes none of them.           *)
(***************************************************************************)
EXTENDS Integers, FiniteSets

CONSTANTS
    Session,      \* session ids, each minted at most once
    Host,         \* host processes
    ForkUnused,   \* hosts also fork sessions that hold only housekeeping events
    SyncFails,    \* the directory sync after a restore's rename may fail
    CrashBudget   \* how many hosts may crash

CONSTANTS NoSession, NoHost
ASSUME StoreAssumption ==
    /\ NoSession \notin Session
    /\ NoHost \notin Host
    /\ ForkUnused \in BOOLEAN
    /\ SyncFails \in BOOLEAN
    /\ CrashBudget \in Nat

VARIABLES
    place,       \* where the session's directory is
    parent,      \* the parent its session/created line names
    used,        \* the local log holds more than startup housekeeping
    archived,    \* the archive marker exists
    unverified,  \* moved back from the trash, not yet reopened by the restore
    lineage,     \* who holds the lineage lock
    writes,      \* the sessions each host has open for writing
    fresh,       \* the session a host created for itself and has not resumed
    op,          \* the store operation each host is in
    crashes

vars == <<place, parent, used, archived, unverified, lineage, writes, fresh, op, crashes>>

\* none: id not minted yet; gone: removed for good.
Place == {"none", "live", "trash", "gone"}

(***************************************************************************)
(*    fork        the source is resumed; waiting for the lineage lock      *)
(*    forking     ... and holding it                                       *)
(*    delete      the descendant scan passed under the lineage lock        *)
(*    restore     moved back under the lineage lock, not yet reopened      *)
(*    archive     resumed, about to upgrade its lock                       *)
(*    exiting     the host closed an unused fresh session                  *)
(*    discarding  the discard read a log with nothing but housekeeping     *)
(***************************************************************************)
Stage == {"idle", "fork", "forking", "delete", "restore", "archive", "exiting", "discarding"}
Idle == [stage |-> "idle", on |-> NoSession]

\* Type correctness; the lineage lock is held only inside a fork, delete or
\* restore, so no early return of those handlers leaks it.
TypeOK ==
    /\ place \in [Session -> Place]
    /\ parent \in [Session -> Session \union {NoSession}]
    /\ used \in [Session -> BOOLEAN]
    /\ archived \in [Session -> BOOLEAN]
    /\ unverified \subseteq Session
    /\ lineage \in Host \union {NoHost}
    /\ writes \in [Host -> SUBSET Session]
    /\ fresh \in [Host -> Session \union {NoSession}]
    /\ op \in [Host -> [stage : Stage, on : Session \union {NoSession}]]
    /\ crashes \in Nat
    /\ lineage # NoHost => op[lineage].stage \in {"forking", "delete", "restore"}

-----------------------------------------------------------------------------
\* open_inner: the session and every ancestor it names is in the store.
Opens(s) ==
    \E chain \in SUBSET Session :
        /\ s \in chain
        /\ \A x \in chain : place[x] = "live" /\ (parent[x] # NoSession => parent[x] \in chain)

\* Handles that hold the shared lock on s's log.
Readers(s) == {h \in Host : op[h].on = s /\ op[h].stage \in {"fork", "forking", "archive"}}
Writers(s) == {h \in Host : s \in writes[h]}

Begin(h, stage, s) == op' = [op EXCEPT ![h] = [stage |-> stage, on |-> s]]
Finish(h) == op' = [op EXCEPT ![h] = Idle]

Init ==
    /\ place = [s \in Session |-> "none"]
    /\ parent = [s \in Session |-> NoSession]
    /\ used = [s \in Session |-> FALSE]
    /\ archived = [s \in Session |-> FALSE]
    /\ unverified = {}
    /\ lineage = NoHost
    /\ writes = [h \in Host |-> {}]
    /\ fresh = [h \in Host |-> NoSession]
    /\ op = [h \in Host |-> Idle]
    /\ crashes = 0

-----------------------------------------------------------------------------
(* Handles                                                                 *)

\* Session::create: a new directory, its creation line and its lease.
Create(h, s) ==
    /\ op[h] = Idle
    /\ place[s] = "none"
    /\ place' = [place EXCEPT ![s] = "live"]
    /\ writes' = [writes EXCEPT ![h] = @ \union {s}]
    /\ fresh' = [fresh EXCEPT ![h] = s]
    /\ UNCHANGED <<parent, used, archived, unverified, lineage, op, crashes>>

\* open_for_writing: refused while another process holds the writer lease.
Resume(h, s) ==
    /\ op[h] = Idle
    /\ Opens(s)
    /\ Writers(s) \subseteq {h}
    /\ s \notin writes[h]
    /\ writes' = [writes EXCEPT ![h] = @ \union {s}]
    /\ UNCHANGED <<place, parent, used, archived, unverified, lineage, fresh, op, crashes>>

\* The first event that is not housekeeping: a message, a title.
Use(h, s) ==
    /\ s \in writes[h]
    /\ ~used[s]
    /\ used' = [used EXCEPT ![s] = TRUE]
    /\ UNCHANGED <<place, parent, archived, unverified, lineage, writes, fresh, op, crashes>>

Close(h, s) ==
    /\ op[h] = Idle
    /\ s \in writes[h]
    /\ writes' = [writes EXCEPT ![h] = @ \ {s}]
    /\ UNCHANGED <<place, parent, used, archived, unverified, lineage, fresh, op, crashes>>

-----------------------------------------------------------------------------
(* fork                                                                    *)

\* LocalSessionQuery::fork resumes the source before fork_with_metadata locks.
ForkOpen(h, s) ==
    /\ op[h] = Idle
    /\ Opens(s)
    /\ used[s] \/ ForkUnused
    /\ Begin(h, "fork", s)
    /\ UNCHANGED <<place, parent, used, archived, unverified, lineage, writes, fresh, crashes>>

ForkLock(h) ==
    /\ op[h].stage = "fork"
    /\ lineage = NoHost
    /\ lineage' = h
    /\ Begin(h, "forking", op[h].on)
    /\ UNCHANGED <<place, parent, used, archived, unverified, writes, fresh, crashes>>

\* The staged child is renamed into place with its own lease, or the boundary
\* is refused and nothing is published.
ForkPublish(h) ==
    /\ op[h].stage = "forking"
    /\ \/ \E child \in Session :
            /\ place[child] = "none"
            /\ place' = [place EXCEPT ![child] = "live"]
            /\ parent' = [parent EXCEPT ![child] = op[h].on]
            /\ writes' = [writes EXCEPT ![h] = @ \union {child}]
       \/ UNCHANGED <<place, parent, writes>>
    /\ lineage' = NoHost
    /\ Finish(h)
    /\ UNCHANGED <<used, archived, unverified, fresh, crashes>>

-----------------------------------------------------------------------------
(* delete and restore                                                      *)

Children(s) == {c \in Session : place[c] = "live" /\ parent[c] = s}

\* Mutant: descendants are not looked for.
DeleteScanBlind(h, s) ==
    /\ op[h] = Idle
    /\ lineage = NoHost
    /\ place[s] = "live"
    /\ lineage' = h
    /\ Begin(h, "delete", s)
    /\ UNCHANGED <<place, parent, used, archived, unverified, writes, fresh, crashes>>

\* The scan needs a complete picture: every row readable, none a child of s.
DeleteScan(h, s) ==
    /\ op[h] = Idle
    /\ lineage = NoHost
    /\ place[s] = "live"
    /\ Children(s) = {}
    /\ \A x \in Session : place[x] = "live" => Opens(x)
    /\ lineage' = h
    /\ Begin(h, "delete", s)
    /\ UNCHANGED <<place, parent, used, archived, unverified, writes, fresh, crashes>>

\* Mutant: the directory moves under the handles that are open on it.
DeleteMoveShared(h) ==
    /\ op[h].stage = "delete"
    /\ Opens(op[h].on)
    /\ place' = [place EXCEPT ![op[h].on] = "trash"]
    /\ lineage' = NoHost
    /\ Finish(h)
    /\ UNCHANGED <<parent, used, archived, unverified, writes, fresh, crashes>>

\* resume, the exclusive upgrade, and the rename into the trash.  Any handle,
\* this host's own included, refuses the upgrade; a failed rename or sync
\* leaves the session where it was.
DeleteMove(h) ==
    LET s == op[h].on IN
    /\ op[h].stage = "delete"
    /\ \/ /\ Opens(s)
          /\ Readers(s) \union Writers(s) = {}
          /\ place' = [place EXCEPT ![s] = "trash"]
       \/ UNCHANGED place
    /\ lineage' = NoHost
    /\ Finish(h)
    /\ UNCHANGED <<parent, used, archived, unverified, writes, fresh, crashes>>

\* restore_deleted moves the directory back first ...
RestoreMove(h, s) ==
    /\ op[h] = Idle
    /\ lineage = NoHost
    /\ place[s] = "trash"
    /\ lineage' = h
    /\ place' = [place EXCEPT ![s] = "live"]
    /\ unverified' = unverified \union {s}
    /\ Begin(h, "restore", s)
    /\ UNCHANGED <<parent, used, archived, writes, fresh, crashes>>

\* ... and back into the trash when Session::open refuses it there, or the
\* directories cannot be synced.
RestoreCheck(h) ==
    LET s == op[h].on IN
    /\ op[h].stage = "restore"
    /\ \/ Opens(s) /\ UNCHANGED place
       \/ /\ ~Opens(s) \/ SyncFails
          /\ place' = [place EXCEPT ![s] = IF @ = "live" THEN "trash" ELSE @]
    /\ unverified' = unverified \ {s}
    /\ lineage' = NoHost
    /\ Finish(h)
    /\ UNCHANGED <<parent, used, archived, writes, fresh, crashes>>

-----------------------------------------------------------------------------
(* archive                                                                 *)

ArchiveOpen(h, s) ==
    /\ op[h] = Idle
    /\ Opens(s)
    /\ Begin(h, "archive", s)
    /\ UNCHANGED <<place, parent, used, archived, unverified, lineage, writes, fresh, crashes>>

\* The marker appears or goes, once the upgrade shows nobody else has s open.
ArchiveMark(h) ==
    LET s == op[h].on
        granted == Readers(s) = {h} /\ Writers(s) = {}
    IN
    /\ op[h].stage = "archive"
    /\ archived' = [archived EXCEPT ![s] = IF granted THEN ~@ ELSE @]
    /\ Finish(h)
    /\ UNCHANGED <<place, parent, used, unverified, lineage, writes, fresh, crashes>>

-----------------------------------------------------------------------------
(* Leaving a session nobody used                                           *)

\* The composition root sees an unused session it created, and shuts down.
Exit(h) ==
    LET s == fresh[h] IN
    /\ op[h] = Idle
    /\ s # NoSession
    /\ s \in writes[h]
    /\ ~used[s]
    /\ writes' = [writes EXCEPT ![h] = {}]
    /\ fresh' = [fresh EXCEPT ![h] = NoSession]
    /\ Begin(h, "exiting", s)
    /\ UNCHANGED <<place, parent, used, archived, unverified, lineage, crashes>>

\* discard_unused_session reads the log and the directory; a title, a marker or
\* a missing directory makes it return false.
DiscardCheck(h) ==
    LET s == op[h].on IN
    /\ op[h].stage = "exiting"
    /\ IF place[s] = "live" /\ ~used[s] /\ ~archived[s]
       THEN Begin(h, "discarding", s)
       ELSE Finish(h)
    /\ UNCHANGED <<place, parent, used, archived, unverified, lineage, writes, fresh, crashes>>

\* remove_dir_all, under no lock.
DiscardRemove(h) ==
    LET s == op[h].on IN
    /\ op[h].stage = "discarding"
    /\ place' = [place EXCEPT ![s] = IF place[s] = "live" THEN "gone" ELSE @]
    /\ Finish(h)
    /\ UNCHANGED <<parent, used, archived, unverified, lineage, writes, fresh, crashes>>

-----------------------------------------------------------------------------
\* The process dies; the kernel drops its handles and locks.
Crash(h) ==
    /\ crashes < CrashBudget
    /\ crashes' = crashes + 1
    /\ writes' = [writes EXCEPT ![h] = {}]
    /\ fresh' = [fresh EXCEPT ![h] = NoSession]
    /\ lineage' = IF lineage = h THEN NoHost ELSE lineage
    /\ Finish(h)
    /\ UNCHANGED <<place, parent, used, archived, unverified>>

HostStep(h) ==
    \/ \E s \in Session :
        \/ Create(h, s) \/ Resume(h, s) \/ Use(h, s) \/ Close(h, s)
        \/ ForkOpen(h, s) \/ DeleteScan(h, s) \/ RestoreMove(h, s) \/ ArchiveOpen(h, s)
    \/ ForkLock(h) \/ ForkPublish(h)
    \/ DeleteMove(h) \/ RestoreCheck(h) \/ ArchiveMark(h)
    \/ Exit(h) \/ DiscardCheck(h) \/ DiscardRemove(h)
    \/ Crash(h)

Next == \E h \in Host : HostStep(h)

Spec == Init /\ [][Next]_vars

(***************************************************************************)
(* The discipline discard_unused_session relies on but does not enforce:   *)
(* nobody opens a session another host is just leaving.                    *)
(***************************************************************************)
Leaving(s) == \E h \in Host : op[h].on = s /\ op[h].stage \in {"exiting", "discarding"}
Intruding ==
    \E s \in Session, h \in Host :
        /\ Leaving(s)
        /\ \/ s \in writes'[h] \ writes[h]
           \/ op'[h] # op[h] /\ op'[h].on = s /\ op'[h].stage \in {"fork", "archive", "delete"}

QuietSpec == Init /\ [][Next /\ ~Intruding]_vars

-----------------------------------------------------------------------------
(* Properties                                                              *)

\* No live session has lost its parent ("Parent deletion must be prevented
\* while descendants exist"): whatever forks, deletes and restores interleave,
\* only a restore that has not reopened its session yet may break the chain.
LineageIntact ==
    \A s \in Session :
        (place[s] = "live" /\ s \notin unverified /\ parent[s] # NoSession)
            => place[parent[s]] = "live"

\* Delete is recoverable: every ancestor of a deleted session still exists,
\* in the store or in the trash, so it can be brought back.
TrashRestorable ==
    \A s \in Session :
        (place[s] = "trash" /\ parent[s] # NoSession) => place[parent[s]] \in {"live", "trash"}

\* The directory of a session some host has open stays in the store: what that
\* host appends is not written to an unlinked or trashed file.
OpenFileStays == \A h \in Host : \A s \in writes[h] : place[s] = "live"

\* "A session with any turn, title, or lineage is never touched": the step that
\* removes a directory for good finds a session nobody has used, although the
\* check came before.  The code takes no lock in between, and Spec violates it.
UsedNeverDiscarded ==
    [][\A s \in Session : place[s] # "gone" /\ place'[s] = "gone" => ~used[s]]_vars

-----------------------------------------------------------------------------
(* Why these hold: the parts of the inductive invariant                    *)

\* What was used is never removed for good, and parents have been used.
UsedKept ==
    \A s \in Session :
        /\ used[s] => place[s] \in {"live", "trash"}
        /\ parent[s] # NoSession => used[parent[s]]
        /\ place[s] = "none" => parent[s] = NoSession

\* Fork publication, delete and restore run under the lineage lock, so at most
\* one of them is between its two steps.
LockHeld ==
    \A h \in Host : op[h].stage \in {"forking", "delete", "restore"} => lineage = h

\* Whatever the descendant scan proved stays true until the directory moves.
ScanHolds == \A h \in Host : op[h].stage = "delete" => Children(op[h].on) = {}

\* An open handle keeps its session, with all its ancestors, openable.
HandlesOpen ==
    /\ \A h \in Host : \A s \in writes[h] : Opens(s)
    /\ \A h \in Host : op[h].stage \in {"fork", "forking"} => Opens(op[h].on) /\ used[op[h].on]

\* Every session that is not a restore in progress can be opened.
Openable == \A s \in Session : (place[s] = "live" /\ s \notin unverified) => Opens(s)

\* One host writes a session, and nobody writes one its creator is leaving.
WritersApart ==
    /\ \A g, h \in Host : \A s \in Session : s \in writes[g] /\ s \in writes[h] => g = h
    /\ \A h \in Host :
        op[h].stage \in {"exiting", "discarding"} => ~used[op[h].on] /\ Writers(op[h].on) = {}

\* An operation is on a session that exists.
OnMinted == \A h \in Host : op[h] # Idle => op[h].on \in Session /\ place[op[h].on] # "none"

StoreInv ==
    /\ TypeOK /\ UsedKept /\ LockHeld /\ ScanHolds /\ HandlesOpen
    /\ Openable /\ WritersApart /\ OnMinted

=============================================================================
