----------------------------- MODULE SessionLog -----------------------------
(***************************************************************************)
(* One durable session log: the file session.jsonl, the handles            *)
(* (heycode_session::Session) that replay it and append to it, the writer  *)
(* lease on the session directory, and the advisory lock on the file.      *)
(*                                                                         *)
(* Every handle derives the next sequence number from its own replay, so   *)
(* two handles that both write after the same replay mint the same numbers *)
(* and no later replay succeeds.  The lease is what prevents it: an        *)
(* exclusive flock on the directory keeps other processes out, and inside  *)
(* one process a generation counter makes the newest handle the writer.    *)
(*                                                                         *)
(* A write may be cut short (disk full, process killed): write_all is then *)
(* a prefix of the batch, possibly with an unterminated last line.         *)
(***************************************************************************)
EXTENDS Integers, Sequences, FiniteSets

CONSTANTS
    Handle,        \* handle slots; a slot is reused after its handle is dropped
    Process,       \* operating system processes
    Owner,         \* the process each handle slot lives in
    MaxEvents,     \* MAX_LOGICAL_SESSION_EVENTS
    TearBudget,    \* how many writes may be cut short
    RenameBudget,  \* how many closed-session renames may run
    MaxGen         \* how often one lease file may change hands

ASSUME OwnerAssumption == Owner \in [Handle -> Process]
ASSUME BoundAssumption == MaxEvents \in Nat \ {0} /\ TearBudget \in Nat /\ RenameBudget \in Nat /\ MaxGen \in Nat

CONSTANT NoProcess
ASSUME NoProcessAssumption == NoProcess \notin Process

(***************************************************************************)
(* Event kinds, as far as the reader's whole-log rules tell them apart:    *)
(* "queue", "claim" and "cancel" are the three uses of agent/inbox/splice, *)
(* "select" is user/attachments, "plain" is any event without such a rule. *)
(***************************************************************************)
Kind == {"plain", "queue", "claim", "cancel", "select", "message"}

\* A physical line; "joined" is two values glued on one line, which does not parse.
Line == [seq : Nat, kind : Kind \union {"joined"}]

VARIABLES
    disk,     \* the complete lines of session.jsonl
    torn,     \* bytes follow the last newline
    dirLock,  \* the process whose WriterLeaseFile holds the directory flock
    gen,      \* WriterLeaseFile.generation
    pc,       \* what each handle is doing
    mem,      \* Session.events of each handle: the kinds, seq = index - 1
    lease,    \* WriterLease.generation of each handle, 0 for none
    batch,    \* the validated kinds a handle is about to write
    acked,    \* the lines whose append returned Ok (and reached the bus)
    tears, renames,
    raced     \* history: some write or commit has overtaken another handle

vars == <<disk, torn, dirLock, gen, pc, mem, lease, batch, acked, tears, renames, raced>>

(***************************************************************************)
(*    closed     no handle in the slot                                     *)
(*    reserved   open_for_writing holds a PendingWriterLease               *)
(*    replayed   ... and has replayed the log                              *)
(*    open       a writable handle, its lease committed                    *)
(*    writing    an append passed every check and is about to write_all    *)
(*    viewing    rename has replayed the log through Session::open         *)
(*    titling    ... and upgraded its file lock to exclusive               *)
(***************************************************************************)
Pc == {"closed", "reserved", "replayed", "open", "writing", "viewing", "titling"}

TypeOK ==
    /\ disk \in Seq(Line)
    /\ torn \in BOOLEAN
    /\ dirLock \in Process \union {NoProcess}
    /\ gen \in Nat
    /\ pc \in [Handle -> Pc]
    /\ mem \in [Handle -> Seq(Kind)]
    /\ lease \in [Handle -> Nat]
    /\ batch \in [Handle -> Seq(Kind)]
    /\ acked \subseteq Line
    /\ tears \in Nat
    /\ renames \in Nat
    /\ raced \in BOOLEAN

-----------------------------------------------------------------------------
(* What the reader accepts                                                 *)

Kinds(lines) == [i \in 1..Len(lines) |-> lines[i].kind]

CountUpTo(ev, i, S) == Cardinality({j \in 1..i : ev[j] \in S})

\* Messages waiting in the inbox projection after the events ev.
Pending(ev) == CountUpTo(ev, Len(ev), {"queue"}) - CountUpTo(ev, Len(ev), {"claim", "cancel"})

\* InboxProjection::apply_event on every event: no splice removes what is not pending.
InboxFolds(ev) ==
    \A i \in 1..Len(ev) :
        CountUpTo(ev, i, {"claim", "cancel"}) <= CountUpTo(ev, i, {"queue"})

\* advance_pairing / settle_pairing: a selection is followed by its message.
PairingSettled(ev) ==
    \A i \in 1..Len(ev) :
        ev[i] = "select" => (i < Len(ev) /\ ev[i + 1] = "message")

\* parse_line: the line is one JSON value and carries the expected seq.
Contiguous(lines) ==
    \A i \in 1..Len(lines) : lines[i].kind # "joined" /\ lines[i].seq = i - 1

\* The checks of open_inner_loaded.
Replays(lines, tail) ==
    /\ ~tail
    /\ Contiguous(lines)
    /\ Len(lines) <= MaxEvents
    /\ InboxFolds(Kinds(lines))
    /\ PairingSettled(Kinds(lines))

\* The batches append and its wrappers hand to the log, given a handle's memory.
Batches(ev) ==
    {<<"plain">>, <<"queue">>, <<"select", "message">>}
        \union (IF Pending(ev) > 0
                THEN {<<"claim", "message">>, [i \in 1..Pending(ev) |-> "cancel"]}
                ELSE {})

-----------------------------------------------------------------------------
(* Locks                                                                   *)

\* Handles whose Arc<WriterLeaseFile> keeps the process's lease file alive.
LeaseHolders(p) ==
    {h \in Handle : Owner[h] = p /\ pc[h] \in {"reserved", "replayed", "open", "writing"}}

\* WriterLease::is_current
IsCurrent(h) == pc[h] \in {"open", "writing"} /\ lease[h] = gen

\* Handles holding a lock on session.jsonl: shared by everyone who replayed it,
\* exclusive for the rename that upgraded.
FileLockers == {h \in Handle : pc[h] \in {"replayed", "open", "writing", "viewing", "titling"}}
ExclusiveLocked == \E h \in Handle : pc[h] = "titling"

-----------------------------------------------------------------------------
(* The session exists, with its constructor-owned session/created line, and *)
(* is closed.  (The creator's own handle writes at its file position where  *)
(* every reopened handle appends; SessionStore covers creation.)            *)

Created == [seq |-> 0, kind |-> "plain"]

Init ==
    /\ disk = <<Created>>
    /\ torn = FALSE
    /\ acked = {Created}
    /\ dirLock = NoProcess
    /\ gen = 0
    /\ pc = [h \in Handle |-> "closed"]
    /\ mem = [h \in Handle |-> << >>]
    /\ lease = [h \in Handle |-> 0]
    /\ batch = [h \in Handle |-> << >>]
    /\ tears = 0
    /\ renames = 0
    /\ raced = FALSE

\* Dropping handles releases their file locks and forgets their state.
Drop(S) ==
    /\ pc' = [h \in Handle |-> IF h \in S THEN "closed" ELSE pc[h]]
    /\ mem' = [h \in Handle |-> IF h \in S THEN << >> ELSE mem[h]]
    /\ lease' = [h \in Handle |-> IF h \in S THEN 0 ELSE lease[h]]
    /\ batch' = [h \in Handle |-> IF h \in S THEN << >> ELSE batch[h]]

-----------------------------------------------------------------------------
(* open_for_writing                                                        *)

\* Mutant: the flock is taken without LockExclusiveNonblock's refusal.
ReserveUncontended(h) ==
    /\ pc[h] = "closed"
    /\ dirLock' = Owner[h]
    /\ gen' = IF LeaseHolders(Owner[h]) = {} THEN 0 ELSE gen
    /\ pc' = [pc EXCEPT ![h] = "reserved"]
    /\ UNCHANGED <<disk, torn, mem, lease, batch, acked, tears, renames>>

\* Mutant: every acquisition starts the lease file at generation zero again.
ReserveResets(h) ==
    /\ pc[h] = "closed"
    /\ LeaseHolders(Owner[h]) # {} \/ dirLock = NoProcess
    /\ dirLock' = Owner[h]
    /\ gen' = 0
    /\ pc' = [pc EXCEPT ![h] = "reserved"]
    /\ UNCHANGED <<disk, torn, mem, lease, batch, acked, tears, renames>>

\* acquire_writer_lease: share the live lease file of this process, or take
\* the directory flock for a new one.  Held elsewhere, the open is refused.
Reserve(h) ==
    LET p == Owner[h] IN
    /\ pc[h] = "closed"
    /\ \/ /\ LeaseHolders(p) # {}
          /\ UNCHANGED <<dirLock, gen>>
       \/ /\ LeaseHolders(p) = {}
          /\ dirLock = NoProcess
          /\ dirLock' = p
          /\ gen' = 0
    /\ pc' = [pc EXCEPT ![h] = "reserved"]
    /\ UNCHANGED <<disk, torn, mem, lease, batch, acked, tears, renames>>

\* Session::open under the reserved lease.  The shared file lock waits for a
\* rename in progress; a log that does not replay drops the pending lease.
Replay(h) ==
    /\ pc[h] = "reserved"
    /\ ~ExclusiveLocked
    /\ \/ /\ Replays(disk, torn)
          /\ pc' = [pc EXCEPT ![h] = "replayed"]
          /\ mem' = [mem EXCEPT ![h] = Kinds(disk)]
          /\ UNCHANGED <<lease, batch>>
       \/ ~Replays(disk, torn) /\ Drop({h})
    /\ UNCHANGED <<disk, torn, dirLock, gen, acked, tears, renames>>

\* Mutant: the new lease reads the generation instead of advancing it.
CommitLoads(h) ==
    /\ pc[h] = "replayed"
    /\ lease' = [lease EXCEPT ![h] = gen]
    /\ pc' = [pc EXCEPT ![h] = "open"]
    /\ UNCHANGED <<disk, torn, dirLock, gen, mem, batch, acked, tears, renames>>

\* PendingWriterLease::commit: every older handle of the process is superseded.
Commit(h) ==
    /\ pc[h] = "replayed"
    /\ gen < MaxGen
    /\ gen' = gen + 1
    /\ lease' = [lease EXCEPT ![h] = gen + 1]
    /\ pc' = [pc EXCEPT ![h] = "open"]
    /\ UNCHANGED <<disk, torn, dirLock, mem, batch, acked, tears, renames>>

-----------------------------------------------------------------------------
(* append                                                                  *)

\* check_writable, validation and reserve.
CheckAppend(h) ==
    /\ pc[h] = "open"
    /\ IsCurrent(h)
    /\ \E b \in Batches(mem[h]) :
        /\ Len(mem[h]) + Len(b) <= MaxEvents
        /\ batch' = [batch EXCEPT ![h] = b]
    /\ pc' = [pc EXCEPT ![h] = "writing"]
    /\ UNCHANGED <<disk, torn, dirLock, gen, mem, lease, acked, tears, renames>>

\* The lines a handle writes for its batch, numbered from its own memory.
LinesOf(h) == [i \in 1..Len(batch[h]) |-> [seq |-> Len(mem[h]) + i - 1, kind |-> batch[h][i]]]

\* The file after `lines` are appended: bytes after the last newline, if any,
\* are glued to the first of them.
Appended(lines) ==
    IF torn /\ lines # << >>
    THEN disk \o [lines EXCEPT ![1].kind = "joined"]
    ELSE disk \o lines

\* Mutant: the file is not opened in append mode, so the bytes land where the
\* handle's own replay ended.
DurableInPlace(h) ==
    /\ disk' = SubSeq(disk, 1, Len(mem[h])) \o LinesOf(h)
    /\ torn' = FALSE
    /\ acked' = acked \union {LinesOf(h)[i] : i \in 1..Len(batch[h])}

\* write_all and flush succeed; memory and the bus follow the durable write.
Durable(h) ==
    /\ disk' = Appended(LinesOf(h))
    /\ torn' = FALSE
    /\ acked' = acked \union {LinesOf(h)[i] : i \in 1..Len(batch[h])}

Write(h) ==
    /\ pc[h] = "writing"
    /\ Durable(h)
    /\ mem' = [mem EXCEPT ![h] = @ \o batch[h]]
    /\ batch' = [batch EXCEPT ![h] = << >>]
    /\ pc' = [pc EXCEPT ![h] = "open"]
    /\ UNCHANGED <<dirLock, gen, lease, tears, renames>>

\* write_all stops after k whole lines, and with `part` inside the next one:
\* AppendError::Io.  Memory is not updated and the handle stays usable.
TornWrite(h, k, part) ==
    /\ pc[h] = "writing"
    /\ tears < TearBudget
    /\ k < Len(batch[h])
    /\ disk' = Appended(SubSeq(LinesOf(h), 1, k))
    /\ torn' = (part \/ (torn /\ k = 0))
    /\ batch' = [batch EXCEPT ![h] = << >>]
    /\ pc' = [pc EXCEPT ![h] = "open"]
    /\ tears' = tears + 1
    /\ UNCHANGED <<dirLock, gen, mem, lease, acked, renames>>

-----------------------------------------------------------------------------
(* SessionQueryService::rename of a session this host does not have open   *)

\* The root lineage lock admits one rename at a time; resume replays the log.
RenameReplay(h) ==
    /\ pc[h] = "closed"
    /\ renames < RenameBudget
    /\ \A g \in Handle : pc[g] \notin {"viewing", "titling"}
    /\ Replays(disk, torn)
    /\ pc' = [pc EXCEPT ![h] = "viewing"]
    /\ mem' = [mem EXCEPT ![h] = Kinds(disk)]
    /\ renames' = renames + 1
    /\ UNCHANGED <<disk, torn, dirLock, gen, lease, batch, acked, tears>>

\* Mutant: rename appends under its shared lock, next to a live writer.
RenameUpgradeShared(h) ==
    /\ pc[h] = "viewing"
    /\ Len(mem[h]) < MaxEvents
    /\ pc' = [pc EXCEPT ![h] = "titling"]
    /\ batch' = [batch EXCEPT ![h] = <<"plain">>]
    /\ UNCHANGED <<disk, torn, dirLock, gen, mem, lease, acked, tears, renames>>

\* try_lock_lifecycle_exclusive is refused while any other handle holds the
\* file; append then finds no lease to check, and reserves one event.
RenameUpgrade(h) ==
    LET granted == FileLockers = {h} /\ Len(mem[h]) < MaxEvents IN
    /\ pc[h] = "viewing"
    /\ \/ /\ granted
          /\ pc' = [pc EXCEPT ![h] = "titling"]
          /\ batch' = [batch EXCEPT ![h] = <<"plain">>]
          /\ UNCHANGED <<mem, lease>>
       \/ ~granted /\ Drop({h})
    /\ UNCHANGED <<disk, torn, dirLock, gen, acked, tears, renames>>

\* The title is durable and rename returns, dropping its handle.
RenameWrite(h) ==
    /\ pc[h] = "titling"
    /\ Durable(h)
    /\ Drop({h})
    /\ UNCHANGED <<dirLock, gen, tears, renames>>

-----------------------------------------------------------------------------
(* Handles end                                                             *)

Close(h) ==
    /\ pc[h] = "open"
    /\ Drop({h})
    /\ UNCHANGED <<disk, torn, dirLock, gen, acked, tears, renames>>

\* The last Arc<WriterLeaseFile> is gone: closing its file releases the flock.
ReleaseLease ==
    /\ dirLock # NoProcess
    /\ LeaseHolders(dirLock) = {}
    /\ dirLock' = NoProcess
    /\ UNCHANGED <<disk, torn, gen, pc, mem, lease, batch, acked, tears, renames>>

\* The process dies: its handles are gone and the kernel drops its locks.
Crash(p) ==
    /\ \E h \in Handle : Owner[h] = p /\ pc[h] # "closed"
    /\ Drop({h \in Handle : Owner[h] = p})
    /\ dirLock' = IF dirLock = p THEN NoProcess ELSE dirLock
    /\ UNCHANGED <<disk, torn, gen, acked, tears, renames>>

-----------------------------------------------------------------------------
HandleStep(h) ==
    \/ Reserve(h) \/ Replay(h) \/ Commit(h)
    \/ CheckAppend(h) \/ Write(h)
    \/ \E k \in 0..MaxEvents, part \in BOOLEAN : TornWrite(h, k, part)
    \/ RenameReplay(h) \/ RenameUpgrade(h) \/ RenameWrite(h)
    \/ Close(h)

Step ==
    \/ \E h \in Handle : HandleStep(h)
    \/ ReleaseLease
    \/ \E p \in Process : Crash(p)

(***************************************************************************)
(* The interleavings the lease does not exclude.  Inside one process, a    *)
(* handle that is still current may write after its successor's replay, or *)
(* after its successor's commit when it had passed check_writable before;  *)
(* and a writer of any process may write between a rename's replay and the *)
(* rename's exclusive lock.  The code lets all three happen; raced records *)
(* that one has.                                                           *)
(***************************************************************************)
Wrote(h) == pc[h] = "writing" /\ pc'[h] # "writing" /\ disk' # disk

Overtaking ==
    \/ \E g, h \in Handle : Owner[g] = Owner[h] /\ Wrote(g) /\ pc[h] = "replayed"
    \/ \E g, h \in Handle : Wrote(g) /\ pc[h] = "viewing"
    \/ \E g, h \in Handle :
          Owner[g] = Owner[h] /\ pc[g] = "writing" /\ pc[h] = "replayed" /\ pc'[h] = "open"

Next == Step /\ raced' = (raced \/ Overtaking)

Spec == Init /\ [][Next]_vars

-----------------------------------------------------------------------------
(* Properties                                                              *)

\* Cross-process exclusion (session.rs, WriterLease): every handle that holds
\* or has reserved the writer lease lives in the process that owns the
\* directory flock, so two processes never both believe they may append.
OneProcessWrites ==
    \A h \in Handle :
        pc[h] \in {"reserved", "replayed", "open", "writing"} => dirLock = Owner[h]

\* In-process supersession: at most one handle's is_current() is true, the
\* newest one to commit.
OneCurrentWriter == \A g, h \in Handle : IsCurrent(g) /\ IsCurrent(h) => g = h

\* Supersession is final: a handle that lost the lease to a newer one never
\* passes check_writable again, whichever handles are dropped or reopened, in
\* whatever order, and however often the lease file is recreated.
SupersededStaysOut ==
    [][\A h \in Handle : pc[h] \in {"open", "writing"} /\ ~IsCurrent(h) => ~IsCurrent(h)']_vars

\* The log can always be reopened: nothing any writer did makes Session::open
\* refuse it.
LogReopens == Replays(disk, torn)

\* Every append that returned Ok (and reached the bus) is in the log at its own
\* sequence number.
AcknowledgedKept ==
    \A l \in acked : l.seq < Len(disk) /\ disk[l.seq + 1] = l

\* Damage is never silent: whatever was cut short or overtaken, a log that
\* Session::open accepts still holds every append that returned Ok.
NoSilentLoss == LogReopens => AcknowledgedKept

\* The lease excludes everything else: a log that no longer reopens saw a write
\* cut short, or one of the overtakings above; in particular no interleaving of
\* two processes' writers, no crash and no sequence of takeovers ends that way.
DamageHasACause == LogReopens \/ tears > 0 \/ raced

\* No append that returns Ok leaves behind a log the reader refuses
\* (Session::reserve: "Refuse a write the reader would refuse").
WriterRefusesWhatReaderRefuses == [][acked' # acked => Replays(disk', torn')]_vars

=============================================================================
