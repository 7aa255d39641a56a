-------------------------- MODULE SessionLogProofs --------------------------
(***************************************************************************)
(* Proofs about SessionLog for every set of handles and processes.         *)
(*                                                                         *)
(*   - Typing, the two lock properties and the finality of supersession.   *)
(*   - A log that opens holds every acknowledged append, whatever was cut  *)
(*     short or overtaken.                                                 *)
(*   - A log that does not open saw a write cut short or an overtaking.    *)
(***************************************************************************)
EXTENDS SessionLog, SequenceTheorems, FiniteSetTheorems, TLAPS

-----------------------------------------------------------------------------
(* The operators                                                           *)

\* Reading either part of a concatenation.
LEMMA ConcatIndex ==
    ASSUME NEW S, NEW s \in Seq(S), NEW t \in Seq(S)
    PROVE  /\ s \o t \in Seq(S)
           /\ Len(s) \in Nat /\ Len(t) \in Nat /\ Len(s \o t) = Len(s) + Len(t)
           /\ \A i \in 1..Len(s) : (s \o t)[i] = s[i]
           /\ \A i \in 1..Len(t) : (s \o t)[Len(s) + i] = t[i]
<1>1. Len(s) \in Nat /\ Len(t) \in Nat
  BY LenProperties
<1>2. /\ s \o t \in Seq(S) /\ Len(s \o t) = Len(s) + Len(t)
      /\ \A i \in 1..Len(s) + Len(t) :
            (s \o t)[i] = IF i <= Len(s) THEN s[i] ELSE t[i - Len(s)]
  BY ConcatProperties
<1>3. ASSUME NEW i \in 1..Len(s) PROVE (s \o t)[i] = s[i]
  BY <1>1, <1>2
<1>4. ASSUME NEW i \in 1..Len(t) PROVE (s \o t)[Len(s) + i] = t[i]
  <2>1. Len(s) + i \in 1..Len(s) + Len(t) /\ ~(Len(s) + i <= Len(s)) /\ Len(s) + i - Len(s) = i
    BY <1>1
  <2> QED BY <1>2, <2>1
<1> QED BY <1>1, <1>2, <1>3, <1>4

\* Replay of parsable lines yields one kind per line.
LEMMA KindsType ==
    ASSUME NEW lines \in Seq(Line), \A i \in 1..Len(lines) : lines[i].kind # "joined"
    PROVE  /\ Kinds(lines) \in Seq(Kind)
           /\ Len(Kinds(lines)) = Len(lines)
           /\ \A i \in 1..Len(lines) : Kinds(lines)[i] = lines[i].kind
<1>1. Len(lines) \in Nat /\ \A i \in 1..Len(lines) : lines[i] \in Line
  BY ElementOfSeq, LenProperties
<1>2. \A i \in 1..Len(lines) : lines[i].kind \in Kind
  BY <1>1 DEF Line
<1>3. Kinds(lines) \in [1..Len(lines) -> Kind]
  BY <1>2 DEF Kinds
<1> QED BY <1>1, <1>3 DEF Kinds

\* The inbox counters of a finite log are numbers.
LEMMA CountType ==
    ASSUME NEW ev \in Seq(Kind), NEW i \in 0..Len(ev), NEW S
    PROVE  CountUpTo(ev, i, S) \in Nat
<1>1. IsFiniteSet(1..i)
  BY FS_Interval
<1>2. IsFiniteSet({j \in 1..i : ev[j] \in S})
  BY <1>1, FS_Subset
<1> QED BY <1>2, FS_CardinalityType DEF CountUpTo

\* Every batch an append may carry is a non-empty sequence of kinds.
LEMMA BatchesType ==
    ASSUME NEW ev \in Seq(Kind), NEW b \in Batches(ev)
    PROVE  b \in Seq(Kind) /\ Len(b) > 0
<1>0. Len(ev) \in Nat /\ Len(ev) \in 0..Len(ev)
  BY LenProperties
<1>1. Pending(ev) \in Int
  BY <1>0, CountType DEF Pending
<1>2. CASE b = <<"plain">>
  BY <1>2 DEF Kind
<1>5. CASE b = <<"queue">>
  BY <1>5 DEF Kind
<1>6. CASE b = <<"select", "message">>
  BY <1>6 DEF Kind
<1>3. CASE Pending(ev) > 0 /\ b = <<"claim", "message">>
  BY <1>3 DEF Kind
<1>4. CASE Pending(ev) > 0 /\ b = [i \in 1..Pending(ev) |-> "cancel"]
  <2>1. b \in [1..Pending(ev) -> Kind]
    BY <1>4 DEF Kind
  <2> QED BY <1>1, <1>4, <2>1
<1> QED BY <1>2, <1>3, <1>4, <1>5, <1>6 DEF Batches

\* The lines of a batch are numbered from the handle's own memory.
LEMMA LinesType ==
    ASSUME NEW h \in Handle, TypeOK
    PROVE  /\ LinesOf(h) \in Seq(Line)
           /\ Len(LinesOf(h)) = Len(batch[h])
           /\ \A i \in 1..Len(batch[h]) :
                 /\ LinesOf(h)[i].seq = Len(mem[h]) + i - 1
                 /\ LinesOf(h)[i].kind = batch[h][i]
                 /\ LinesOf(h)[i].kind \in Kind
<1>1. /\ mem[h] \in Seq(Kind) /\ Len(mem[h]) \in Nat
      /\ batch[h] \in Seq(Kind) /\ Len(batch[h]) \in Nat
      /\ \A i \in 1..Len(batch[h]) : batch[h][i] \in Kind
  BY ElementOfSeq, LenProperties DEF TypeOK
<1>2. LinesOf(h) \in [1..Len(batch[h]) -> Line]
  BY <1>1 DEF LinesOf, Line
<1>3. LinesOf(h) \in Seq(Line) /\ Len(LinesOf(h)) = Len(batch[h])
  BY <1>1, <1>2
<1>4. \A i \in 1..Len(batch[h]) :
         LinesOf(h)[i] = [seq |-> Len(mem[h]) + i - 1, kind |-> batch[h][i]]
  BY DEF LinesOf
<1>5. ASSUME NEW i \in 1..Len(batch[h])
      PROVE  /\ LinesOf(h)[i].seq = Len(mem[h]) + i - 1
             /\ LinesOf(h)[i].kind = batch[h][i]
             /\ LinesOf(h)[i].kind \in Kind
  <2>1. LinesOf(h)[i] = [seq |-> Len(mem[h]) + i - 1, kind |-> batch[h][i]]
    BY <1>4
  <2>2. batch[h][i] \in Kind
    BY <1>1
  <2> QED BY <2>1, <2>2
<1> QED BY <1>3, <1>5

\* Whatever part of a batch reaches the file, the file is a sequence of lines.
LEMMA AppendedType ==
    ASSUME NEW lines \in Seq(Line), TypeOK
    PROVE  Appended(lines) \in Seq(Line)
<1>1. CASE torn /\ lines # << >>
  <2>1. 1 \in 1..Len(lines) /\ lines[1] \in Line
    BY <1>1, EmptySeq, ElementOfSeq
  <2>2. [lines[1] EXCEPT !.kind = "joined"] \in Line
    BY <2>1 DEF Line
  <2>3. [lines EXCEPT ![1].kind = "joined"] \in Seq(Line)
    BY <2>1, <2>2, ExceptSeq
  <2> QED BY <1>1, <2>3, ConcatProperties DEF Appended, TypeOK
<1>2. CASE ~(torn /\ lines # << >>)
  BY <1>2, ConcatProperties DEF Appended, TypeOK
<1> QED BY <1>1, <1>2

-----------------------------------------------------------------------------
(* Typing                                                                  *)

LEMMA DropType ==
    ASSUME NEW S, TypeOK, Drop(S)
    PROVE  /\ pc' \in [Handle -> Pc]
           /\ mem' \in [Handle -> Seq(Kind)]
           /\ lease' \in [Handle -> Nat]
           /\ batch' \in [Handle -> Seq(Kind)]
<1>1. << >> \in Seq(Kind)
  BY EmptySeq
<1> QED BY <1>1 DEF TypeOK, Drop, Pc

LEMMA DurableType ==
    ASSUME NEW h \in Handle, TypeOK, Durable(h)
    PROVE  disk' \in Seq(Line) /\ torn' \in BOOLEAN /\ acked' \subseteq Line
<1>1. LinesOf(h) \in Seq(Line) /\ Len(LinesOf(h)) = Len(batch[h])
  BY LinesType
<1>2. \A i \in 1..Len(batch[h]) : LinesOf(h)[i] \in Line
  BY <1>1, ElementOfSeq
<1> QED BY <1>1, <1>2, AppendedType DEF Durable, TypeOK

\* Every step of the full specification keeps every variable in its type.
LEMMA TypeStep ==
    ASSUME TypeOK, [Next]_vars
    PROVE  TypeOK'
<1> USE BoundAssumption, OwnerAssumption, NoProcessAssumption
<1>e. << >> \in Seq(Kind)
  BY EmptySeq
<1>r. raced' \in BOOLEAN
  BY Zenon DEF TypeOK, Next, vars
<1> USE <1>r
<1>1. ASSUME NEW h \in Handle, Reserve(h) PROVE TypeOK'
  BY <1>1 DEF TypeOK, Reserve, Pc
<1>2. ASSUME NEW h \in Handle, Replay(h) PROVE TypeOK'
  <2>1. CASE Replays(disk, torn) /\ pc' = [pc EXCEPT ![h] = "replayed"]
             /\ mem' = [mem EXCEPT ![h] = Kinds(disk)] /\ UNCHANGED <<lease, batch>>
    <3>1. Kinds(disk) \in Seq(Kind)
      BY <2>1, KindsType DEF Replays, Contiguous, TypeOK
    <3> QED BY <1>2, <2>1, <3>1 DEF TypeOK, Replay, Pc
  <2>2. CASE Drop({h})
    BY <1>2, <2>2, DropType DEF TypeOK, Replay
  <2> QED BY <1>2, <2>1, <2>2 DEF Replay
<1>3. ASSUME NEW h \in Handle, Commit(h) PROVE TypeOK'
  BY <1>3 DEF TypeOK, Commit, Pc
<1>4. ASSUME NEW h \in Handle, CheckAppend(h) PROVE TypeOK'
  <2>1. PICK b \in Batches(mem[h]) : batch' = [batch EXCEPT ![h] = b]
    BY <1>4 DEF CheckAppend
  <2>2. b \in Seq(Kind)
    BY BatchesType DEF TypeOK
  <2> QED BY <1>4, <2>1, <2>2 DEF TypeOK, CheckAppend, Pc
<1>5. ASSUME NEW h \in Handle, Write(h) PROVE TypeOK'
  <2>1. mem[h] \o batch[h] \in Seq(Kind)
    BY ConcatProperties DEF TypeOK
  <2>2. Durable(h)
    BY <1>5 DEF Write
  <2> QED BY <1>5, <1>e, <2>1, <2>2, DurableType DEF TypeOK, Write, Pc
<1>6. ASSUME NEW h \in Handle, NEW k \in 0..MaxEvents, NEW part \in BOOLEAN,
             TornWrite(h, k, part)
      PROVE  TypeOK'
  <2>1. LinesOf(h) \in Seq(Line) /\ Len(LinesOf(h)) = Len(batch[h])
    BY LinesType
  <2>2. \A i \in 1..k : LinesOf(h)[i] \in Line
    BY <1>6, <2>1, ElementOfSeq DEF TornWrite
  <2>3. SubSeq(LinesOf(h), 1, k) \in Seq(Line)
    BY <2>2, SubSeqProperties
  <2>4. disk' \in Seq(Line)
    BY <1>6, <2>3, AppendedType DEF TornWrite
  <2>5. torn' \in BOOLEAN
    BY <1>6, Zenon DEF TornWrite
  <2> QED BY <1>6, <1>e, <2>4, <2>5 DEF TypeOK, TornWrite, Pc
<1>7. ASSUME NEW h \in Handle, RenameReplay(h) PROVE TypeOK'
  <2>1. Kinds(disk) \in Seq(Kind)
    BY <1>7, KindsType DEF RenameReplay, Replays, Contiguous, TypeOK
  <2> QED BY <1>7, <2>1 DEF TypeOK, RenameReplay, Pc
<1>8. ASSUME NEW h \in Handle, RenameUpgrade(h) PROVE TypeOK'
  <2>1. <<"plain">> \in Seq(Kind)
    BY DEF Kind
  <2>2. CASE Drop({h})
    BY <1>8, <2>2, DropType DEF TypeOK, RenameUpgrade
  <2>3. CASE ~Drop({h})
    BY <1>8, <2>1, <2>3 DEF TypeOK, RenameUpgrade, Pc
  <2> QED BY <2>2, <2>3
<1>9. ASSUME NEW h \in Handle, RenameWrite(h) PROVE TypeOK'
  BY <1>9, DropType, DurableType DEF TypeOK, RenameWrite
<1>10. ASSUME NEW h \in Handle, Close(h) PROVE TypeOK'
  BY <1>10, DropType DEF TypeOK, Close
<1>11. CASE ReleaseLease
  BY <1>11 DEF TypeOK, ReleaseLease
<1>12. ASSUME NEW p \in Process, Crash(p) PROVE TypeOK'
  BY <1>12, DropType DEF TypeOK, Crash
<1>13. CASE UNCHANGED vars
  BY <1>13 DEF TypeOK, vars
<1> QED BY <1>1, <1>2, <1>3, <1>4, <1>5, <1>6, <1>7, <1>8, <1>9, <1>10, <1>11, <1>12, <1>13
        DEF Next, Step, HandleStep

\* Init establishes the types.
LEMMA TypeInit == Init => TypeOK
<1>1. <<Created>> \in Seq(Line) /\ {Created} \subseteq Line
  BY DEF Created, Line, Kind
<1>2. << >> \in Seq(Kind)
  BY EmptySeq
<1>3. SUFFICES ASSUME Init PROVE TypeOK
  OBVIOUS
<1>4. disk \in Seq(Line) /\ torn \in BOOLEAN /\ acked \subseteq Line
  BY <1>1, <1>3 DEF Init
<1>5. mem \in [Handle -> Seq(Kind)] /\ batch \in [Handle -> Seq(Kind)]
  BY <1>2, <1>3 DEF Init
<1> QED BY <1>3, <1>4, <1>5 DEF Init, TypeOK, Pc

\* Type correctness of the session log under every interleaving of handles,
\* crashes, cut-short writes and renames.
THEOREM TypeCorrect == Spec => []TypeOK
BY TypeInit, TypeStep, PTL DEF Spec

-----------------------------------------------------------------------------
(* The writer lease                                                        *)

Leased == {"reserved", "replayed", "open", "writing"}

\* Committed leases carry distinct generations of the live lease file.
LeaseGenerations ==
    /\ \A h \in Handle : pc[h] \in {"open", "writing"} => lease[h] <= gen
    /\ \A g, h \in Handle :
          pc[g] \in {"open", "writing"} /\ pc[h] \in {"open", "writing"} /\ lease[g] = lease[h]
             => g = h

LeaseInv == TypeOK /\ OneProcessWrites /\ LeaseGenerations

\* With the directory unlocked no handle anywhere holds a lease.
LEMMA UnlockedMeansNoLease ==
    ASSUME LeaseInv, dirLock = NoProcess
    PROVE  \A h \in Handle : pc[h] \notin Leased
BY OwnerAssumption, NoProcessAssumption DEF LeaseInv, OneProcessWrites, Leased

LEMMA LeaseStep ==
    ASSUME LeaseInv, [Next]_vars
    PROVE  LeaseInv'
<1> USE OwnerAssumption, NoProcessAssumption
<1>0. TypeOK'
  BY TypeStep DEF LeaseInv
<1> SUFFICES (OneProcessWrites /\ LeaseGenerations)'
  BY <1>0 DEF LeaseInv
<1> USE DEF LeaseInv, OneProcessWrites, LeaseGenerations, TypeOK
<1>1. ASSUME NEW h \in Handle, Reserve(h) PROVE (OneProcessWrites /\ LeaseGenerations)'
  <2>1. CASE LeaseHolders(Owner[h]) # {} /\ UNCHANGED <<dirLock, gen>>
    BY <1>1, <2>1 DEF Reserve, LeaseHolders
  <2>2. CASE dirLock = NoProcess /\ dirLock' = Owner[h] /\ gen' = 0
    <3>1. \A g \in Handle : pc[g] \notin Leased
      BY <2>2, UnlockedMeansNoLease
    <3> QED BY <1>1, <2>2, <3>1 DEF Reserve, Leased
  <2> QED BY <1>1, <2>1, <2>2 DEF Reserve
<1>2. ASSUME NEW h \in Handle, Replay(h) PROVE (OneProcessWrites /\ LeaseGenerations)'
  <2>1. CASE Drop({h})
    BY <1>2, <2>1 DEF Replay, Drop
  <2>2. CASE ~Drop({h})
    BY <1>2, <2>2 DEF Replay
  <2> QED BY <2>1, <2>2
<1>3. ASSUME NEW h \in Handle, Commit(h) PROVE (OneProcessWrites /\ LeaseGenerations)'
  BY <1>3 DEF Commit
<1>4. ASSUME NEW h \in Handle, CheckAppend(h) PROVE (OneProcessWrites /\ LeaseGenerations)'
  BY <1>4 DEF CheckAppend
<1>5. ASSUME NEW h \in Handle, Write(h) PROVE (OneProcessWrites /\ LeaseGenerations)'
  BY <1>5 DEF Write
<1>6. ASSUME NEW h \in Handle, NEW k \in 0..MaxEvents, NEW part \in BOOLEAN,
             TornWrite(h, k, part)
      PROVE  (OneProcessWrites /\ LeaseGenerations)'
  BY <1>6 DEF TornWrite
<1>7. ASSUME NEW h \in Handle, RenameReplay(h) PROVE (OneProcessWrites /\ LeaseGenerations)'
  BY <1>7 DEF RenameReplay
<1>8. ASSUME NEW h \in Handle, RenameUpgrade(h) PROVE (OneProcessWrites /\ LeaseGenerations)'
  <2>1. CASE Drop({h})
    BY <1>8, <2>1 DEF RenameUpgrade, Drop
  <2>2. CASE ~Drop({h})
    BY <1>8, <2>2 DEF RenameUpgrade
  <2> QED BY <2>1, <2>2
<1>9. ASSUME NEW h \in Handle, RenameWrite(h) PROVE (OneProcessWrites /\ LeaseGenerations)'
  BY <1>9 DEF RenameWrite, Drop
<1>10. ASSUME NEW h \in Handle, Close(h) PROVE (OneProcessWrites /\ LeaseGenerations)'
  BY <1>10 DEF Close, Drop
<1>11. ASSUME ReleaseLease PROVE (OneProcessWrites /\ LeaseGenerations)'
  BY <1>11 DEF ReleaseLease, LeaseHolders
<1>12. ASSUME NEW p \in Process, Crash(p) PROVE (OneProcessWrites /\ LeaseGenerations)'
  BY <1>12 DEF Crash, Drop
<1>13. CASE UNCHANGED vars
  BY <1>13 DEF vars
<1> QED BY <1>1, <1>2, <1>3, <1>4, <1>5, <1>6, <1>7, <1>8, <1>9, <1>10, <1>11, <1>12, <1>13
        DEF Next, Step, HandleStep

LEMMA LeaseInit == Init => LeaseInv
BY TypeInit DEF Init, LeaseInv, OneProcessWrites, LeaseGenerations

\* The lease is inductive under every interleaving, crash and cut-short write.
LEMMA LeaseInvariant == Spec => []LeaseInv
BY LeaseInit, LeaseStep, PTL DEF Spec

\* acquire_writer_lease: handles that may append to one log all live in the
\* process that holds the directory flock.
THEOREM CrossProcessExclusion == Spec => []OneProcessWrites
<1>1. LeaseInv => OneProcessWrites
  BY DEF LeaseInv
<1> QED BY <1>1, LeaseInvariant, PTL

\* PendingWriterLease::commit and WriterLease::is_current: the newest handle
\* is the only one whose appends are accepted.
THEOREM NewestWriterWins == Spec => []OneCurrentWriter
<1>1. LeaseInv => OneCurrentWriter
  BY DEF LeaseInv, LeaseGenerations, OneCurrentWriter, IsCurrent
<1> QED BY <1>1, LeaseInvariant, PTL

\* PendingWriterLease::commit advances the generation and acquire_writer_lease
\* restarts it only when no handle holds a lease: a superseded handle stays so.
LEMMA SupersededStep ==
    ASSUME LeaseInv, [Next]_vars, NEW h \in Handle, pc[h] \in {"open", "writing"}, ~IsCurrent(h)
    PROVE  ~IsCurrent(h)'
<1>1. lease[h] \in Nat /\ gen \in Nat /\ lease[h] < gen /\ TypeOK /\ OneProcessWrites
  BY DEF LeaseInv, LeaseGenerations, IsCurrent, TypeOK, OneProcessWrites
<1>2. pc'[h] \in {"open", "writing"} => lease'[h] = lease[h]
  <2>1. CASE UNCHANGED <<pc, lease>>
    BY <2>1
  <2>2. ASSUME NEW S, Drop(S) PROVE pc'[h] \in {"open", "writing"} => lease'[h] = lease[h]
    BY <2>2 DEF Drop
  <2>3. ASSUME NEW g \in Handle, Commit(g) PROVE lease'[h] = lease[h]
    BY <1>1, <2>3 DEF Commit, TypeOK
  <2>4. ASSUME NEW g \in Handle, HandleStep(g), ~Commit(g)
        PROVE  UNCHANGED lease \/ Drop({g})
    BY <2>4 DEF HandleStep, Reserve, Replay, CheckAppend, Write, TornWrite,
                RenameReplay, RenameUpgrade, RenameWrite, Close
  <2>5. ASSUME NEW p \in Process, Crash(p) PROVE Drop({g \in Handle : Owner[g] = p})
    BY <2>5 DEF Crash
  <2> QED BY <2>1, <2>2, <2>3, <2>4, <2>5 DEF Next, Step, ReleaseLease, vars
<1>3. gen' \in Nat /\ gen' >= gen
  <2>1. ASSUME NEW g \in Handle, Reserve(g) PROVE gen' = gen
    <3>1. pc[h] \in Leased /\ dirLock # NoProcess
      BY <1>1, OwnerAssumption, NoProcessAssumption DEF OneProcessWrites, Leased
    <3> QED BY <2>1, <3>1 DEF Reserve
  <2>2. ASSUME NEW g \in Handle, Commit(g) PROVE gen' = gen + 1
    BY <2>2 DEF Commit
  <2>3. ASSUME NEW g \in Handle, HandleStep(g), ~Commit(g), ~Reserve(g) PROVE gen' = gen
    BY <2>3 DEF HandleStep, Replay, CheckAppend, Write, TornWrite,
                RenameReplay, RenameUpgrade, RenameWrite, Close
  <2>4. gen' = gen \/ gen' = gen + 1
    BY <2>1, <2>2, <2>3 DEF Next, Step, ReleaseLease, Crash, vars
  <2> QED BY <1>1, <2>4
<1> QED BY <1>1, <1>2, <1>3 DEF IsCurrent

\* Once a newer handle has taken the lease over, the older one never appends again,
\* for any handles and processes and however often handles come and go.
THEOREM SupersessionIsFinal == Spec => SupersededStaysOut
<1>1. LeaseInv /\ [Next]_vars =>
        [\A h \in Handle : pc[h] \in {"open", "writing"} /\ ~IsCurrent(h) => ~IsCurrent(h)']_vars
  BY SupersededStep
<1> QED BY <1>1, LeaseInvariant, PTL DEF Spec, SupersededStaysOut

-----------------------------------------------------------------------------
(* Acknowledged appends                                                    *)

\* The file only grows: what a contiguous log acknowledged is where it was put.
AckInv == Contiguous(disk) => AcknowledgedKept

\* Lines added at the end leave the contiguity and the lines before them.
LEMMA GrownFile ==
    ASSUME NEW lines \in Seq(Line), TypeOK, AckInv, disk' = Appended(lines), Contiguous(disk)'
    PROVE  /\ Contiguous(disk) /\ Len(disk) \in Nat /\ Len(disk') = Len(disk) + Len(lines)
           /\ \A l \in acked : l.seq < Len(disk') /\ disk'[l.seq + 1] = l
           /\ lines = << >> \/ ~torn
           /\ ~torn => \A i \in 1..Len(lines) : disk'[Len(disk) + i] = lines[i] /\ lines[i].seq = Len(disk) + i - 1
<1> DEFINE glued == IF torn /\ lines # << >> THEN [lines EXCEPT ![1].kind = "joined"] ELSE lines
<1>0. disk \in Seq(Line) /\ acked \subseteq Line
  BY DEF TypeOK
<1>1. glued \in Seq(Line) /\ Len(glued) = Len(lines)
  <2>1. CASE torn /\ lines # << >>
    <3>1. 1 \in 1..Len(lines) /\ lines[1] \in Line
      BY <2>1, EmptySeq, ElementOfSeq
    <3>2. [lines[1] EXCEPT !.kind = "joined"] \in Line
      BY <3>1 DEF Line
    <3>3. [lines EXCEPT ![1].kind = "joined"] \in Seq(Line) /\ Len([lines EXCEPT ![1].kind = "joined"]) = Len(lines)
      BY <3>1, <3>2, ExceptSeq
    <3> QED BY <2>1, <3>3
  <2> QED BY <2>1
<1>2. disk' = disk \o glued
  BY DEF Appended
<1>g. torn /\ lines # << >> => 1 \in 1..Len(lines) /\ glued[1].kind = "joined"
  <2> SUFFICES ASSUME torn, lines # << >> PROVE 1 \in 1..Len(lines) /\ glued[1].kind = "joined"
    OBVIOUS
  <2>1. 1 \in 1..Len(lines) /\ lines[1] \in Line /\ 1 \in DOMAIN lines
    BY EmptySeq, ElementOfSeq, LenProperties
  <2> QED BY <2>1 DEF Line
<1>h. ~torn => glued = lines
  OBVIOUS
<1> HIDE DEF glued
<1>3. /\ Len(disk) \in Nat /\ Len(glued) \in Nat /\ Len(disk') = Len(disk) + Len(glued)
      /\ \A i \in 1..Len(disk) : disk'[i] = disk[i]
      /\ \A i \in 1..Len(glued) : disk'[Len(disk) + i] = glued[i]
  <2>1. /\ Len(disk) \in Nat /\ Len(glued) \in Nat /\ Len(disk \o glued) = Len(disk) + Len(glued)
        /\ \A i \in 1..Len(disk) : (disk \o glued)[i] = disk[i]
        /\ \A i \in 1..Len(glued) : (disk \o glued)[Len(disk) + i] = glued[i]
    <3>1. disk \in Seq(Line) /\ glued \in Seq(Line)
      BY <1>0, <1>1
    <3> QED BY <3>1, ConcatIndex
  <2> QED BY <1>2, <2>1, Zenon
<1>4. \A i \in 1..Len(disk') : disk'[i].kind # "joined" /\ disk'[i].seq = i - 1
  BY DEF Contiguous
<1>5. Contiguous(disk)
  <2> SUFFICES ASSUME NEW i \in 1..Len(disk) PROVE disk[i].kind # "joined" /\ disk[i].seq = i - 1
    BY DEF Contiguous
  <2>1. i \in 1..Len(disk')
    BY <1>3
  <2> QED BY <1>3, <1>4, <2>1
<1>6. ASSUME NEW l \in acked PROVE l.seq < Len(disk') /\ disk'[l.seq + 1] = l
  <2>1. l.seq \in Nat
    BY <1>0 DEF Line
  <2>2. l.seq < Len(disk) /\ disk[l.seq + 1] = l
    BY <1>5 DEF AckInv, AcknowledgedKept
  <2>3. l.seq + 1 \in 1..Len(disk) /\ l.seq < Len(disk')
    BY <1>3, <2>1, <2>2
  <2> QED BY <1>3, <2>2, <2>3
<1>7. ASSUME NEW i \in 1..Len(glued) PROVE glued[i].kind # "joined" /\ glued[i].seq = Len(disk) + i - 1
  <2>1. Len(disk) + i \in 1..Len(disk') /\ disk'[Len(disk) + i] = glued[i]
    BY <1>3
  <2> QED BY <1>4, <2>1
<1>8. lines = << >> \/ ~torn
  BY <1>1, <1>7, <1>g
<1> QED BY <1>1, <1>3, <1>5, <1>6, <1>7, <1>8, <1>h

\* A completed write acknowledges lines that sit where their numbers say.
LEMMA DurableAck ==
    ASSUME NEW h \in Handle, TypeOK, AckInv, Durable(h)
    PROVE  AckInv'
<1> SUFFICES ASSUME Contiguous(disk)', NEW l \in acked' PROVE l.seq < Len(disk') /\ disk'[l.seq + 1] = l
  BY DEF AckInv, AcknowledgedKept
<1>1. /\ LinesOf(h) \in Seq(Line) /\ Len(LinesOf(h)) = Len(batch[h])
  BY LinesType
<1> DEFINE new == LinesOf(h)
<1>2. new \in Seq(Line) /\ disk' = Appended(new) /\ acked' = acked \union {new[i] : i \in 1..Len(new)}
  BY <1>1 DEF Durable
<1> HIDE DEF new
<1>3. /\ Len(disk) \in Nat /\ Len(disk') = Len(disk) + Len(new)
      /\ \A k \in acked : k.seq < Len(disk') /\ disk'[k.seq + 1] = k
      /\ new = << >> \/ ~torn
      /\ ~torn => \A i \in 1..Len(new) : disk'[Len(disk) + i] = new[i] /\ new[i].seq = Len(disk) + i - 1
  BY <1>2, GrownFile
<1>4. CASE l \in acked
  BY <1>3, <1>4
<1>5. ASSUME NEW i \in 1..Len(new), l = new[i] PROVE l.seq < Len(disk') /\ disk'[l.seq + 1] = l
  <2>1. Len(new) \in Nat /\ ~torn
    BY <1>2, <1>3, <1>5, EmptySeq, LenProperties
  <2>2. disk'[Len(disk) + i] = l /\ l.seq = Len(disk) + i - 1
    BY <1>3, <1>5, <2>1
  <2>3. l.seq + 1 = Len(disk) + i /\ l.seq < Len(disk')
    BY <1>3, <2>1, <2>2
  <2> QED BY <2>2, <2>3
<1> QED BY <1>2, <1>4, <1>5

LEMMA AckStep ==
    ASSUME TypeOK, AckInv, [Next]_vars
    PROVE  AckInv'
<1>1. CASE UNCHANGED <<disk, acked>>
  BY <1>1 DEF AckInv, AcknowledgedKept, Contiguous
<1>2. ASSUME NEW h \in Handle, Durable(h) PROVE AckInv'
  BY <1>2, DurableAck
<1>3. ASSUME NEW h \in Handle, NEW k \in 0..MaxEvents, NEW part \in BOOLEAN, TornWrite(h, k, part)
      PROVE  AckInv'
  <2>1. LinesOf(h) \in Seq(Line) /\ Len(LinesOf(h)) = Len(batch[h])
    BY LinesType
  <2>2. \A i \in 1..k : LinesOf(h)[i] \in Line
    BY <1>3, <2>1, ElementOfSeq, BoundAssumption DEF TornWrite
  <2>3. SubSeq(LinesOf(h), 1, k) \in Seq(Line)
    BY <2>2, SubSeqProperties, BoundAssumption
  <2>4. disk' = Appended(SubSeq(LinesOf(h), 1, k)) /\ acked' = acked
    BY <1>3 DEF TornWrite
  <2> SUFFICES ASSUME Contiguous(disk)' PROVE AcknowledgedKept'
    BY DEF AckInv
  <2>5. \A l \in acked : l.seq < Len(disk') /\ disk'[l.seq + 1] = l
    BY <2>3, <2>4, GrownFile
  <2> QED BY <2>4, <2>5 DEF AcknowledgedKept
<1>4. ASSUME NEW h \in Handle, HandleStep(h), ~Durable(h),
             ~\E k \in 0..MaxEvents, part \in BOOLEAN : TornWrite(h, k, part)
      PROVE  UNCHANGED <<disk, acked>>
  BY <1>4 DEF HandleStep, Reserve, Replay, Commit, CheckAppend, Write,
              RenameReplay, RenameUpgrade, RenameWrite, Close
<1>5. CASE ReleaseLease \/ (\E p \in Process : Crash(p)) \/ UNCHANGED vars
  BY <1>1, <1>5 DEF ReleaseLease, Crash, vars
<1> QED BY <1>1, <1>2, <1>3, <1>4, <1>5 DEF Next, Step

\* Session::open and append_kind: no matter which writes were cut short, overtaken or
\* raced by a rename, for any handles and processes, a log that opens has lost no
\* append that returned Ok.
THEOREM NothingLostSilently == Spec => []NoSilentLoss
<1>1. Init => AckInv
  <2> SUFFICES ASSUME Init PROVE AckInv
    OBVIOUS
  <2>1. Len(disk) = 1 /\ disk[1] = Created /\ Created.seq = 0 /\ acked = {Created}
    BY DEF Init, Created
  <2> QED BY <2>1 DEF AckInv, AcknowledgedKept
<1>2. TypeOK /\ AckInv /\ [Next]_vars => AckInv'
  BY AckStep
<1>3. AckInv => NoSilentLoss
  BY DEF AckInv, NoSilentLoss, LogReopens, Replays
<1> QED BY <1>1, <1>2, <1>3, TypeCorrect, PTL DEF Spec

-----------------------------------------------------------------------------
(* The log while nothing was cut short or overtaken                        *)

\* Every handle whose memory may still number a line agrees with the file.
MemoryAgrees ==
    \A h \in Handle :
        pc[h] \in {"replayed", "viewing", "titling"} \/ IsCurrent(h) => mem[h] = Kinds(disk)

\* A handle past its checks is current, carries a batch, and a rename that
\* upgraded its file lock has the file to itself.
WriterStates ==
    \A h \in Handle :
        /\ pc[h] = "writing" => lease[h] = gen
        /\ pc[h] \in {"writing", "titling"} => Len(batch[h]) > 0
        /\ pc[h] = "titling" => \A g \in Handle \ {h} : pc[g] \in {"closed", "reserved"}

\* No two durable events share a sequence number and none is missing.
NoSequenceCollision == ~torn /\ Contiguous(disk)

SerialInv == LeaseInv /\ NoSequenceCollision /\ AcknowledgedKept /\ MemoryAgrees /\ WriterStates

\* Writing a batch numbered from an agreeing memory extends the log by exactly
\* that batch.
LEMMA DurableExtends ==
    ASSUME NEW h \in Handle, TypeOK, NoSequenceCollision, AcknowledgedKept,
           mem[h] = Kinds(disk), Len(batch[h]) > 0, Durable(h)
    PROVE  /\ NoSequenceCollision'
           /\ AcknowledgedKept'
           /\ disk' # disk
           /\ Kinds(disk)' = mem[h] \o batch[h]
<1>1. /\ disk \in Seq(Line) /\ Len(disk) \in Nat /\ ~torn
      /\ batch[h] \in Seq(Kind) /\ Len(batch[h]) \in Nat
      /\ Len(mem[h]) = Len(disk) /\ mem[h] \in Seq(Kind)
      /\ \A i \in 1..Len(disk) : mem[h][i] = disk[i].kind
  <2>1. \A i \in 1..Len(disk) : disk[i].kind # "joined"
    BY DEF NoSequenceCollision, Contiguous
  <2>2. disk \in Seq(Line) /\ batch[h] \in Seq(Kind) /\ mem[h] \in Seq(Kind)
    BY DEF TypeOK
  <2> QED BY <2>1, <2>2, KindsType, LenProperties DEF NoSequenceCollision
<1> DEFINE new == LinesOf(h)
<1>2. /\ new \in Seq(Line) /\ Len(new) = Len(batch[h])
      /\ \A i \in 1..Len(new) :
            new[i].seq = Len(disk) + i - 1 /\ new[i].kind = batch[h][i] /\ new[i].kind \in Kind
  BY <1>1, LinesType
<1> HIDE DEF new
<1>3. disk' = disk \o new /\ torn' = FALSE
  BY <1>1 DEF Durable, Appended, new
<1>4. /\ disk' \in Seq(Line) /\ Len(disk') = Len(disk) + Len(new)
      /\ \A i \in 1..Len(disk) : disk'[i] = disk[i]
      /\ \A i \in 1..Len(new) : disk'[Len(disk) + i] = new[i]
  <2>1. disk \in Seq(Line) /\ new \in Seq(Line)
    BY <1>1, <1>2
  <2>2. /\ disk \o new \in Seq(Line) /\ Len(disk \o new) = Len(disk) + Len(new)
        /\ \A i \in 1..Len(disk) : (disk \o new)[i] = disk[i]
        /\ \A i \in 1..Len(new) : (disk \o new)[Len(disk) + i] = new[i]
    BY <2>1, ConcatIndex
  <2> QED BY <1>3, <2>2, Zenon
<1>5. \A i \in 1..Len(disk') : disk'[i].kind # "joined" /\ disk'[i].seq = i - 1
  <2> TAKE i \in 1..Len(disk')
  <2>1. CASE i <= Len(disk)
    BY <1>1, <1>4, <2>1 DEF NoSequenceCollision, Contiguous
  <2>2. CASE i > Len(disk)
    <3>1. i - Len(disk) \in 1..Len(new) /\ disk'[i] = new[i - Len(disk)]
      BY <1>1, <1>2, <1>4, <2>2
    <3>2. "joined" \notin Kind
      BY DEF Kind
    <3> QED BY <1>1, <1>2, <3>1, <3>2
  <2> QED BY <1>1, <1>4, <2>1, <2>2
<1>6. NoSequenceCollision'
  BY <1>3, <1>5 DEF NoSequenceCollision, Contiguous
<1>7. AcknowledgedKept'
  <2> SUFFICES ASSUME NEW l \in acked' PROVE l.seq < Len(disk') /\ disk'[l.seq + 1] = l
    BY DEF AcknowledgedKept
  <2>1. CASE l \in acked
    <3>1. l.seq \in Nat
      BY <2>1 DEF TypeOK, Line
    <3>2. l.seq < Len(disk) /\ disk[l.seq + 1] = l
      BY <2>1 DEF AcknowledgedKept
    <3>3. l.seq + 1 \in 1..Len(disk)
      BY <1>1, <3>1, <3>2
    <3> QED BY <1>1, <1>2, <1>4, <3>1, <3>2, <3>3
  <2>2. CASE l \in {LinesOf(h)[i] : i \in 1..Len(batch[h])}
    <3>1. PICK i \in 1..Len(new) : l = new[i]
      BY <1>2, <2>2 DEF new
    <3>2. l.seq = Len(disk) + i - 1 /\ disk'[Len(disk) + i] = l
      BY <1>2, <1>4, <3>1
    <3>3. l.seq + 1 = Len(disk) + i /\ l.seq < Len(disk')
      BY <1>1, <1>2, <1>4, <3>2
    <3> QED BY <3>2, <3>3
  <2> QED BY <2>1, <2>2 DEF Durable
<1>8. disk' # disk
  BY <1>1, <1>2, <1>4
<1>9. Kinds(disk)' = mem[h] \o batch[h]
  <2>1. /\ Kinds(disk') \in Seq(Kind) /\ Len(Kinds(disk')) = Len(disk')
        /\ \A i \in 1..Len(disk') : Kinds(disk')[i] = disk'[i].kind
    BY <1>4, <1>5, KindsType
  <2>2. /\ mem[h] \o batch[h] \in Seq(Kind)
        /\ Len(mem[h] \o batch[h]) = Len(disk')
        /\ \A i \in 1..Len(disk) : (mem[h] \o batch[h])[i] = mem[h][i]
        /\ \A i \in 1..Len(new) : (mem[h] \o batch[h])[Len(disk) + i] = batch[h][i]
    <3>1. mem[h] \in Seq(Kind) /\ batch[h] \in Seq(Kind)
      BY <1>1
    <3>2. /\ mem[h] \o batch[h] \in Seq(Kind)
          /\ Len(mem[h] \o batch[h]) = Len(mem[h]) + Len(batch[h])
          /\ \A i \in 1..Len(mem[h]) : (mem[h] \o batch[h])[i] = mem[h][i]
          /\ \A i \in 1..Len(batch[h]) : (mem[h] \o batch[h])[Len(mem[h]) + i] = batch[h][i]
      BY <3>1, ConcatIndex
    <3>3. Len(mem[h]) = Len(disk) /\ Len(batch[h]) = Len(new) /\ Len(disk') = Len(disk) + Len(new)
      BY <1>1, <1>2, <1>4
    <3> QED BY <3>2, <3>3, Zenon
  <2>3. ASSUME NEW i \in 1..Len(disk') PROVE Kinds(disk')[i] = (mem[h] \o batch[h])[i]
    <3>1. CASE i \in 1..Len(disk)
      BY <1>1, <1>4, <2>1, <2>2, <3>1
    <3>2. ASSUME NEW j \in 1..Len(new), i = Len(disk) + j
          PROVE  Kinds(disk')[i] = (mem[h] \o batch[h])[i]
      <4>1. Kinds(disk')[i] = new[j].kind
        BY <1>4, <2>1, <3>2
      <4> QED BY <1>2, <2>2, <3>2, <4>1
    <3>3. i \in 1..Len(disk) \/ (i - Len(disk) \in 1..Len(new) /\ i = Len(disk) + (i - Len(disk)))
      BY <1>1, <1>2, <1>4
    <3> QED BY <3>1, <3>2, <3>3
  <2>4. Kinds(disk') = mem[h] \o batch[h]
    BY <2>1, <2>2, <2>3, SeqEqual
  <2> QED BY <2>4 DEF Kinds
<1> QED BY <1>6, <1>7, <1>8, <1>9

\* What the serial invariant says of the log itself, step by step.
LEMMA SerialStep ==
    ASSUME SerialInv, [Next]_vars, tears' = 0, ~raced'
    PROVE  SerialInv'
<1> USE OwnerAssumption, NoProcessAssumption
<1> DEFINE LogInv == NoSequenceCollision /\ AcknowledgedKept /\ MemoryAgrees /\ WriterStates
<1>0. LeaseInv' /\ TypeOK'
  BY LeaseStep DEF SerialInv, LeaseInv
<1>a. TypeOK /\ LeaseInv /\ LogInv
  BY DEF SerialInv, LeaseInv
<1>o. Next => ~Overtaking
  BY DEF Next
<1> SUFFICES LogInv'
  BY <1>0 DEF SerialInv
\* A step that leaves the file alone keeps what is said about the file alone.
<1>b. ASSUME UNCHANGED <<disk, torn, acked>>
      PROVE  (NoSequenceCollision /\ AcknowledgedKept)' /\ Kinds(disk)' = Kinds(disk)
  BY <1>a, <1>b DEF NoSequenceCollision, AcknowledgedKept, Contiguous, Kinds
\* Dropping handles takes them out of every clause.
<1>c. ASSUME NEW S, Drop(S), UNCHANGED <<disk, torn, acked, gen>> PROVE LogInv'
  <2>1. MemoryAgrees'
    BY <1>a, <1>b, <1>c DEF MemoryAgrees, IsCurrent, Drop, TypeOK
  <2>2. WriterStates'
    BY <1>a, <1>c DEF WriterStates, Drop, TypeOK
  <2> QED BY <1>b, <1>c, <2>1, <2>2
<1>1. ASSUME NEW h \in Handle, Reserve(h) PROVE LogInv'
  <2>0. UNCHANGED <<disk, torn, acked, mem, lease, batch>>
    BY <1>1 DEF Reserve
  <2>1. CASE UNCHANGED gen
    BY <1>a, <1>b, <1>1, <2>0, <2>1 DEF Reserve, MemoryAgrees, WriterStates, IsCurrent, TypeOK
  <2>2. CASE dirLock = NoProcess
    <3>1. \A g \in Handle : pc[g] \notin Leased
      BY <1>a, <2>2, UnlockedMeansNoLease
    <3> QED BY <1>a, <1>b, <1>1, <2>0, <3>1
            DEF Reserve, MemoryAgrees, WriterStates, IsCurrent, TypeOK, Leased
  <2> QED BY <1>1, <2>1, <2>2 DEF Reserve
<1>2. ASSUME NEW h \in Handle, Replay(h) PROVE LogInv'
  <2>1. CASE Drop({h})
    BY <1>2, <1>c, <2>1 DEF Replay
  <2>2. CASE ~Drop({h})
    <3>1. /\ pc' = [pc EXCEPT ![h] = "replayed"] /\ mem' = [mem EXCEPT ![h] = Kinds(disk)]
          /\ UNCHANGED <<lease, batch, disk, torn, gen, acked>> /\ ~ExclusiveLocked
      BY <1>2, <2>2 DEF Replay
    <3>2. NoSequenceCollision' /\ AcknowledgedKept' /\ Kinds(disk)' = Kinds(disk)
      BY <1>b, <3>1
    <3>3. MemoryAgrees'
      BY <1>a, <3>1, <3>2 DEF MemoryAgrees, IsCurrent, TypeOK
    <3>4. WriterStates'
      BY <1>a, <3>1 DEF WriterStates, TypeOK, ExclusiveLocked
    <3> QED BY <3>2, <3>3, <3>4
  <2> QED BY <2>1, <2>2
<1>3. ASSUME NEW h \in Handle, Commit(h), ~Overtaking PROVE LogInv'
  <2>1. \A g \in Handle : pc[g] # "writing"
    <3> SUFFICES ASSUME NEW g \in Handle, pc[g] = "writing" PROVE FALSE
      OBVIOUS
    <3>1. pc[h] = "replayed" /\ pc'[h] = "open"
      BY <1>a, <1>3 DEF Commit, TypeOK
    <3>2. Owner[g] = Owner[h]
      BY <1>a, <3>1 DEF LeaseInv, OneProcessWrites
    <3> QED BY <1>3, <3>1, <3>2 DEF Overtaking
  <2>2. \A g \in Handle : pc[g] \in {"open", "writing"} => lease[g] <= gen
    BY <1>a DEF LeaseInv, LeaseGenerations
  <2>3. MemoryAgrees'
    BY <1>a, <1>b, <1>3, <2>1, <2>2 DEF Commit, MemoryAgrees, IsCurrent, TypeOK
  <2>4. WriterStates'
    BY <1>a, <1>3, <2>1 DEF Commit, WriterStates, TypeOK
  <2> QED BY <1>3, <1>b, <2>3, <2>4 DEF Commit
<1>4. ASSUME NEW h \in Handle, CheckAppend(h) PROVE LogInv'
  <2>1. PICK b \in Batches(mem[h]) : batch' = [batch EXCEPT ![h] = b]
    BY <1>4 DEF CheckAppend
  <2>2. Len(b) > 0
    BY <1>a, BatchesType DEF TypeOK
  <2>3. MemoryAgrees'
    BY <1>a, <1>b, <1>4 DEF CheckAppend, MemoryAgrees, IsCurrent, TypeOK
  <2>4. WriterStates'
    BY <1>a, <1>4, <2>1, <2>2 DEF CheckAppend, WriterStates, IsCurrent, TypeOK
  <2> QED BY <1>4, <1>b, <2>3, <2>4 DEF CheckAppend
<1>5. ASSUME NEW h \in Handle, Write(h), ~Overtaking PROVE LogInv'
  <2>1. IsCurrent(h) /\ mem[h] = Kinds(disk) /\ Len(batch[h]) > 0
    BY <1>a, <1>5 DEF Write, WriterStates, MemoryAgrees, IsCurrent
  <2>2. /\ NoSequenceCollision' /\ AcknowledgedKept' /\ disk' # disk
        /\ Kinds(disk)' = mem[h] \o batch[h]
    BY <1>a, <1>5, <2>1, DurableExtends DEF Write
  <2>3. \A g \in Handle : pc[g] \notin {"replayed", "viewing"}
    <3>1. Wrote(h) /\ pc[h] = "writing"
      BY <1>a, <1>5, <2>2 DEF Wrote, Write, TypeOK
    <3>2. \A g \in Handle : pc[g] = "replayed" => Owner[g] = Owner[h]
      BY <1>a, <3>1 DEF LeaseInv, OneProcessWrites
    <3> QED BY <1>5, <3>1, <3>2 DEF Overtaking
  <2>4. \A g \in Handle \ {h} : ~IsCurrent(g) /\ pc[g] # "titling"
    BY <1>a, <1>5, <2>1 DEF Write, LeaseInv, LeaseGenerations, IsCurrent, WriterStates
  <2>5. MemoryAgrees'
    BY <1>a, <1>5, <2>2, <2>3, <2>4 DEF Write, MemoryAgrees, IsCurrent, TypeOK
  <2>6. WriterStates'
    BY <1>a, <1>5, <2>4 DEF Write, WriterStates, TypeOK
  <2> QED BY <2>2, <2>5, <2>6
<1>6. ASSUME NEW h \in Handle, NEW k \in 0..MaxEvents, NEW part \in BOOLEAN,
             TornWrite(h, k, part)
      PROVE  LogInv'
  BY <1>a, <1>6 DEF TornWrite, TypeOK
<1>7. ASSUME NEW h \in Handle, RenameReplay(h) PROVE LogInv'
  BY <1>a, <1>b, <1>7 DEF RenameReplay, MemoryAgrees, WriterStates, IsCurrent, TypeOK
<1>8. ASSUME NEW h \in Handle, RenameUpgrade(h) PROVE LogInv'
  <2>1. CASE Drop({h})
    BY <1>8, <1>c, <2>1 DEF RenameUpgrade
  <2>2. CASE ~Drop({h})
    <3>1. Len(<<"plain">>) > 0
      OBVIOUS
    <3>2. /\ FileLockers = {h} /\ pc[h] = "viewing" /\ pc' = [pc EXCEPT ![h] = "titling"]
          /\ batch' = [batch EXCEPT ![h] = <<"plain">>]
          /\ UNCHANGED <<mem, lease, gen, disk, torn, acked>>
      BY <1>8, <2>2 DEF RenameUpgrade
    <3>3. \A g \in Handle \ {h} : pc[g] \in {"closed", "reserved"}
      BY <1>a, <3>2 DEF FileLockers, TypeOK, Pc
    <3>4. MemoryAgrees'
      BY <1>a, <1>b, <3>2 DEF MemoryAgrees, IsCurrent, TypeOK
    <3>5. WriterStates'
      BY <1>a, <3>1, <3>2, <3>3 DEF WriterStates, TypeOK
    <3> QED BY <1>b, <3>2, <3>4, <3>5
  <2> QED BY <2>1, <2>2
<1>9. ASSUME NEW h \in Handle, RenameWrite(h) PROVE LogInv'
  <2>1. mem[h] = Kinds(disk) /\ Len(batch[h]) > 0 /\ \A g \in Handle \ {h} : pc[g] \in {"closed", "reserved"}
    BY <1>a, <1>9 DEF RenameWrite, WriterStates, MemoryAgrees
  <2>2. NoSequenceCollision' /\ AcknowledgedKept'
    BY <1>a, <1>9, <2>1, DurableExtends DEF RenameWrite
  <2>3. \A g \in Handle : pc'[g] \in {"closed", "reserved"}
    BY <1>9, <2>1 DEF RenameWrite, Drop
  <2> QED BY <2>2, <2>3 DEF MemoryAgrees, WriterStates, IsCurrent
<1>10. ASSUME NEW h \in Handle, Close(h) PROVE LogInv'
  BY <1>10, <1>c DEF Close
<1>11. ASSUME ReleaseLease PROVE LogInv'
  BY <1>a, <1>b, <1>11 DEF ReleaseLease, MemoryAgrees, WriterStates, IsCurrent
<1>12. ASSUME NEW p \in Process, Crash(p) PROVE LogInv'
  BY <1>12, <1>c DEF Crash
<1>13. CASE UNCHANGED vars
  BY <1>a, <1>b, <1>13 DEF vars, MemoryAgrees, WriterStates, IsCurrent
<1> QED BY <1>1, <1>2, <1>3, <1>4, <1>5, <1>6, <1>7, <1>8, <1>9, <1>10, <1>11, <1>12, <1>13, <1>o
        DEF Next, Step, HandleStep

LEMMA SerialInit == Init => SerialInv
<1> SUFFICES ASSUME Init PROVE NoSequenceCollision /\ AcknowledgedKept /\ MemoryAgrees /\ WriterStates
  BY LeaseInit DEF SerialInv
<1>1. Len(disk) = 1 /\ disk[1] = Created /\ Created.seq = 0 /\ Created.kind = "plain"
  BY DEF Init, Created
<1> QED BY <1>1 DEF Init, NoSequenceCollision, Contiguous, AcknowledgedKept, MemoryAgrees,
                    WriterStates, IsCurrent

-----------------------------------------------------------------------------
(* The log reopens                                                         *)

\* What a count of positions says after more events: nothing is forgotten, and it
\* grows at most by the positions that may count.
LEMMA CountAfter ==
    ASSUME NEW ev \in Seq(Kind), NEW b \in Seq(Kind), NEW S, NEW k \in 1..Len(b),
           NEW T, IsFiniteSet(T), \A j \in 1..k : b[j] \in S => Len(ev) + j \in T
    PROVE  /\ CountUpTo(ev \o b, Len(ev) + k, S) \in Nat /\ CountUpTo(ev, Len(ev), S) \in Nat
           /\ CountUpTo(ev \o b, Len(ev) + k, S) >= CountUpTo(ev, Len(ev), S)
           /\ CountUpTo(ev \o b, Len(ev) + k, S) <= CountUpTo(ev, Len(ev), S) + Cardinality(T)
<1> DEFINE L == Len(ev)
           x == ev \o b
           Old == {j \in 1..L : ev[j] \in S}
           New == {j \in 1..(L + k) : x[j] \in S}
<1>1. /\ L \in Nat /\ Len(b) \in Nat /\ k \in Nat
      /\ \A i \in 1..L : x[i] = ev[i]
      /\ \A i \in 1..Len(b) : x[L + i] = b[i]
  BY ConcatIndex
<1> HIDE DEF L, x
<1>2. IsFiniteSet(1..L) /\ IsFiniteSet(1..(L + k))
  BY <1>1, FS_Interval
<1>3. IsFiniteSet(Old) /\ IsFiniteSet(New)
  BY <1>2, FS_Subset
<1>4. Old \subseteq New
  BY <1>1
<1>5. New \subseteq Old \union T
  <2> SUFFICES ASSUME NEW i \in New PROVE i \in Old \union T
    OBVIOUS
  <2>1. CASE i \in 1..L
    BY <1>1, <2>1
  <2>2. CASE i \notin 1..L
    <3>1. i - L \in 1..k /\ i - L \in 1..Len(b) /\ L + (i - L) = i
      BY <1>1, <2>2
    <3>2. b[i - L] \in S
      BY <1>1, <3>1
    <3> QED BY <3>1, <3>2 DEF L
  <2> QED BY <2>1, <2>2
<1>6. /\ Cardinality(Old) \in Nat /\ Cardinality(New) \in Nat /\ Cardinality(T) \in Nat
      /\ Cardinality(Old) <= Cardinality(New)
  BY <1>3, <1>4, FS_CardinalityType, FS_Subset
<1>7. Cardinality(New) <= Cardinality(Old) + Cardinality(T)
  <2>1. /\ IsFiniteSet(Old \union T)
        /\ Cardinality(Old \union T) = Cardinality(Old) + Cardinality(T) - Cardinality(Old \intersect T)
    BY <1>3, FS_Union
  <2>2. Cardinality(Old \intersect T) \in Nat
    BY <1>3, FS_Intersection, FS_CardinalityType
  <2>3. Cardinality(New) <= Cardinality(Old \union T) /\ Cardinality(Old \union T) \in Nat
    BY <1>5, <2>1, FS_Subset, FS_CardinalityType
  <2> HIDE DEF Old, New
  <2> QED BY <1>6, <2>1, <2>2, <2>3
<1>8. CountUpTo(ev, Len(ev), S) = Cardinality(Old) /\ CountUpTo(ev \o b, Len(ev) + k, S) = Cardinality(New)
  BY DEF CountUpTo, L, x
<1> HIDE DEF Old, New
<1> QED BY <1>6, <1>7, <1>8

\* Earlier counts stay what they were.
LEMMA CountBefore ==
    ASSUME NEW ev \in Seq(Kind), NEW b \in Seq(Kind), NEW S, NEW i \in 1..Len(ev)
    PROVE  CountUpTo(ev \o b, i, S) = CountUpTo(ev, i, S)
<1>1. Len(ev) \in Nat /\ \A j \in 1..Len(ev) : (ev \o b)[j] = ev[j]
  BY ConcatIndex
<1>2. {j \in 1..i : (ev \o b)[j] \in S} = {j \in 1..i : ev[j] \in S}
  BY <1>1
<1> QED BY <1>2 DEF CountUpTo

Removals == {"claim", "cancel"}

\* The inbox of a log that folds holds what was queued and not removed.
LEMMA FoldedCounts ==
    ASSUME NEW ev \in Seq(Kind), InboxFolds(ev)
    PROVE  /\ CountUpTo(ev, Len(ev), Removals) \in Nat /\ CountUpTo(ev, Len(ev), {"queue"}) \in Nat
           /\ CountUpTo(ev, Len(ev), Removals) <= CountUpTo(ev, Len(ev), {"queue"})
           /\ Pending(ev) = CountUpTo(ev, Len(ev), {"queue"}) - CountUpTo(ev, Len(ev), Removals)
<1>1. Len(ev) \in Nat /\ Len(ev) \in 0..Len(ev)
  BY LenProperties
<1>2. CountUpTo(ev, Len(ev), Removals) \in Nat /\ CountUpTo(ev, Len(ev), {"queue"}) \in Nat
  BY <1>1, CountType
<1>3. CASE Len(ev) = 0
  <2>1. \A S : {j \in 1..0 : ev[j] \in S} = {}
    OBVIOUS
  <2>2. \A S : CountUpTo(ev, 0, S) = 0
    BY <2>1, FS_EmptySet DEF CountUpTo
  <2> QED BY <1>2, <1>3, <2>2 DEF Pending, Removals
<1>4. CASE Len(ev) # 0
  <2>1. Len(ev) \in 1..Len(ev)
    BY <1>1, <1>4
  <2> QED BY <1>2, <2>1 DEF InboxFolds, Pending, Removals
<1> QED BY <1>3, <1>4

\* Which removals a batch carries: none, its first event, or as many as are pending.
LEMMA BatchRemovals ==
    ASSUME NEW ev \in Seq(Kind), InboxFolds(ev), NEW b \in Batches(ev), NEW k \in 1..Len(b)
    PROVE  \E T : /\ IsFiniteSet(T) /\ Cardinality(T) \in Nat
                  /\ CountUpTo(ev, Len(ev), Removals) + Cardinality(T) <= CountUpTo(ev, Len(ev), {"queue"})
                  /\ \A j \in 1..k : b[j] \in Removals => Len(ev) + j \in T
<1>0. Len(ev) \in Nat /\ b \in Seq(Kind) /\ Len(b) \in Nat /\ k \in Nat /\ k <= Len(b)
  BY BatchesType, LenProperties
<1> DEFINE c == CountUpTo(ev, Len(ev), Removals)
           q == CountUpTo(ev, Len(ev), {"queue"})
<1>1. c \in Nat /\ q \in Nat /\ c <= q /\ Pending(ev) = q - c
  BY FoldedCounts
<1> HIDE DEF c, q
<1>2. CASE b \in {<<"plain">>, <<"queue">>, <<"select", "message">>}
  <2>1. \A j \in 1..Len(b) : b[j] \notin Removals
    BY <1>2 DEF Removals
  <2>2. \A j \in 1..k : b[j] \notin Removals
    BY <1>0, <2>1
  <2>3. IsFiniteSet({}) /\ Cardinality({}) = 0
    BY FS_EmptySet
  <2> QED BY <1>1, <2>2, <2>3 DEF c, q
<1>3. CASE Pending(ev) > 0 /\ b = <<"claim", "message">>
  <2>1. IsFiniteSet({Len(ev) + 1}) /\ Cardinality({Len(ev) + 1}) = 1
    BY FS_Singleton
  <2>2. \A j \in 1..Len(b) : b[j] \in Removals => Len(ev) + j \in {Len(ev) + 1}
    BY <1>3 DEF Removals
  <2>3. c + 1 <= q
    BY <1>1, <1>3
  <2>4. \A j \in 1..k : b[j] \in Removals => Len(ev) + j \in {Len(ev) + 1}
    BY <1>0, <2>2
  <2> QED BY <2>1, <2>3, <2>4 DEF c, q
<1>4. CASE Pending(ev) > 0 /\ b = [i \in 1..Pending(ev) |-> "cancel"]
  <2>1. Len(b) = Pending(ev)
    <3>1. b \in [1..Pending(ev) -> Kind] /\ Pending(ev) \in Nat
      BY <1>1, <1>4 DEF Kind
    <3> QED BY <1>4, <3>1
  <2> DEFINE T == (Len(ev) + 1)..(Len(ev) + k)
  <2>2. IsFiniteSet(T) /\ Cardinality(T) = k
    <3>1. Len(ev) + 1 \in Int /\ Len(ev) + k \in Int /\ ~(Len(ev) + 1 > Len(ev) + k)
      BY <1>0
    <3>2. Cardinality(T) = Len(ev) + k - (Len(ev) + 1) + 1 /\ IsFiniteSet(T)
      BY <3>1, FS_Interval
    <3> QED BY <1>0, <3>2
  <2>3. \A j \in 1..k : Len(ev) + j \in T
    BY <1>0
  <2>4. c + k <= q
    BY <1>0, <1>1, <2>1
  <2> HIDE DEF T
  <2>5. Cardinality(T) \in Nat /\ c + Cardinality(T) <= q
    BY <1>0, <2>2, <2>4
  <2> QED BY <2>2, <2>3, <2>5 DEF c, q
<1> QED BY <1>2, <1>3, <1>4 DEF Batches

\* An append the writer checked against a log that folds leaves a log that folds.
LEMMA FoldsAfter ==
    ASSUME NEW ev \in Seq(Kind), InboxFolds(ev), NEW b \in Batches(ev)
    PROVE  InboxFolds(ev \o b)
<1>1. b \in Seq(Kind)
  BY BatchesType
<1>2. Len(ev) \in Nat /\ Len(b) \in Nat /\ Len(ev \o b) = Len(ev) + Len(b)
  BY <1>1, ConcatIndex
<1>3. ASSUME NEW i \in 1..Len(ev \o b)
      PROVE  CountUpTo(ev \o b, i, Removals) <= CountUpTo(ev \o b, i, {"queue"})
  <2>1. CASE i \in 1..Len(ev)
    <3>1. CountUpTo(ev, i, Removals) <= CountUpTo(ev, i, {"queue"})
      BY <2>1 DEF InboxFolds, Removals
    <3> QED BY <1>1, <2>1, <3>1, CountBefore
  <2>2. CASE i \notin 1..Len(ev)
    <3> DEFINE k == i - Len(ev)
    <3>1. k \in 1..Len(b) /\ i = Len(ev) + k
      BY <1>2, <2>2
    <3> HIDE DEF k
    <3>2. PICK T : /\ IsFiniteSet(T) /\ Cardinality(T) \in Nat
                   /\ CountUpTo(ev, Len(ev), Removals) + Cardinality(T) <= CountUpTo(ev, Len(ev), {"queue"})
                   /\ \A j \in 1..k : b[j] \in Removals => Len(ev) + j \in T
      BY <3>1, BatchRemovals
    <3>3. /\ CountUpTo(ev \o b, Len(ev) + k, Removals) \in Nat /\ CountUpTo(ev, Len(ev), Removals) \in Nat
          /\ CountUpTo(ev \o b, Len(ev) + k, Removals) <= CountUpTo(ev, Len(ev), Removals) + Cardinality(T)
      BY <1>1, <3>1, <3>2, CountAfter
    <3>4. /\ CountUpTo(ev \o b, Len(ev) + k, {"queue"}) \in Nat /\ CountUpTo(ev, Len(ev), {"queue"}) \in Nat
          /\ CountUpTo(ev \o b, Len(ev) + k, {"queue"}) >= CountUpTo(ev, Len(ev), {"queue"})
      <4> DEFINE U == (Len(ev) + 1)..(Len(ev) + k)
      <4>1. IsFiniteSet(U)
        BY <1>2, <3>1, FS_Interval
      <4>2. \A j \in 1..k : Len(ev) + j \in U
        BY <1>2, <3>1
      <4> HIDE DEF U
      <4> QED BY <1>1, <3>1, <4>1, <4>2, CountAfter
    <3> QED BY <3>1, <3>2, <3>3, <3>4
  <2> QED BY <2>1, <2>2
<1> QED BY <1>3 DEF InboxFolds, Removals

\* ... and one whose selections are all followed by their message.
LEMMA PairingAfter ==
    ASSUME NEW ev \in Seq(Kind), PairingSettled(ev), NEW b \in Batches(ev)
    PROVE  PairingSettled(ev \o b)
<1> DEFINE x == ev \o b
<1>1. b \in Seq(Kind)
  BY BatchesType
<1>2. /\ Len(ev) \in Nat /\ Len(b) \in Nat /\ Len(x) = Len(ev) + Len(b)
      /\ \A i \in 1..Len(ev) : x[i] = ev[i]
      /\ \A i \in 1..Len(b) : x[Len(ev) + i] = b[i]
  BY <1>1, ConcatIndex
<1> HIDE DEF x
<1>3. \A j \in 1..Len(b) : b[j] = "select" => j < Len(b) /\ b[j + 1] = "message"
  <2>1. CASE b = <<"plain">> \/ b = <<"queue">> \/ b = <<"claim", "message">>
    BY <2>1
  <2>2. CASE b = <<"select", "message">>
    BY <2>2
  <2>3. CASE b = [i \in 1..Pending(ev) |-> "cancel"] /\ Pending(ev) > 0
    <3>1. Len(b) = Pending(ev)
      <4>1. Pending(ev) \in Int
        BY <1>2, CountType DEF Pending
      <4>2. b \in [1..Pending(ev) -> Kind]
        BY <2>3 DEF Kind
      <4> QED BY <2>3, <4>1, <4>2
    <3> QED BY <2>3, <3>1
  <2> QED BY <2>1, <2>2, <2>3 DEF Batches
<1>4. ASSUME NEW i \in 1..Len(x), x[i] = "select"
      PROVE  i < Len(x) /\ x[i + 1] = "message"
  <2>1. CASE i \in 1..Len(ev)
    <3>1. i < Len(ev) /\ ev[i + 1] = "message"
      BY <1>2, <1>4, <2>1 DEF PairingSettled
    <3>2. i + 1 \in 1..Len(ev)
      BY <1>2, <3>1
    <3> QED BY <1>2, <3>1, <3>2
  <2>2. CASE i \notin 1..Len(ev)
    <3> DEFINE j == i - Len(ev)
    <3>1. j \in 1..Len(b) /\ i = Len(ev) + j
      BY <1>2, <2>2
    <3> HIDE DEF j
    <3>2. j < Len(b) /\ b[j + 1] = "message"
      BY <1>2, <1>3, <1>4, <3>1
    <3>3. j + 1 \in 1..Len(b) /\ i + 1 = Len(ev) + (j + 1)
      BY <1>2, <3>1, <3>2
    <3>4. x[i + 1] = "message"
      BY <1>2, <3>2, <3>3
    <3> QED BY <1>2, <3>1, <3>2, <3>4
  <2> QED BY <2>1, <2>2
<1> QED BY <1>4 DEF PairingSettled, x

\* What a handle is about to write was checked against what it remembers, and fits.
BatchesFit ==
    \A h \in Handle : pc[h] \in {"writing", "titling"} =>
        batch[h] \in Batches(mem[h]) /\ Len(mem[h]) + Len(batch[h]) <= MaxEvents

\* The reader's rules for the whole log, of the events of the file.
LogFolds ==
    LET ev == Kinds(disk) IN Len(disk) <= MaxEvents /\ InboxFolds(ev) /\ PairingSettled(ev)

\* Appending a checked batch to the log it was checked against.
LEMMA DurableFolds ==
    ASSUME NEW h \in Handle, SerialInv, SerialInv', BatchesFit, LogFolds,
           pc[h] \in {"writing", "titling"}, Durable(h)
    PROVE  LogFolds'
<1>1. mem[h] = Kinds(disk) /\ Len(batch[h]) > 0
  BY DEF SerialInv, MemoryAgrees, WriterStates, IsCurrent
<1>2. TypeOK /\ NoSequenceCollision /\ AcknowledgedKept /\ TypeOK' /\ NoSequenceCollision'
  BY DEF SerialInv, LeaseInv
<1>3. Kinds(disk') = mem[h] \o batch[h]
  <2>1. Kinds(disk)' = mem[h] \o batch[h]
    BY <1>1, <1>2, DurableExtends
  <2> QED BY <2>1 DEF Kinds
<1>4. mem[h] \in Seq(Kind) /\ batch[h] \in Seq(Kind)
  BY <1>2 DEF TypeOK
<1>5. batch[h] \in Batches(mem[h]) /\ Len(mem[h]) + Len(batch[h]) <= MaxEvents
  BY DEF BatchesFit
<1>6. InboxFolds(mem[h]) /\ PairingSettled(mem[h])
  BY <1>1 DEF LogFolds
<1>7. InboxFolds(Kinds(disk')) /\ PairingSettled(Kinds(disk'))
  BY <1>3, <1>4, <1>5, <1>6, FoldsAfter, PairingAfter
<1>8. Len(disk') <= MaxEvents
  <2>1. disk' \in Seq(Line) /\ \A i \in 1..Len(disk') : disk'[i].kind # "joined"
    BY <1>2 DEF TypeOK, NoSequenceCollision, Contiguous
  <2>2. Len(disk') = Len(mem[h] \o batch[h])
    BY <1>3, <2>1, KindsType
  <2>3. Len(mem[h] \o batch[h]) = Len(mem[h]) + Len(batch[h])
    BY <1>4, ConcatIndex
  <2> QED BY <1>5, <2>2, <2>3
<1>9. Kinds(disk)' = Kinds(disk')
  BY DEF Kinds
<1> QED BY <1>7, <1>8, <1>9 DEF LogFolds

\* Every step keeps the log within the reader's rules, and the batches within the log.
LEMMA ReopenStep ==
    ASSUME tears' = 0, SerialInv, SerialInv', LogFolds, BatchesFit, [Next]_vars
    PROVE  LogFolds' /\ BatchesFit'
<1>0. TypeOK /\ tears \in Nat
  BY DEF SerialInv, LeaseInv, TypeOK
<1>a. ASSUME UNCHANGED disk PROVE LogFolds'
  BY <1>a DEF LogFolds, Kinds
<1>b. ASSUME \A h \in Handle : pc'[h] \in {"writing", "titling"} =>
                pc[h] = pc'[h] /\ mem'[h] = mem[h] /\ batch'[h] = batch[h]
      PROVE  BatchesFit'
  <2> SUFFICES ASSUME NEW h \in Handle, pc'[h] \in {"writing", "titling"}
               PROVE  batch'[h] \in Batches(mem'[h]) /\ Len(mem'[h]) + Len(batch'[h]) <= MaxEvents
    BY DEF BatchesFit, Batches, Pending, CountUpTo
  <2>1. pc[h] = pc'[h] /\ mem'[h] = mem[h] /\ batch'[h] = batch[h]
    BY <1>b
  <2> QED BY <2>1 DEF BatchesFit
<1>c. ASSUME NEW S, Drop(S), UNCHANGED disk PROVE LogFolds' /\ BatchesFit'
  BY <1>a, <1>b, <1>c DEF Drop
<1>d. ASSUME NEW h \in Handle, NEW b \in Batches(mem[h]), Len(mem[h]) + Len(b) <= MaxEvents, mem' = mem,
             batch' = [batch EXCEPT ![h] = b], \A g \in Handle \ {h} : pc'[g] = pc[g]
      PROVE  BatchesFit'
  <2> SUFFICES ASSUME NEW g \in Handle, pc'[g] \in {"writing", "titling"}
               PROVE  batch'[g] \in Batches(mem'[g]) /\ Len(mem'[g]) + Len(batch'[g]) <= MaxEvents
    BY DEF BatchesFit, Batches, Pending, CountUpTo
  <2>0. mem'[g] = mem[g]
    BY <1>d
  <2>1. CASE g = h
    <3>1. batch'[h] = b
      BY <1>0, <1>d DEF TypeOK
    <3> QED BY <1>d, <2>0, <2>1, <3>1
  <2>2. CASE g # h
    <3>1. batch'[g] = batch[g] /\ pc'[g] = pc[g]
      BY <1>0, <1>d, <2>2 DEF TypeOK
    <3> QED BY <2>0, <3>1 DEF BatchesFit
  <2> QED BY <2>1, <2>2
<1>1. ASSUME NEW h \in Handle, Reserve(h) \/ Commit(h) PROVE LogFolds' /\ BatchesFit'
  <2>1. UNCHANGED <<disk, mem, batch>> /\ \E w \in {"reserved", "open"} : pc' = [pc EXCEPT ![h] = w]
    BY <1>1 DEF Reserve, Commit
  <2>2. \A g \in Handle : pc'[g] \in {"writing", "titling"} => pc[g] = pc'[g]
    BY <1>0, <2>1 DEF TypeOK
  <2> QED BY <1>a, <1>b, <2>1, <2>2
<1>2. ASSUME NEW h \in Handle, Replay(h) \/ RenameReplay(h) PROVE LogFolds' /\ BatchesFit'
  <2>1. CASE Drop({h}) /\ UNCHANGED disk
    BY <1>c, <2>1
  <2>2. CASE /\ \E w \in {"replayed", "viewing"} : pc' = [pc EXCEPT ![h] = w]
             /\ mem' = [mem EXCEPT ![h] = Kinds(disk)] /\ UNCHANGED <<disk, batch>>
    <3>1. \A g \in Handle : pc'[g] \in {"writing", "titling"} => pc[g] = pc'[g] /\ mem'[g] = mem[g]
      BY <1>0, <2>2 DEF TypeOK
    <3> QED BY <1>a, <1>b, <2>2, <3>1
  <2> QED BY <1>2, <2>1, <2>2 DEF Replay, RenameReplay
<1>3. ASSUME NEW h \in Handle, CheckAppend(h) PROVE LogFolds' /\ BatchesFit'
  <2>1. PICK b \in Batches(mem[h]) : Len(mem[h]) + Len(b) <= MaxEvents /\ batch' = [batch EXCEPT ![h] = b]
    BY <1>3 DEF CheckAppend
  <2>2. UNCHANGED <<disk, mem>> /\ \A g \in Handle \ {h} : pc'[g] = pc[g]
    BY <1>3 DEF CheckAppend
  <2> QED BY <1>a, <1>d, <2>1, <2>2
<1>4. ASSUME NEW h \in Handle, Write(h) PROVE LogFolds' /\ BatchesFit'
  <2>1. pc[h] = "writing" /\ Durable(h)
    BY <1>4 DEF Write
  <2>2. \A g \in Handle : pc'[g] \in {"writing", "titling"} => pc[g] = pc'[g] /\ mem'[g] = mem[g] /\ batch'[g] = batch[g]
    BY <1>0, <1>4 DEF Write, TypeOK
  <2> QED BY <1>b, <2>1, <2>2, DurableFolds
<1>5. ASSUME NEW h \in Handle, NEW k \in 0..MaxEvents, NEW part \in BOOLEAN, TornWrite(h, k, part)
      PROVE  FALSE
  BY <1>0, <1>5 DEF TornWrite
<1>6. ASSUME NEW h \in Handle, RenameUpgrade(h) PROVE LogFolds' /\ BatchesFit'
  <2>1. CASE Drop({h}) /\ UNCHANGED disk
    BY <1>c, <2>1
  <2>2. CASE ~(Drop({h}) /\ UNCHANGED disk)
    <3>1. /\ Len(mem[h]) < MaxEvents /\ pc' = [pc EXCEPT ![h] = "titling"]
          /\ batch' = [batch EXCEPT ![h] = <<"plain">>] /\ UNCHANGED <<disk, mem>>
      BY <1>6, <2>2 DEF RenameUpgrade
    <3>2. <<"plain">> \in Batches(mem[h]) /\ Len(<<"plain">>) = 1
      BY DEF Batches
    <3>3. Len(mem[h]) \in Nat /\ MaxEvents \in Nat
      BY <1>0, LenProperties, BoundAssumption DEF TypeOK
    <3>4. Len(mem[h]) + Len(<<"plain">>) <= MaxEvents
      BY <3>1, <3>2, <3>3
    <3>5. \A g \in Handle \ {h} : pc'[g] = pc[g]
      BY <1>0, <3>1 DEF TypeOK
    <3>6. BatchesFit'
      <4> DEFINE b == <<"plain">>
      <4>1. b \in Batches(mem[h]) /\ Len(mem[h]) + Len(b) <= MaxEvents /\ batch' = [batch EXCEPT ![h] = b] /\ mem' = mem
        BY <3>1, <3>2, <3>4
      <4> HIDE DEF b
      <4> QED BY <1>d, <3>5, <4>1
    <3> QED BY <1>a, <3>1, <3>6
  <2> QED BY <2>1, <2>2
<1>7. ASSUME NEW h \in Handle, RenameWrite(h) PROVE LogFolds' /\ BatchesFit'
  <2>1. pc[h] = "titling" /\ Durable(h) /\ Drop({h})
    BY <1>7 DEF RenameWrite
  <2> QED BY <1>b, <2>1, DurableFolds DEF Drop
<1>8. ASSUME NEW h \in Handle, Close(h) PROVE LogFolds' /\ BatchesFit'
  BY <1>8, <1>c DEF Close
<1>9. ASSUME NEW p \in Process, Crash(p) PROVE LogFolds' /\ BatchesFit'
  BY <1>9, <1>c DEF Crash
<1>10. CASE ReleaseLease \/ UNCHANGED vars
  BY <1>10, <1>a, <1>b DEF ReleaseLease, vars
<1> QED BY <1>1, <1>2, <1>3, <1>4, <1>5, <1>6, <1>7, <1>8, <1>9, <1>10 DEF Next, Step, HandleStep

\* The log of a session that was just created folds.
LEMMA ReopenInit == Init => LogFolds /\ BatchesFit
<1> SUFFICES ASSUME Init PROVE LogFolds /\ BatchesFit
  OBVIOUS
<1>1. Len(disk) = 1 /\ disk[1] = Created /\ Created.kind = "plain"
  BY DEF Init, Created
<1>2. Kinds(disk) = [i \in 1..1 |-> disk[i].kind]
  BY <1>1 DEF Kinds
<1> DEFINE ev == Kinds(disk)
<1>3. Len(ev) = 1 /\ ev[1] = "plain"
  <2>1. ev \in [1..1 -> {"plain"}]
    BY <1>1, <1>2
  <2> HIDE DEF ev
  <2> QED BY <2>1
<1> HIDE DEF ev
<1>4. {j \in 1..1 : ev[j] \in Removals} = {} /\ {j \in 1..1 : ev[j] \in {"queue"}} = {}
  BY <1>3 DEF Removals
<1>5. InboxFolds(ev)
  BY <1>3, <1>4, FS_EmptySet DEF InboxFolds, CountUpTo, Removals
<1>6. PairingSettled(ev)
  BY <1>3 DEF PairingSettled
<1>7. Len(disk) <= MaxEvents
  BY <1>1, BoundAssumption
<1> QED BY <1>5, <1>6, <1>7 DEF LogFolds, BatchesFit, Init, ev

\* Until something is cut short or overtaken, the log folds and every writer agrees with it.
CauseInv == LeaseInv /\ (tears > 0 \/ raced \/ (SerialInv /\ LogFolds /\ BatchesFit))

LEMMA CauseStep ==
    ASSUME CauseInv, [Next]_vars
    PROVE  CauseInv'
<1>1. LeaseInv /\ LeaseInv' /\ tears \in Nat /\ tears' \in Nat
  BY LeaseStep DEF CauseInv, LeaseInv, TypeOK
<1>2. tears' >= tears
  <2>1. tears' = tears \/ tears' = tears + 1
    BY DEF Next, Step, HandleStep, Reserve, Replay, Commit, CheckAppend, Write, TornWrite,
           RenameReplay, RenameUpgrade, RenameWrite, Close, ReleaseLease, Crash, vars
  <2> QED BY <1>1, <2>1
<1>3. raced => raced'
  BY DEF Next, vars
<1>4. ASSUME ~(tears' > 0), ~raced' PROVE (SerialInv /\ LogFolds /\ BatchesFit)'
  <2>1. tears' = 0 /\ ~(tears > 0) /\ ~raced
    BY <1>1, <1>2, <1>3, <1>4
  <2>2. SerialInv /\ LogFolds /\ BatchesFit
    BY <2>1 DEF CauseInv
  <2>3. SerialInv'
    BY <1>4, <2>1, <2>2, SerialStep
  <2> QED BY <2>1, <2>2, <2>3, ReopenStep
<1> QED BY <1>1, <1>4 DEF CauseInv

\* For any number of handles, processes, takeovers, renames and crashes, Session::open
\* refuses the log only after a write was cut short, or after a handle wrote or committed
\* past another one in one of the three ways the lease leaves open.
THEOREM OnlyRacesDamage == Spec => []DamageHasACause
<1>1. Init => CauseInv
  BY LeaseInit, SerialInit, ReopenInit DEF CauseInv
<1>2. CauseInv /\ [Next]_vars => CauseInv'
  BY CauseStep
<1>3. CauseInv => DamageHasACause
  BY DEF CauseInv, SerialInv, NoSequenceCollision, LogFolds, LogReopens, Replays, DamageHasACause
<1> QED BY <1>1, <1>2, <1>3, PTL DEF Spec
=============================================================================
