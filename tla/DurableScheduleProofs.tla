----------------------- MODULE DurableScheduleProofs ------------------------
(***************************************************************************)
(* What holds of the durable reminders of any set of schedules, whatever   *)
(* their rules, the clock, the failing appends and the ends of the process.*)
(***************************************************************************)
EXTENDS DurableSchedule, TLAPS, FiniteSetTheorems

\* Which operation is at which step, and what it has established there.  The
\* clock does not move during an operation, so a record that was just moved is
\* still ahead of it.
OpInv ==
    /\ op.pc = "idle" => op.kind = "none"
    /\ op.kind \in {"create", "delete", "reschedule", "dispatch", "late"} => op.id \in Schedule
    /\ op.kind = "create" => op.rule \in Rules /\ (op.pc # "start" => op.id \notin created)
    /\ op.kind \in {"dispatch", "late"} => op.pc \in {"append", "record"} /\ op.seen \in Record
    /\ op.pc = "append" => op.kind \in {"create", "delete", "reschedule", "dispatch", "late"}
    /\ op.pc = "record" => op.kind = "dispatch"
    /\ op.pc \in {"retire", "retired"} => op.kind = "rearm"
    /\ op.pc = "retired" => op.id \in Schedule
    /\ op.pc = "cancel" /\ op.kind = "delete" => op.id \in deleted
    /\ op.pc = "cancel" /\ op.kind # "delete" => op.kind = "reschedule" /\ Active(op.id) /\ rec[op.id].at > now

\* Ids are used once: what was deleted is gone for good.
IdInv ==
    /\ \A s \in Schedule : Active(s) => s \in created
    /\ \A s \in deleted : ~Active(s)
    /\ silenced \subseteq deleted

\* What a timer has read.  A dispatch runs on the record its timer waits for;
\* an aborted timer waited for an occurrence its record has left behind.
Behind(s, seen) == seen.at <= now /\ (Active(s) => seen.at < rec[s].at)
TimerInv ==
    /\ \A s \in Schedule : timer[s].pc \in {"wait", "due"} => timer[s].seen \in Record
    /\ \A s \in Schedule : timer[s].pc = "due" => timer[s].seen.at <= now
    /\ op.kind = "dispatch" => timer[op.id].pc = "due" /\ timer[op.id].seen = op.seen
    /\ \A l \in late : Behind(l.id, l.seen)
    /\ op.kind = "late" => Behind(op.id, op.seen)

\* The reminders of a schedule lie before the occurrence it waits for, except
\* the one for that very occurrence: recorded, and then the record is unarmed,
\* or not recorded, and then it is armed.
Precedes(m) ==
    LET s == sent[m].id
    IN Active(s) => \/ sent[m].at < rec[s].at
                    \/ sent[m].at = rec[s].at /\ (m \in dispatched <=> s \notin armed)
SentInv ==
    \A m \in DOMAIN sent :
        /\ sent[m].id \in created /\ sent[m].at <= sent[m].on /\ sent[m].on <= now
        /\ Precedes(m)

\* The reminder of the dispatch that is about to record it.
Own(m) == op.pc = "record" /\ m = Len(sent)
OwnInv ==
    op.pc = "record" => /\ Len(sent) \in Unrecorded /\ sent[Len(sent)].id = op.id
                        /\ rec[op.id] = op.seen

\* A reminder without its Dispatch event is seen by the recovery that every
\* operation begins with, before the schedule gets a timer again.
UnrecordedInv ==
    \A m \in Unrecorded :
        /\ op.pc \in {"idle", "recover"} \/ op.kind \in {"dispatch", "late"}
        /\ Own(m) \/ timer[sent[m].id].pc \in {"none", "over"}

ScheduleInv ==
    /\ ScheduleTypeOK /\ OpInv /\ IdInv /\ TimerInv /\ SentInv /\ OwnInv /\ UnrecordedInv
    /\ OccurrencesAdvance /\ SilencedStaysSilent


-----------------------------------------------------------------------------
(* Records and what a Dispatch event leaves of them                         *)

\* A recurring schedule leaves the occurrence it accepted behind, and by no
\* more than one interval.
LEMMA AlignedAhead ==
    ASSUME NEW d \in Nat, NEW e \in Nat \ {0}
    PROVE  /\ (d \div e + 1) * e > d
           /\ (d \div e + 1) * e <= d + e
           /\ (d \div e + 1) * e \in Nat
  <1>1. PICK q \in Nat : q = d \div e
    BY SMT
  <1>2. q * e <= d /\ d < q * e + e
    BY <1>1, SMT
  <1>3. (q + 1) * e = q * e + e /\ q * e \in Nat
    BY SMT
  <1> QED
    BY <1>1, <1>2, <1>3, SMT

\* A record is not the absent record.
LEMMA NoRecordOutside == NoRecord \notin Record
  BY ScheduleAssumption DEF NoRecord, Record, Rule

\* What a Dispatch event may do to a record: end it, keep it unarmed with the
\* occurrence it had, or move it past the accepted time.
LEMMA DispatchMovesRecord ==
    ASSUME NEW r \in Record, NEW accepted \in 0..MaxTime, r.at <= accepted
    PROVE  LET next == AfterDispatch(r, accepted)
           IN /\ next \in Record \union {NoRecord}
              /\ \/ next = NoRecord
                 \/ next = r /\ ~Rearms(next)
                 \/ next \in Record /\ next.at > accepted /\ Rearms(next)
  <1> DEFINE next == AfterDispatch(r, accepted)
  <1>1. /\ r.rule \in Rules /\ r.at \in Nat /\ r.expires \in Time
        /\ r = [rule |-> r.rule, at |-> r.at, expires |-> r.expires]
    BY ScheduleAssumption DEF Record, Time
  <1>2. \A t \in Time : [r EXCEPT !.at = t] \in Record /\ [r EXCEPT !.at = t].at = t
                        /\ [r EXCEPT !.at = t].rule = r.rule
    BY DEF Record
  <1>3. CASE r.rule = "every"
    <2> DEFINE d == accepted - r.at
               step == (d \div Every + 1) * Every
    <2>1. d \in Nat /\ accepted = r.at + d /\ Every \in Nat \ {0}
      BY <1>1, ScheduleAssumption DEF Time
    <2> HIDE DEF d
    <2>2. step > d /\ step <= d + Every /\ step \in Nat
      BY <2>1, AlignedAhead
    <2> HIDE DEF step
    <2>3. r.at + step \in Time /\ r.at + step > accepted
      BY <1>1, <2>1, <2>2, ScheduleAssumption DEF Time
    <2>4. NextAligned(r, accepted) = r.at + step
      BY DEF NextAligned, step, d
    <2>5. next = [r EXCEPT !.at = r.at + step]
      BY <1>3, <2>4 DEF AfterDispatch
    <2> QED
      BY <1>2, <1>3, <2>3, <2>5 DEF Rearms
  <1>4. CASE r.rule = "cron" /\ accepted < r.expires
    <2>1. accepted + 1 \in Time /\ accepted + 1 > accepted
      BY ScheduleAssumption DEF Time
    <2>2. next = [r EXCEPT !.at = accepted + 1]
      BY <1>4 DEF AfterDispatch
    <2> QED
      BY <1>2, <1>4, <2>1, <2>2 DEF Rearms
  <1>5. CASE r.rule = "wakeup" /\ accepted < r.expires
    BY <1>5 DEF AfterDispatch, Rearms
  <1>6. CASE \/ r.rule \notin {"every", "cron", "wakeup"}
             \/ r.rule \in {"cron", "wakeup"} /\ ~(accepted < r.expires)
    BY <1>6 DEF AfterDispatch
  <1> QED
    BY <1>3, <1>4, <1>5, <1>6

\* The record of an active schedule, whatever its rule.
LEMMA ActiveRecord ==
    ASSUME ScheduleTypeOK, NEW s \in Schedule
    PROVE  /\ Active(s) <=> rec[s] \in Record
           /\ Active(s) => rec[s].at \in Nat /\ rec[s].at \in Time
  BY NoRecordOutside, ScheduleAssumption DEF ScheduleTypeOK, Active, Record, Time

\* A reminder names a schedule and carries times.
LEMMA SentTyped ==
    ASSUME ScheduleTypeOK, NEW m \in DOMAIN sent
    PROVE  /\ sent[m].id \in Schedule /\ sent[m].at \in Nat /\ sent[m].on \in Nat
           /\ sent[m].at \in Time /\ sent[m].on \in Time
           /\ m \in Nat \ {0} /\ m <= Len(sent) /\ Len(sent) \in Nat
  <1>1. sent \in Seq(Reminder)
    BY DEF ScheduleTypeOK
  <1>2. /\ sent[m] \in Reminder
        /\ DOMAIN sent = 1..Len(sent) /\ Len(sent) \in Nat
    BY <1>1
  <1>3. \A t \in Time : t \in Nat
    BY ScheduleAssumption DEF Time
  <1>4. m \in Nat \ {0} /\ m <= Len(sent)
    BY <1>2
  <1> QED
    BY <1>2, <1>3, <1>4 DEF Reminder

\* An Unrecorded reminder is one the projection accepts.
LEMMA AcceptedWhenUnrecorded ==
    ASSUME ScheduleInv, NEW m \in Unrecorded
    PROVE  MayRecord(m)
  <1>1. m \in DOMAIN sent /\ m \notin dispatched /\ Active(sent[m].id) /\ rec[sent[m].id].at = sent[m].at
    BY DEF Unrecorded
  <1>2. ScheduleTypeOK /\ Precedes(m)
    BY <1>1 DEF ScheduleInv, SentInv
  <1>3. sent[m].at \in Nat
    BY <1>1, <1>2, SentTyped
  <1> QED
    BY <1>1, <1>2, <1>3 DEF Precedes, MayRecord

\* What recording an accepted reminder changes.
LEMMA RecordingMoves ==
    ASSUME ScheduleInv, NEW m \in Unrecorded, RecordDispatch(m)
    PROVE  LET s == sent[m].id
           IN /\ s \in armed /\ s \in Schedule
              /\ dispatched' = dispatched \union {m}
              /\ rec' \in [Schedule -> Record \union {NoRecord}]
              /\ \A k \in Schedule : k # s => rec'[k] = rec[k]
              /\ \/ rec'[s] = NoRecord /\ armed' = armed \ {s}
                 \/ rec'[s] = rec[s] /\ armed' = armed \ {s}
                 \/ rec'[s] \in Record /\ rec'[s].at > rec[s].at /\ armed' = armed
  <1> DEFINE s == sent[m].id
             accepted == IF sent[m].on < rec[s].at THEN rec[s].at ELSE sent[m].on
             next == AfterDispatch(rec[s], accepted)
  <1>1. m \in DOMAIN sent /\ Active(s) /\ rec[s].at = sent[m].at /\ ScheduleTypeOK
    BY DEF Unrecorded, ScheduleInv
  <1>2. s \in Schedule /\ sent[m].on \in Nat /\ sent[m].at \in Nat
    BY <1>1, SentTyped
  <1>3. sent[m].at <= sent[m].on /\ sent[m].on <= now /\ now \in 0..MaxTime
    BY <1>1 DEF ScheduleInv, SentInv, ScheduleTypeOK
  <1>4. rec[s] \in Record /\ rec[s].at \in Nat
    BY <1>1, <1>2, ActiveRecord
  <1>5. accepted \in 0..MaxTime /\ rec[s].at <= accepted
    BY <1>1, <1>2, <1>3, ScheduleAssumption
  <1> HIDE DEF accepted
  <1>6. /\ next \in Record \union {NoRecord}
        /\ \/ next = NoRecord
           \/ next = rec[s] /\ ~Rearms(next)
           \/ next \in Record /\ next.at > accepted /\ Rearms(next)
    BY <1>4, <1>5, DispatchMovesRecord
  <1>7. s \in armed
    BY AcceptedWhenUnrecorded DEF MayRecord
  <1>8. /\ rec' = [rec EXCEPT ![s] = next]
        /\ armed' = IF next # NoRecord /\ Rearms(next) THEN armed ELSE armed \ {s}
        /\ dispatched' = dispatched \union {m}
    BY DEF RecordDispatch, next, accepted
  <1>9. rec \in [Schedule -> Record \union {NoRecord}]
    BY <1>1 DEF ScheduleTypeOK
  <1> HIDE DEF next
  <1>10. rec' \in [Schedule -> Record \union {NoRecord}] /\ rec'[s] = next
    BY <1>2, <1>6, <1>8, <1>9
  <1>11. \A k \in Schedule : k # s => rec'[k] = rec[k]
    BY <1>8, <1>9
  <1>12. \/ next = NoRecord /\ armed' = armed \ {s}
         \/ next = rec[s] /\ armed' = armed \ {s}
         \/ next \in Record /\ next.at > rec[s].at /\ armed' = armed
    <2>1. CASE next = NoRecord
      BY <2>1, <1>8
    <2>2. CASE next = rec[s] /\ ~Rearms(next)
      BY <2>2, <1>8
    <2>3. CASE next \in Record /\ next.at > accepted /\ Rearms(next)
      <3>1. next.at \in Nat
        BY <2>3, ScheduleAssumption DEF Record, Time
      <3> QED
        BY <2>3, <3>1, <1>4, <1>5, <1>8, NoRecordOutside
    <2> QED
      BY <1>6, <2>1, <2>2, <2>3
  <1> QED
    BY <1>2, <1>7, <1>8, <1>10, <1>11, <1>12

-----------------------------------------------------------------------------
(* Typing                                                                   *)

\* The inbox stays within its capacity: reminders and other messages share it.
LEMMA InboxBounded ==
    ASSUME ScheduleTypeOK, Next
    PROVE  other' \in 0..MaxPending /\ other' + Cardinality(pending') <= MaxPending
  <1>1. /\ pending \subseteq 1..Len(sent) /\ Len(sent) \in Nat /\ sent \in Seq(Reminder)
        /\ other \in 0..MaxPending /\ other + Cardinality(pending) <= MaxPending /\ MaxPending \in Nat
    BY ScheduleAssumption DEF ScheduleTypeOK
  <1>2. IsFiniteSet(pending) /\ Cardinality(pending) \in Nat
    <2>1. IsFiniteSet(1..Len(sent))
      BY <1>1, FS_Interval
    <2> QED
      BY <1>1, <2>1, FS_Subset, FS_CardinalityType
  <1>3. ASSUME other' = other, pending' \subseteq pending
        PROVE  other' \in 0..MaxPending /\ other' + Cardinality(pending') <= MaxPending
    <2>1. Cardinality(pending') <= Cardinality(pending) /\ Cardinality(pending') \in Nat
      BY <1>2, <1>3, FS_Subset, FS_CardinalityType
    <2> QED
      BY <1>1, <1>2, <1>3, <2>1
  <1>4. ASSUME Room, other' = other, pending' = pending \union {Len(sent) + 1}
        PROVE  other' \in 0..MaxPending /\ other' + Cardinality(pending') <= MaxPending
    <2>1. Len(sent) + 1 \notin pending
      BY <1>1
    <2>2. Cardinality(pending') = Cardinality(pending) + 1
      BY <1>2, <1>4, <2>1, FS_AddElement
    <2> QED
      BY <1>1, <1>2, <1>4, <2>2 DEF Room
  <1>5. ASSUME OtherInput
        PROVE  other' \in 0..MaxPending /\ other' + Cardinality(pending') <= MaxPending
    <2>1. /\ pending' = pending
          /\ \/ other' = other + 1 /\ other + Cardinality(pending) < MaxPending
             \/ other' = other - 1 /\ other > 0
      BY <1>5, Zenon DEF OtherInput, Room
    <2> QED
      BY <1>1, <1>2, <2>1
  <1>6. CASE Enqueue
    <2>1. other' = other
      BY <1>6 DEF Enqueue
    <2>2. pending' = pending \/ (Room /\ pending' = pending \union {Len(sent) + 1})
      BY <1>6 DEF Enqueue
    <2> QED
      BY <1>3, <1>4, <2>1, <2>2
  <1>7. CASE Next /\ ~Enqueue /\ ~OtherInput
    <2>1. other' = other /\ pending' \subseteq pending
      BY <1>7 DEF Next, OpStep, TimerStep, Recover, Reconcile, AppendCreate, AppendDelete, AppendReschedule,
                  CancelRuntime, StartTimer, Retire, CancelRetired, RecordOwn, Abandon, BeginList, Tick,
                  Crash, TimerLooks, TimerDue, BeginDispatch, BeginDelete, BeginReschedule, BeginCreate,
                  BeginLate, Claim
    <2> QED
      BY <1>3, <2>1
  <1> QED
    BY <1>5, <1>6, <1>7

\* The operation that holds the lock stays one.
LEMMA OperationTyped ==
    ASSUME ScheduleInv, Next
    PROVE  op' \in Operation
  <1>1. op \in Operation /\ OpInv /\ ScheduleTypeOK
    BY DEF ScheduleInv, ScheduleTypeOK
  <1>2. Free \in Operation /\ Starting \in Operation
    BY DEF Free, Starting, Operation
  <1>3. \A pc \in {"retire", "reconcile", "append", "cancel", "start", "record"} : [op EXCEPT !.pc = pc] \in Operation
    BY <1>1 DEF Operation
  <1>4. \A pc \in {"recover", "reconcile"} : Leave(pc) => op' \in Operation
    <2> SUFFICES ASSUME NEW pc \in {"recover", "reconcile"}, Leave(pc)
                 PROVE  op' \in Operation
      OBVIOUS
    <2>1. After(pc) \in {"retire", "reconcile", "append", "start", "done"}
      BY DEF After
    <2> QED
      BY <1>2, <1>3, <2>1 DEF Leave
  <1>5. ASSUME NEW kind \in {"create", "delete", "reschedule", "list"}, NEW s \in Schedule \union {"none"},
               NEW rule \in Rules \union {"none"}, Begin(kind, s, rule)
        PROVE  op' \in Operation
    BY <1>5 DEF Begin, Free, Operation
  <1>6. \A s \in Schedule : [op EXCEPT !.pc = "retired", !.id = s] \in Operation
    BY <1>1 DEF Operation
  <1>7. CASE Retire
    <2>1. CASE Goto("reconcile")
      BY <1>3, <2>1 DEF Goto
    <2>2. CASE \E s \in Schedule : op' = [op EXCEPT !.pc = "retired", !.id = s]
      BY <1>6, <2>2
    <2> QED
      BY <1>7, <2>1, <2>2 DEF Retire
  <1>8. CASE CancelRetired
    BY <1>1, <1>8 DEF CancelRetired, Operation
  <1>9. ASSUME NEW s \in Schedule, BeginDispatch(s)
        PROVE  op' \in Operation
    <2>1. timer[s].seen \in Record \union {NoRecord}
      BY <1>1 DEF ScheduleTypeOK, Slot
    <2> QED
      BY <1>9, <2>1 DEF BeginDispatch, Free, Operation
  <1>10. ASSUME NEW l \in late, BeginLate(l)
         PROVE  op' \in Operation
    <2>1. l.id \in Schedule /\ l.seen \in Record
      BY <1>1 DEF ScheduleTypeOK
    <2> QED
      BY <1>10, <2>1 DEF BeginLate, Free, Operation
  <1>11. CASE Recover \/ Reconcile
    BY <1>1, <1>4, <1>11 DEF Recover, Reconcile
  <1>12. CASE \/ AppendCreate \/ AppendDelete \/ AppendReschedule \/ CancelRuntime \/ StartTimer
              \/ Enqueue \/ RecordOwn \/ Abandon \/ Crash
    BY <1>2, <1>3, <1>12 DEF AppendCreate, AppendDelete, AppendReschedule, CancelRuntime, StartTimer, Enqueue,
                             RecordOwn, Abandon, Crash, Goto
  <1>13. ASSUME NEW s \in Schedule, NEW r \in Rules, \/ BeginCreate(s, r) \/ BeginDelete(s) \/ BeginReschedule(s)
         PROVE  op' \in Operation
    BY <1>5, <1>13 DEF BeginCreate, BeginDelete, BeginReschedule
  <1>14. CASE BeginList
    BY <1>5, <1>14 DEF BeginList
  <1>15. CASE \/ Tick \/ OtherInput \/ \E s \in Schedule : TimerLooks(s) \/ TimerDue(s)
              \/ \E m \in pending : Claim(m)
    BY <1>1, <1>15 DEF Tick, OtherInput, TimerLooks, TimerDue, Claim
  <1>16. ASSUME NEW s \in Schedule, BeginDelete(s) \/ BeginReschedule(s)
         PROVE  op' \in Operation
    BY <1>5, <1>16 DEF BeginDelete, BeginReschedule
  <1> QED
    BY <1>7, <1>8, <1>9, <1>10, <1>11, <1>12, <1>13, <1>14, <1>15, <1>16 DEF Next, OpStep, TimerStep

\* The projection stays well formed: an armed schedule is active, a deleted one
\* was created.
LEMMA ProjectionTyped ==
    ASSUME ScheduleInv, Next
    PROVE  /\ rec' \in [Schedule -> Record \union {NoRecord}]
           /\ armed' \subseteq {s \in Schedule : rec'[s] # NoRecord}
           /\ deleted' \subseteq created' /\ created' \subseteq Schedule /\ born' \subseteq created'
  <1> DEFINE Goal == /\ rec' \in [Schedule -> Record \union {NoRecord}]
                     /\ armed' \subseteq {s \in Schedule : rec'[s] # NoRecord}
                     /\ deleted' \subseteq created' /\ created' \subseteq Schedule /\ born' \subseteq created'
  <1>1. /\ ScheduleTypeOK /\ OpInv /\ IdInv /\ op \in Operation
        /\ rec \in [Schedule -> Record \union {NoRecord}]
        /\ armed \subseteq {s \in Schedule : rec[s] # NoRecord}
        /\ deleted \subseteq created /\ created \subseteq Schedule /\ born \subseteq created
    BY DEF ScheduleInv, ScheduleTypeOK
  <1>2. ASSUME NEW m \in Unrecorded, RecordDispatch(m), UNCHANGED <<created, deleted, born>>
        PROVE  Goal
    <2> DEFINE s == sent[m].id
    <2>1. /\ s \in armed /\ s \in Schedule
          /\ rec' \in [Schedule -> Record \union {NoRecord}]
          /\ \A k \in Schedule : k # s => rec'[k] = rec[k]
          /\ \/ rec'[s] = NoRecord /\ armed' = armed \ {s}
             \/ rec'[s] = rec[s] /\ armed' = armed \ {s}
             \/ rec'[s] \in Record /\ rec'[s].at > rec[s].at /\ armed' = armed
      BY <1>2, RecordingMoves
    <2> QED
      BY <1>1, <1>2, <2>1, NoRecordOutside
  <1>3. ASSUME NEW s \in Schedule, Active(s), rec' = [rec EXCEPT ![s] = NoRecord], armed' = armed \ {s},
               deleted' = deleted \union {s}, UNCHANGED <<created, born>>
        PROVE  Goal
    BY <1>1, <1>3 DEF IdInv
  <1>4. ASSUME UNCHANGED <<rec, armed, created, deleted>>, born' \in {born, {}}
        PROVE  Goal
    BY <1>1, <1>4
  <1>5. CASE Recover
    BY <1>2, <1>4, <1>5 DEF Recover
  <1>6. CASE RecordOwn
    <2>1. Len(sent) \in Unrecorded
      BY <1>6 DEF ScheduleInv, OwnInv, RecordOwn
    <2> QED
      BY <1>2, <1>6, <2>1 DEF RecordOwn
  <1>7. CASE AppendCreate
    <2>1. op.id \in Schedule /\ op.rule \in Rules
      BY <1>1, <1>7 DEF AppendCreate, OpInv
    <2>2. now \in 0..MaxTime /\ now + Delay \in Time /\ now + Lifetime \in Time
      BY <1>1, ScheduleAssumption DEF ScheduleTypeOK, Time
    <2> DEFINE r == [rule |-> op.rule, at |-> now + Delay, expires |-> now + Lifetime]
    <2>3. r \in Record /\ r # NoRecord
      BY <2>1, <2>2, NoRecordOutside DEF Record
    <2> HIDE DEF r
    <2>4. CASE /\ rec' = [rec EXCEPT ![op.id] = r] /\ armed' = armed \union {op.id} /\ deleted' = deleted
               /\ created' = created \union {op.id} /\ born' = born \union {op.id}
      BY <1>1, <2>1, <2>3, <2>4
    <2> QED
      BY <1>4, <1>7, <2>4 DEF AppendCreate, r
  <1>8. CASE AppendDelete
    <2>1. op.id \in Schedule
      BY <1>1, <1>8 DEF AppendDelete, OpInv
    <2> QED
      BY <1>3, <1>4, <1>8, <2>1 DEF AppendDelete
  <1>9. CASE AppendReschedule
    <2>1. op.id \in Schedule
      BY <1>1, <1>9 DEF AppendReschedule, OpInv
    <2>2. now + Delay \in Time
      BY <1>1, ScheduleAssumption DEF ScheduleTypeOK, Time
    <2>3. ASSUME Active(op.id)
          PROVE  [rec[op.id] EXCEPT !.at = now + Delay] \in Record
      <3>1. rec[op.id] \in Record
        BY <1>1, <2>1, <2>3, ActiveRecord
      <3> QED
        BY <2>2, <3>1 DEF Record
    <2>4. CASE /\ Active(op.id)
               /\ rec' = [rec EXCEPT ![op.id] = [rec[op.id] EXCEPT !.at = now + Delay]]
               /\ armed' = armed \union {op.id} /\ UNCHANGED <<created, deleted, born>>
      <3> DEFINE r == [rec[op.id] EXCEPT !.at = now + Delay]
      <3>1. r \in Record /\ r # NoRecord
        BY <2>3, <2>4, NoRecordOutside
      <3> HIDE DEF r
      <3>2. rec' = [rec EXCEPT ![op.id] = r]
        BY <2>4 DEF r
      <3> QED
        BY <1>1, <2>1, <2>4, <3>1, <3>2
    <2> QED
      BY <1>4, <1>9, <2>4 DEF AppendReschedule
  <1>10. CASE Retire
    BY <1>3, <1>4, <1>10 DEF Retire
  <1>11. CASE Next /\ ~(\/ Recover \/ RecordOwn \/ AppendCreate \/ AppendDelete \/ AppendReschedule \/ Retire)
    <2>1. UNCHANGED <<rec, armed, created, deleted>> /\ born' \in {born, {}}
      BY <1>11 DEF Next, OpStep, TimerStep, Reconcile, CancelRuntime, StartTimer, CancelRetired, Enqueue, Abandon,
                   BeginList, Tick, OtherInput, Crash, TimerLooks, TimerDue, BeginDispatch, BeginDelete,
                   BeginReschedule, BeginCreate, BeginLate, Claim
    <2> QED
      BY <1>4, <2>1
  <1> QED
    BY <1>5, <1>6, <1>7, <1>8, <1>9, <1>10, <1>11

\* The reminders are only added to, and dispatched and pending name reminders.
LEMMA HistoryTyped ==
    ASSUME ScheduleInv, Next
    PROVE  /\ now' \in 0..MaxTime /\ now <= now'
           /\ sent' \in Seq(Reminder)
           /\ dispatched' \subseteq DOMAIN sent' /\ pending' \subseteq DOMAIN sent'
  <1>1. /\ ScheduleTypeOK /\ OpInv /\ now \in 0..MaxTime /\ sent \in Seq(Reminder)
        /\ dispatched \subseteq DOMAIN sent /\ pending \subseteq DOMAIN sent
    BY DEF ScheduleInv, ScheduleTypeOK
  <1>2. now' \in 0..MaxTime /\ now <= now'
    <2>1. CASE Tick \/ Crash
      BY <1>1, <2>1, ScheduleAssumption DEF Tick, Crash
    <2>2. CASE Next /\ ~(Tick \/ Crash)
      <3>1. now' = now
        BY <2>2 DEF Next, OpStep, TimerStep, Recover, Reconcile, AppendCreate, AppendDelete, AppendReschedule,
                    CancelRuntime, StartTimer, Retire, CancelRetired, Enqueue, RecordOwn, Abandon, BeginList,
                    OtherInput, TimerLooks, TimerDue, BeginDispatch, BeginDelete, BeginReschedule, BeginCreate,
                    BeginLate, Claim
      <3> QED
        BY <1>1, <3>1
    <2> QED
      BY <2>1, <2>2
  <1>3. CASE Enqueue
    <2>1. dispatched' = dispatched
      BY <1>3 DEF Enqueue
    <2>2. CASE UNCHANGED <<sent, pending>>
      BY <1>1, <1>2, <2>1, <2>2
    <2> DEFINE e == [id |-> op.id, at |-> op.seen.at, on |-> now]
    <2>3. e \in Reminder
      <3>1. op.id \in Schedule /\ op.seen \in Record
        BY <1>1, <1>3 DEF Enqueue, OpInv
      <3>2. op.seen.at \in Time /\ now \in Time
        BY <1>1, <3>1, ScheduleAssumption DEF Record, Time
      <3> QED
        BY <3>1, <3>2 DEF Reminder
    <2> HIDE DEF e
    <2>4. CASE sent' = Append(sent, e) /\ pending' = pending \union {Len(sent) + 1}
      <3>1. sent' \in Seq(Reminder) /\ Len(sent') = Len(sent) + 1 /\ Len(sent) \in Nat
        BY <1>1, <2>3, <2>4
      <3>2. DOMAIN sent = 1..Len(sent) /\ DOMAIN sent' = 1..Len(sent')
        BY <1>1, <3>1
      <3>3. DOMAIN sent' = DOMAIN sent \union {Len(sent) + 1}
        BY <3>1, <3>2
      <3> QED
        BY <1>1, <1>2, <2>1, <2>4, <3>1, <3>3
    <2> QED
      BY <1>3, <2>2, <2>4 DEF Enqueue, e
  <1>4. ASSUME NEW m \in DOMAIN sent, RecordDispatch(m), UNCHANGED <<sent, pending>>
        PROVE  /\ sent' \in Seq(Reminder)
               /\ dispatched' \subseteq DOMAIN sent' /\ pending' \subseteq DOMAIN sent'
    BY <1>1, <1>4 DEF RecordDispatch
  <1>5. ASSUME UNCHANGED <<sent, dispatched>>, pending' \subseteq pending
        PROVE  /\ sent' \in Seq(Reminder)
               /\ dispatched' \subseteq DOMAIN sent' /\ pending' \subseteq DOMAIN sent'
    BY <1>1, <1>5
  <1>6. CASE Recover
    BY <1>2, <1>4, <1>5, <1>6 DEF Recover, Unrecorded
  <1>7. CASE RecordOwn
    <2>1. Len(sent) \in DOMAIN sent
      BY <1>7 DEF ScheduleInv, OwnInv, RecordOwn, Unrecorded
    <2> QED
      BY <1>2, <1>4, <1>7, <2>1 DEF RecordOwn
  <1>8. CASE Next /\ ~(Recover \/ RecordOwn \/ Enqueue)
    <2>1. UNCHANGED <<sent, dispatched>> /\ pending' \subseteq pending
      BY <1>8 DEF Next, OpStep, TimerStep, Reconcile, AppendCreate, AppendDelete, AppendReschedule,
                  CancelRuntime, StartTimer, Retire, CancelRetired, Abandon, BeginList, Tick, Crash,
                  OtherInput, TimerLooks, TimerDue, BeginDispatch, BeginDelete, BeginReschedule, BeginCreate,
                  BeginLate, Claim
    <2> QED
      BY <1>2, <1>5, <2>1
  <1> QED
    BY <1>3, <1>6, <1>7, <1>8

\* A timer slot holds a slot value, and an aborted timer had read a record.
LEMMA TimersTyped ==
    ASSUME ScheduleInv, Next
    PROVE  timer' \in [Schedule -> Slot] /\ late' \subseteq [id : Schedule, seen : Record]
  <1>1. /\ ScheduleTypeOK /\ OpInv /\ TimerInv /\ timer \in [Schedule -> Slot]
        /\ late \subseteq [id : Schedule, seen : Record] /\ rec \in [Schedule -> Record \union {NoRecord}]
    BY DEF ScheduleInv, ScheduleTypeOK
  <1>2. NoTimer \in Slot /\ \A s \in Schedule : timer[s] \in Slot
    BY <1>1 DEF NoTimer, Slot
  <1>3. \A v \in Slot, pc \in {"look", "wait", "due", "over"} : [v EXCEPT !.pc = pc] \in Slot
    BY DEF Slot
  <1>4. \A s \in Schedule, v \in Slot : [timer EXCEPT ![s] = v] \in [Schedule -> Slot]
    BY <1>1
  <1>5. ASSUME NEW s \in Schedule, NEW ok \in BOOLEAN, Returned(s, ok)
        PROVE  timer' \in [Schedule -> Slot]
    <2>1. timer' = timer \/ \E pc \in {"look", "over"} : timer' = [timer EXCEPT ![s] = [timer[s] EXCEPT !.pc = pc]]
      BY <1>5 DEF Returned
    <2>2. \A pc \in {"look", "over"} : [timer[s] EXCEPT !.pc = pc] \in Slot
      BY <1>2, <1>3
    <2>3. CASE timer' = timer
      BY <1>1, <2>3
    <2>4. ASSUME NEW pc \in {"look", "over"}, timer' = [timer EXCEPT ![s] = [timer[s] EXCEPT !.pc = pc]]
          PROVE  timer' \in [Schedule -> Slot]
      <3> DEFINE v == [timer[s] EXCEPT !.pc = pc]
      <3>1. v \in Slot
        BY <2>2
      <3> HIDE DEF v
      <3>2. timer' = [timer EXCEPT ![s] = v]
        BY <2>4 DEF v
      <3> QED
        BY <1>1, <3>1, <3>2
    <2> QED
      BY <2>1, <2>3, <2>4
  <1>6. CASE Abandon
    <2>1. CASE op.kind = "dispatch"
      BY <1>1, <1>5, <1>6, <2>1 DEF Abandon, OpInv
    <2>2. CASE op.kind # "dispatch"
      BY <1>1, <1>6, <2>2 DEF Abandon, Returned
    <2> QED
      BY <2>1, <2>2, <1>6 DEF Abandon
  <1>7. CASE Enqueue
    <2>1. op.id \in Schedule /\ late' = late
      BY <1>1, <1>7 DEF Enqueue, OpInv
    <2>2. timer' = timer \/ Returned(op.id, TRUE) \/ Returned(op.id, FALSE)
      BY <1>7 DEF Enqueue
    <2> QED
      BY <1>1, <1>5, <2>1, <2>2
  <1>8. CASE RecordOwn
    <2>1. op.id \in Schedule /\ late' = late
      BY <1>1, <1>8 DEF RecordOwn, OpInv
    <2> QED
      BY <1>1, <1>5, <1>8, <2>1 DEF RecordOwn
  <1>9. CASE CancelRuntime
    <2>1. op.id \in Schedule
      BY <1>1, <1>9 DEF CancelRuntime, OpInv
    <2>2. Outlives(op.id) \subseteq [id : Schedule, seen : Record]
      BY <1>1, <2>1 DEF Outlives, TimerInv
    <2> QED
      BY <1>1, <1>2, <1>4, <1>9, <2>1, <2>2 DEF CancelRuntime
  <1>10. CASE StartTimer
    <2>1. [pc |-> "look", seen |-> NoRecord] \in Slot
      BY DEF Slot
    <2> QED
      BY <1>1, <1>2, <1>10, <2>1 DEF StartTimer, Started
  <1>11. ASSUME NEW s \in Schedule, TimerLooks(s)
         PROVE  timer' \in [Schedule -> Slot] /\ late' = late
    <2>1. [pc |-> "wait", seen |-> rec[s]] \in Slot /\ [timer[s] EXCEPT !.pc = "over"] \in Slot
      BY <1>1, <1>2, <1>3 DEF Slot
    <2>2. timer' = [timer EXCEPT ![s] = IF Active(s) THEN [pc |-> "wait", seen |-> rec[s]]
                                         ELSE [timer[s] EXCEPT !.pc = "over"]]
      BY <1>11 DEF TimerLooks
    <2> QED
      BY <1>4, <1>11, <2>1, <2>2 DEF TimerLooks
  <1>12. ASSUME NEW s \in Schedule, TimerDue(s)
         PROVE  timer' \in [Schedule -> Slot] /\ late' = late
    <2>1. timer' = [timer EXCEPT ![s] = [timer[s] EXCEPT !.pc = "due"]]
      BY <1>12 DEF TimerDue
    <2> DEFINE v == [timer[s] EXCEPT !.pc = "due"]
    <2>2. v \in Slot
      BY <1>2, <1>3
    <2> HIDE DEF v
    <2>3. timer' = [timer EXCEPT ![s] = v] /\ late' = late
      BY <1>12, <2>1 DEF TimerDue, v
    <2> QED
      BY <1>1, <2>2, <2>3
  <1>13. CASE Crash
    BY <1>2, <1>13 DEF Crash
  <1>14. CASE \/ Recover \/ Reconcile \/ AppendCreate \/ AppendDelete \/ AppendReschedule \/ Retire \/ CancelRetired
              \/ BeginList \/ Tick \/ OtherInput
    BY <1>1, <1>14 DEF Recover, Reconcile, AppendCreate, AppendDelete, AppendReschedule, Retire, CancelRetired,
                       BeginList, Tick, OtherInput
  <1>15. CASE \/ \E s \in Schedule : BeginDispatch(s) \/ BeginDelete(s) \/ BeginReschedule(s)
              \/ \E s \in Schedule, r \in Rules : BeginCreate(s, r)
              \/ \E l \in late : BeginLate(l)
              \/ \E m \in pending : Claim(m)
    <2>1. timer' = timer /\ late' \subseteq late
      BY <1>15 DEF BeginDispatch, BeginDelete, BeginReschedule, BeginCreate, BeginLate, Claim
    <2> QED
      BY <1>1, <2>1
  <1> QED
    BY <1>1, <1>6, <1>7, <1>8, <1>9, <1>10, <1>11, <1>12, <1>13, <1>14, <1>15 DEF Next, OpStep, TimerStep

\* What is reported, and what the bounds count.
LEMMA ReportsTyped ==
    ASSUME ScheduleInv, Next
    PROVE  silenced' \subseteq Schedule /\ failed' \subseteq Schedule /\ spent' \in [faults : Nat, crashes : Nat]
  <1>1. /\ ScheduleTypeOK /\ OpInv /\ op \in Operation /\ silenced \subseteq Schedule /\ failed \subseteq Schedule
        /\ deleted \subseteq Schedule /\ spent \in [faults : Nat, crashes : Nat]
        /\ spent.faults \in Nat /\ spent.crashes \in Nat
    BY DEF ScheduleInv, ScheduleTypeOK
  <1>2. op.id \in Schedule \union {"none"}
    BY <1>1 DEF Operation
  <1>3. Fault => spent' \in [faults : Nat, crashes : Nat]
    BY <1>1 DEF Fault
  <1>4. CASE Abandon
    BY <1>1, <1>2, <1>3, <1>4 DEF Abandon
  <1>5. CASE Enqueue
    BY <1>1, <1>5 DEF Enqueue, OpInv
  <1>6. CASE RecordOwn
    <2>1. op.id \in Schedule
      BY <1>1, <1>6 DEF RecordOwn, OpInv
    <2> QED
      BY <1>1, <1>3, <1>6, <2>1 DEF RecordOwn
  <1>7. CASE CancelRuntime
    <2>1. op.id \in Schedule
      BY <1>1, <1>7 DEF CancelRuntime, OpInv
    <2> QED
      BY <1>1, <1>7, <2>1 DEF CancelRuntime
  <1>8. CASE Crash \/ StartTimer \/ Reconcile
    BY <1>1, <1>8 DEF Crash, StartTimer, Reconcile
  <1>9. CASE Next /\ ~(Abandon \/ Enqueue \/ RecordOwn \/ CancelRuntime \/ Crash \/ StartTimer \/ Reconcile)
    <2>1. UNCHANGED <<silenced, failed, spent>>
      BY <1>9 DEF Next, OpStep, TimerStep, Recover, AppendCreate, AppendDelete, AppendReschedule, Retire,
                  CancelRetired, BeginList, Tick, OtherInput, TimerLooks, TimerDue, BeginDispatch, BeginDelete,
                  BeginReschedule, BeginCreate, BeginLate, Claim
    <2> QED
      BY <1>1, <2>1
  <1> QED
    BY <1>4, <1>5, <1>6, <1>7, <1>8, <1>9

\* Typing is preserved.
LEMMA TypeStep ==
    ASSUME ScheduleInv, Next
    PROVE  ScheduleTypeOK'
  <1>1. ScheduleTypeOK
    BY DEF ScheduleInv
  <1> QED
    BY <1>1, InboxBounded, OperationTyped, ProjectionTyped, HistoryTyped, TimersTyped, ReportsTyped
       DEF ScheduleTypeOK

-----------------------------------------------------------------------------
(* Schedules                                                                *)

\* A step that leaves the projection alone, or takes a record out of it.
LEMMA IdStep ==
    ASSUME ScheduleInv, Next
    PROVE  IdInv'
  <1>1. /\ ScheduleTypeOK /\ OpInv /\ IdInv /\ rec \in [Schedule -> Record \union {NoRecord}]
        /\ deleted \subseteq created /\ created \subseteq Schedule
    BY DEF ScheduleInv, ScheduleTypeOK
  <1>2. ASSUME NEW m \in Unrecorded, RecordDispatch(m), UNCHANGED <<created, deleted, silenced>>
        PROVE  IdInv'
    <2> DEFINE s == sent[m].id
    <2>1. /\ s \in armed /\ s \in Schedule
          /\ \A k \in Schedule : k # s => rec'[k] = rec[k]
      BY <1>2, RecordingMoves
    <2>2. Active(s)
      BY DEF Unrecorded
    <2> QED
      BY <1>1, <1>2, <2>1, <2>2 DEF IdInv, Active
  <1>3. ASSUME NEW s \in Schedule, Active(s), rec' = [rec EXCEPT ![s] = NoRecord],
               deleted' = deleted \union {s}, UNCHANGED <<created, silenced>>
        PROVE  IdInv'
    BY <1>1, <1>3 DEF IdInv, Active
  <1>4. ASSUME UNCHANGED <<rec, created, deleted>>, silenced' \subseteq deleted
        PROVE  IdInv'
    BY <1>1, <1>4 DEF IdInv, Active
  <1>5. CASE Recover
    BY <1>1, <1>2, <1>4, <1>5 DEF Recover, IdInv
  <1>6. CASE RecordOwn
    <2>1. Len(sent) \in Unrecorded
      BY <1>6 DEF ScheduleInv, OwnInv, RecordOwn
    <2> QED
      BY <1>2, <1>6, <2>1 DEF RecordOwn
  <1>7. CASE AppendCreate
    <2>1. op.id \in Schedule /\ op.id \notin created
      BY <1>1, <1>7 DEF AppendCreate, OpInv
    <2>2. CASE /\ rec' = [rec EXCEPT ![op.id] = [rule |-> op.rule, at |-> now + Delay, expires |-> now + Lifetime]]
               /\ created' = created \union {op.id} /\ UNCHANGED <<deleted, silenced>>
      <3> DEFINE r == [rule |-> op.rule, at |-> now + Delay, expires |-> now + Lifetime]
      <3> HIDE DEF r
      <3>1. rec' = [rec EXCEPT ![op.id] = r]
        BY <2>2 DEF r
      <3> QED
        BY <1>1, <2>1, <2>2, <3>1 DEF IdInv, Active
    <2> QED
      BY <1>1, <1>4, <1>7, <2>2 DEF AppendCreate, IdInv
  <1>8. CASE AppendDelete
    <2>1. op.id \in Schedule
      BY <1>1, <1>8 DEF AppendDelete, OpInv
    <2> QED
      BY <1>1, <1>3, <1>4, <1>8, <2>1 DEF AppendDelete, IdInv
  <1>9. CASE AppendReschedule
    <2>1. op.id \in Schedule
      BY <1>1, <1>9 DEF AppendReschedule, OpInv
    <2>2. CASE /\ Active(op.id) /\ UNCHANGED <<created, deleted, silenced>>
               /\ rec' = [rec EXCEPT ![op.id] = [rec[op.id] EXCEPT !.at = now + Delay]]
      <3> DEFINE r == [rec[op.id] EXCEPT !.at = now + Delay]
      <3> HIDE DEF r
      <3>1. rec' = [rec EXCEPT ![op.id] = r]
        BY <2>2 DEF r
      <3> QED
        BY <1>1, <2>1, <2>2, <3>1 DEF IdInv, Active
    <2> QED
      BY <1>1, <1>4, <1>9, <2>2 DEF AppendReschedule, IdInv
  <1>10. CASE Retire
    BY <1>1, <1>3, <1>4, <1>10 DEF Retire, IdInv
  <1>11. CASE CancelRuntime
    BY <1>1, <1>4, <1>11 DEF CancelRuntime, IdInv, OpInv
  <1>12. CASE Reconcile \/ Crash
    BY <1>1, <1>4, <1>12 DEF Reconcile, Crash, IdInv
  <1>13. CASE Next /\ ~(\/ Recover \/ RecordOwn \/ AppendCreate \/ AppendDelete \/ AppendReschedule \/ Retire
                        \/ CancelRuntime \/ Reconcile \/ Crash)
    <2>1. UNCHANGED <<rec, created, deleted, silenced>>
      BY <1>13 DEF Next, OpStep, TimerStep, StartTimer, CancelRetired, Enqueue, Abandon, BeginList, Tick,
                   OtherInput, TimerLooks, TimerDue, BeginDispatch, BeginDelete, BeginReschedule, BeginCreate,
                   BeginLate, Claim
    <2> QED
      BY <1>1, <1>4, <2>1 DEF IdInv
  <1> QED
    BY <1>5, <1>6, <1>7, <1>8, <1>9, <1>10, <1>11, <1>12, <1>13

\* Each operation goes through its own steps.
LEMMA OperationStep ==
    ASSUME ScheduleInv, Next
    PROVE  OpInv'
  <1>1. /\ ScheduleTypeOK /\ OpInv /\ op \in Operation /\ rec \in [Schedule -> Record \union {NoRecord}]
        /\ now \in 0..MaxTime
    BY DEF ScheduleInv, ScheduleTypeOK
  <1>2. ASSUME op' = Free
        PROVE  OpInv'
    BY <1>2 DEF OpInv, Free
  <1>3. CASE Crash
    BY <1>3 DEF Crash, OpInv, Starting, Free
  <1>4. ASSUME UNCHANGED <<op, created, deleted, rec, now>>
        PROVE  OpInv'
    BY <1>1, <1>4 DEF OpInv, Active
  <1>5. ASSUME NEW pc \in {"recover", "reconcile"}, op.pc = pc, Leave(pc), UNCHANGED created
        PROVE  OpInv'
    <2>1. CASE After(pc) = "done"
      BY <1>2, <1>5, <2>1 DEF Leave
    <2>2. CASE After(pc) # "done"
      <3>1. op' = [op EXCEPT !.pc = After(pc)]
        BY <1>5, <2>2 DEF Leave
      <3>2. \/ op.kind = "create" /\ After(pc) \in {"reconcile", "append"}
            \/ op.kind \in {"delete", "reschedule"} /\ After(pc) = "append"
            \/ op.kind = "rearm" /\ After(pc) \in {"retire", "start"}
            \/ op.kind = "list" /\ After(pc) = "reconcile"
        BY <1>5, <2>2 DEF After
      <3>3. /\ op'.kind = op.kind /\ op'.id = op.id /\ op'.rule = op.rule /\ op'.seen = op.seen
            /\ op'.pc = After(pc)
        BY <1>1, <3>1 DEF Operation
      <3> QED
        BY <1>1, <1>5, <3>2, <3>3 DEF OpInv
    <2> QED
      BY <2>1, <2>2
  <1>6. CASE Recover
    <2>1. CASE UNCHANGED op
      BY <1>1, <1>6, <2>1 DEF Recover, OpInv
    <2> QED
      BY <1>5, <1>6, <2>1 DEF Recover
  <1>7. CASE Reconcile
    BY <1>5, <1>7 DEF Reconcile
  <1>8. CASE AppendCreate
    <2>1. CASE Goto("start")
      <3>1. /\ op'.kind = "create" /\ op'.id = op.id /\ op'.rule = op.rule /\ op'.pc = "start"
        BY <1>1, <1>8, <2>1 DEF Operation, Goto, AppendCreate
      <3> QED
        BY <1>1, <1>8, <3>1 DEF OpInv, AppendCreate
    <2> QED
      BY <1>2, <1>8, <2>1 DEF AppendCreate
  <1>9. CASE AppendDelete
    <2>1. CASE Goto("cancel") /\ deleted' = deleted \union {op.id}
      <3>1. /\ op'.kind = "delete" /\ op'.id = op.id /\ op'.pc = "cancel"
        BY <1>1, <1>9, <2>1 DEF Operation, Goto, AppendDelete
      <3> QED
        BY <1>1, <1>9, <2>1, <3>1 DEF OpInv, AppendDelete
    <2> QED
      BY <1>2, <1>9, <2>1 DEF AppendDelete
  <1>10. CASE AppendReschedule
    <2>1. CASE Goto("cancel") /\ rec' = [rec EXCEPT ![op.id].at = now + Delay] /\ Active(op.id)
      <3>1. /\ op'.kind = "reschedule" /\ op'.id = op.id /\ op'.pc = "cancel" /\ op.id \in Schedule /\ now' = now
        BY <1>1, <1>10, <2>1 DEF Operation, Goto, AppendReschedule, OpInv
      <3>2. rec[op.id] \in Record
        BY <1>1, <2>1, <3>1, ActiveRecord
      <3>3. rec'[op.id].at = now + Delay /\ rec'[op.id].rule = rec[op.id].rule
        BY <1>1, <2>1, <3>1, <3>2 DEF Record
      <3>4. rec'[op.id].at > now' /\ rec'[op.id] # NoRecord
        BY <1>1, <3>1, <3>2, <3>3, ScheduleAssumption DEF NoRecord, Record, Rule
      <3> QED
        BY <3>1, <3>4 DEF OpInv, Active
    <2> QED
      BY <1>2, <1>10, <2>1 DEF AppendReschedule
  <1>11. CASE CancelRuntime
    <2>1. CASE op.kind = "reschedule" /\ Goto("start")
      <3>1. /\ op'.kind = "reschedule" /\ op'.id = op.id /\ op'.pc = "start"
        BY <1>1, <2>1 DEF Operation, Goto
      <3> QED
        BY <1>1, <2>1, <3>1 DEF OpInv
    <2> QED
      BY <1>2, <1>11, <2>1 DEF CancelRuntime
  <1>12. CASE Retire
    <2>0. op.kind = "rearm"
      BY <1>1, <1>12 DEF Retire, OpInv
    <2>1. CASE Goto("reconcile")
      <3>1. op'.kind = "rearm" /\ op'.pc = "reconcile"
        BY <1>1, <2>0, <2>1 DEF Operation, Goto
      <3> QED
        BY <3>1 DEF OpInv
    <2>2. ASSUME NEW s \in Schedule, op' = [op EXCEPT !.pc = "retired", !.id = s]
          PROVE  OpInv'
      <3>1. op'.kind = "rearm" /\ op'.pc = "retired" /\ op'.id = s
        BY <1>1, <2>0, <2>2 DEF Operation
      <3> QED
        BY <3>1 DEF OpInv
    <2> QED
      BY <1>12, <2>1, <2>2 DEF Retire
  <1>13. CASE CancelRetired
    <2>1. op'.kind = "rearm" /\ op'.pc = "retire"
      BY <1>1, <1>13 DEF Operation, OpInv, CancelRetired
    <2> QED
      BY <2>1 DEF OpInv
  <1>14. CASE Enqueue
    <2>1. CASE Goto("record") /\ StillDue(op.id)
      <3>1. op'.kind = op.kind /\ op'.pc = "record" /\ op'.id = op.id /\ op'.seen = op.seen /\ op.pc = "append"
        BY <1>1, <1>14, <2>1 DEF Operation, Goto, Enqueue
      <3>2. op.kind \in {"dispatch", "late"} /\ op.id \in Schedule /\ op.seen \in Record
        BY <1>1, <1>14 DEF Enqueue, OpInv
      <3>3. op.kind # "late"
        <4>1. Active(op.id) /\ rec[op.id] = op.seen
          BY <1>1, <2>1 DEF StillDue, ScheduleTypeOK, Active
        <4>2. rec[op.id].at \in Nat
          BY <1>1, <3>2, <4>1, ActiveRecord
        <4> QED
          BY <4>1, <4>2 DEF ScheduleInv, TimerInv, Behind
      <3> QED
        BY <3>1, <3>2, <3>3 DEF OpInv
    <2> QED
      BY <1>2, <1>14, <2>1 DEF Enqueue
  <1>15. CASE StartTimer \/ RecordOwn \/ Abandon
    BY <1>2, <1>15 DEF StartTimer, RecordOwn, Abandon
  <1>16. CASE Tick
    BY <1>1, <1>16 DEF Tick, OpInv
  <1>17. CASE \/ OtherInput \/ \E s \in Schedule : TimerLooks(s) \/ TimerDue(s)
              \/ \E m \in pending : Claim(m)
    BY <1>4, <1>17 DEF OtherInput, TimerLooks, TimerDue, Claim
  <1>18. ASSUME NEW kind \in {"create", "delete", "reschedule", "list"}, NEW s \in Schedule \union {"none"},
               NEW rule \in Rules \union {"none"}, Begin(kind, s, rule), kind # "list" => s \in Schedule,
               kind = "create" => rule \in Rules /\ s \notin created, UNCHANGED created
        PROVE  OpInv'
    <2>1. op'.kind = kind /\ op'.pc = "recover" /\ op'.id = s /\ op'.rule = rule
      BY <1>18 DEF Begin, Free
    <2> QED
      BY <1>18, <2>1 DEF OpInv
  <1>19. ASSUME NEW s \in Schedule, BeginDelete(s) \/ BeginReschedule(s)
         PROVE  OpInv'
    BY <1>18, <1>19 DEF BeginDelete, BeginReschedule
  <1>20. ASSUME NEW s \in Schedule, NEW r \in Rules, BeginCreate(s, r)
         PROVE  OpInv'
    BY <1>18, <1>20 DEF BeginCreate
  <1>21. CASE BeginList
    BY <1>18, <1>21 DEF BeginList
  <1>22. ASSUME NEW s \in Schedule, BeginDispatch(s)
         PROVE  OpInv'
    <2>1. op'.kind = "dispatch" /\ op'.pc = "append" /\ op'.id = s /\ op'.seen = timer[s].seen
      BY <1>22 DEF BeginDispatch, Free
    <2>2. timer[s].seen \in Record
      BY <1>22 DEF ScheduleInv, TimerInv, BeginDispatch
    <2> QED
      BY <2>1, <2>2 DEF OpInv
  <1>23. ASSUME NEW l \in late, BeginLate(l)
         PROVE  OpInv'
    <2>1. op'.kind = "late" /\ op'.pc = "append" /\ op'.id = l.id /\ op'.seen = l.seen
      BY <1>23 DEF BeginLate, Free
    <2>2. l.id \in Schedule /\ l.seen \in Record
      BY <1>1 DEF ScheduleTypeOK
    <2> QED
      BY <2>1, <2>2 DEF OpInv
  <1> QED
    BY <1>3, <1>6, <1>7, <1>8, <1>9, <1>10, <1>11, <1>12, <1>13, <1>14, <1>15, <1>16, <1>17, <1>19, <1>20, <1>21,
       <1>22, <1>23 DEF Next, OpStep, TimerStep

-----------------------------------------------------------------------------
(* Reminders and timers                                                     *)

\* Records end, or move ahead of the clock, or move by the Dispatch event of a
\* reminder that waits for it.
RecordEndsOrMoves(s) ==
    /\ UNCHANGED <<sent, dispatched, now>>
    /\ \A k \in Schedule : k # s => rec'[k] = rec[k] /\ (k \in armed' <=> k \in armed)
    /\ ~Active(s)' \/ rec'[s].at > now

\* A step changes the projection in one of three ways, or not at all.
LEMMA ProjectionMoves ==
    ASSUME ScheduleInv, Next
    PROVE  \/ UNCHANGED <<rec, armed, dispatched>>
           \/ \E m \in Unrecorded : RecordDispatch(m) /\ UNCHANGED <<sent, now, late>>
           \/ \E s \in Schedule : RecordEndsOrMoves(s) /\ UNCHANGED late
  <1>1. /\ ScheduleTypeOK /\ OpInv /\ op \in Operation /\ rec \in [Schedule -> Record \union {NoRecord}]
        /\ now \in 0..MaxTime
    BY DEF ScheduleInv, ScheduleTypeOK
  <1>2. CASE Recover
    BY <1>2 DEF Recover
  <1>3. CASE RecordOwn
    <2>1. Len(sent) \in Unrecorded
      BY <1>3 DEF ScheduleInv, OwnInv, RecordOwn
    <2> QED
      BY <1>3, <2>1 DEF RecordOwn
  <1>4. ASSUME NEW s \in Schedule, NEW r, rec' = [rec EXCEPT ![s] = r],
               armed' \in {armed \ {s}, armed \union {s}}, UNCHANGED <<sent, dispatched, now>>,
               r = NoRecord \/ r.at > now
        PROVE  RecordEndsOrMoves(s)
    BY <1>1, <1>4 DEF RecordEndsOrMoves, Active
  <1>5. CASE AppendCreate
    <2>1. op.id \in Schedule
      BY <1>1, <1>5 DEF AppendCreate, OpInv
    <2>2. CASE /\ rec' = [rec EXCEPT ![op.id] = [rule |-> op.rule, at |-> now + Delay, expires |-> now + Lifetime]]
               /\ armed' = armed \union {op.id}
      <3> DEFINE r == [rule |-> op.rule, at |-> now + Delay, expires |-> now + Lifetime]
      <3>1. r.at > now
        BY <1>1, ScheduleAssumption
      <3> HIDE DEF r
      <3>2. rec' = [rec EXCEPT ![op.id] = r] /\ UNCHANGED <<sent, dispatched, now, late>>
        BY <1>5, <2>2 DEF r, AppendCreate
      <3> QED
        BY <1>4, <2>1, <2>2, <3>1, <3>2
    <2> QED
      BY <1>5, <2>2 DEF AppendCreate
  <1>6. CASE AppendDelete
    <2>1. op.id \in Schedule
      BY <1>1, <1>6 DEF AppendDelete, OpInv
    <2> QED
      BY <1>4, <1>6, <2>1 DEF AppendDelete
  <1>7. CASE AppendReschedule
    <2>1. op.id \in Schedule
      BY <1>1, <1>7 DEF AppendReschedule, OpInv
    <2>2. CASE /\ Active(op.id)
               /\ rec' = [rec EXCEPT ![op.id] = [rec[op.id] EXCEPT !.at = now + Delay]]
               /\ armed' = armed \union {op.id}
      <3> DEFINE r == [rec[op.id] EXCEPT !.at = now + Delay]
      <3>1. rec[op.id] \in Record
        BY <1>1, <2>1, <2>2, ActiveRecord
      <3>2. r.at > now
        BY <1>1, <3>1, ScheduleAssumption DEF Record
      <3> HIDE DEF r
      <3>3. rec' = [rec EXCEPT ![op.id] = r] /\ UNCHANGED <<sent, dispatched, now, late>>
        BY <1>7, <2>2 DEF r, AppendReschedule
      <3> QED
        BY <1>4, <2>1, <2>2, <3>2, <3>3
    <2> QED
      BY <1>7, <2>2 DEF AppendReschedule
  <1>8. CASE Retire
    BY <1>4, <1>8 DEF Retire
  <1>9. CASE Next /\ ~(\/ Recover \/ RecordOwn \/ AppendCreate \/ AppendDelete \/ AppendReschedule \/ Retire)
    BY <1>9 DEF Next, OpStep, TimerStep, Reconcile, CancelRuntime, StartTimer, CancelRetired, Enqueue, Abandon,
                BeginList, Tick, OtherInput, Crash, TimerLooks, TimerDue, BeginDispatch, BeginDelete,
                BeginReschedule, BeginCreate, BeginLate, Claim
  <1> QED
    BY <1>2, <1>3, <1>5, <1>6, <1>7, <1>8, <1>9

\* What an aborted timer waited for stays behind.
LEMMA StaysBehind ==
    ASSUME ScheduleInv, Next, NEW s \in Schedule, NEW seen \in Record, Behind(s, seen)
    PROVE  Behind(s, seen)'
  <1>1. /\ ScheduleTypeOK /\ ScheduleTypeOK' /\ now \in Nat /\ now' \in Nat /\ now <= now'
    BY TypeStep, HistoryTyped, ScheduleAssumption DEF ScheduleInv, ScheduleTypeOK
  <1>2. seen.at \in Nat /\ seen.at <= now /\ (Active(s) => seen.at < rec[s].at)
    BY ScheduleAssumption DEF Behind, Record, Time
  <1>3. Active(s) => rec[s].at \in Nat
    BY <1>1, ActiveRecord
  <1>4. Active(s)' => rec'[s].at \in Nat
    BY <1>1, NoRecordOutside, ScheduleAssumption DEF ScheduleTypeOK, Active, Record, Time
  <1>5. CASE rec'[s] = rec[s]
    BY <1>1, <1>2, <1>5 DEF Behind, Active
  <1>6. CASE ~Active(s)' \/ rec'[s].at > now
    BY <1>1, <1>2, <1>4, <1>6 DEF Behind
  <1>7. CASE Active(s) /\ rec'[s].at > rec[s].at
    BY <1>1, <1>2, <1>3, <1>4, <1>7 DEF Behind
  <1>8. ASSUME NEW m \in Unrecorded, RecordDispatch(m)
        PROVE  Behind(s, seen)'
    <2>1. CASE s # sent[m].id
      BY <1>5, <1>8, <2>1, RecordingMoves
    <2>2. CASE s = sent[m].id
      <3>1. Active(s)
        BY <2>2 DEF Unrecorded
      <3>2. rec'[s] = NoRecord \/ rec'[s] = rec[s] \/ rec'[s].at > rec[s].at
        BY <1>8, <2>2, RecordingMoves
      <3> QED
        BY <1>5, <1>6, <1>7, <3>1, <3>2 DEF Active
    <2> QED
      BY <2>1, <2>2
  <1>9. ASSUME NEW k \in Schedule, RecordEndsOrMoves(k)
        PROVE  Behind(s, seen)'
    BY <1>5, <1>6, <1>9 DEF RecordEndsOrMoves
  <1> QED
    BY <1>5, <1>8, <1>9, ProjectionMoves

\* How a timer slot changes in one step.
TimerMoves(s) ==
    \/ timer'[s] = timer[s]
    \/ timer'[s].pc \in {"none", "over"}
    \/ timer'[s].pc = "look" /\ (StartTimer \/ timer[s].pc = "due")
    \/ TimerLooks(s) \/ TimerDue(s)

\* A slot is only emptied, restarted or ended, but for its own timer's steps.
LEMMA TimersMove ==
    ASSUME ScheduleInv, Next, NEW s \in Schedule
    PROVE  TimerMoves(s)
  <1>1. /\ ScheduleTypeOK /\ OpInv /\ TimerInv /\ timer \in [Schedule -> Slot]
    BY DEF ScheduleInv, ScheduleTypeOK
  <1>2. timer[s] \in Slot
    BY <1>1
  <1>3. ASSUME NEW k \in Schedule, NEW ok \in BOOLEAN, Returned(k, ok), op.kind = "dispatch" => k = op.id
        PROVE  TimerMoves(s)
    <2>1. CASE timer' = timer \/ k # s
      BY <1>1, <1>3, <2>1 DEF Returned, TimerMoves
    <2>2. CASE op.kind = "dispatch" /\ k = s
      <3>1. timer'[s].pc = IF ok /\ ~OneShot(op.seen) THEN "look" ELSE "over"
        BY <1>1, <1>2, <1>3, <2>2 DEF Returned, Slot
      <3>2. timer[s].pc = "due"
        BY <1>1, <1>3, <2>2 DEF TimerInv
      <3> QED
        BY <3>1, <3>2 DEF TimerMoves
    <2> QED
      BY <1>3, <2>1, <2>2 DEF Returned
  <1>4. CASE Abandon
    <2>1. CASE op.kind = "dispatch"
      BY <1>1, <1>3, <1>4, <2>1 DEF Abandon, OpInv
    <2>2. CASE op.kind # "dispatch"
      BY <1>4, <2>2 DEF Abandon, Returned, TimerMoves
    <2> QED
      BY <2>1, <2>2
  <1>5. CASE Enqueue
    <2>1. op.id \in Schedule
      BY <1>1, <1>5 DEF Enqueue, OpInv
    <2>2. timer' = timer \/ Returned(op.id, TRUE) \/ Returned(op.id, FALSE)
      BY <1>5 DEF Enqueue
    <2> QED
      BY <1>3, <2>1, <2>2 DEF TimerMoves
  <1>6. CASE RecordOwn
    <2>1. op.id \in Schedule
      BY <1>1, <1>6 DEF RecordOwn, OpInv
    <2>2. Returned(op.id, TRUE) \/ Returned(op.id, FALSE)
      BY <1>6 DEF RecordOwn
    <2> QED
      BY <1>3, <2>1, <2>2
  <1>7. CASE CancelRuntime
    BY <1>1, <1>7 DEF CancelRuntime, TimerMoves, NoTimer
  <1>8. CASE StartTimer
    BY <1>1, <1>8 DEF StartTimer, Started, TimerMoves
  <1>9. CASE Crash
    BY <1>1, <1>9 DEF Crash, TimerMoves, NoTimer
  <1>10. ASSUME NEW k \in Schedule, TimerLooks(k) \/ TimerDue(k)
         PROVE  TimerMoves(s)
    <2>1. CASE k = s
      BY <1>10, <2>1 DEF TimerMoves
    <2>2. CASE k # s
      <3>1. timer'[s] = timer[s]
        BY <1>1, <1>10, <2>2 DEF TimerLooks, TimerDue
      <3> QED
        BY <3>1 DEF TimerMoves
    <2> QED
      BY <2>1, <2>2
  <1>11. CASE timer' = timer
    BY <1>11 DEF TimerMoves
  <1>12. CASE \/ Recover \/ Reconcile \/ AppendCreate \/ AppendDelete \/ AppendReschedule \/ Retire \/ CancelRetired
              \/ BeginList \/ Tick \/ OtherInput
    BY <1>11, <1>12 DEF Recover, Reconcile, AppendCreate, AppendDelete, AppendReschedule, Retire, CancelRetired,
                       BeginList, Tick, OtherInput
  <1>13. CASE \/ \E k \in Schedule : BeginDispatch(k) \/ BeginDelete(k) \/ BeginReschedule(k)
              \/ \E k \in Schedule, r \in Rules : BeginCreate(k, r)
              \/ \E l \in late : BeginLate(l)
              \/ \E m \in pending : Claim(m)
    BY <1>11, <1>13 DEF BeginDispatch, BeginDelete, BeginReschedule, BeginCreate, BeginLate, Claim
  <1> QED
    BY <1>4, <1>5, <1>6, <1>7, <1>8, <1>9, <1>10, <1>12, <1>13 DEF Next, OpStep, TimerStep

\* How the operation changes in one step: it begins, goes on or ends, and only
\* a timer that is due begins a dispatch.
LEMMA DispatchKept ==
    ASSUME ScheduleInv, Next, op'.kind = "dispatch"
    PROVE  \/ \E s \in Schedule : BeginDispatch(s)
           \/ op.kind = "dispatch" /\ op'.id = op.id /\ op'.seen = op.seen /\ UNCHANGED timer
           \/ \E s \in Schedule : op.kind = "dispatch" /\ UNCHANGED op /\ (TimerLooks(s) \/ TimerDue(s))
  <1>1. /\ ScheduleTypeOK /\ OpInv /\ op \in Operation
    BY DEF ScheduleInv, ScheduleTypeOK
  <1>2. op' # Free /\ op' # Starting
    <2>1. Free.kind = "none" /\ Starting.kind = "rearm"
      BY DEF Free, Starting
    <2> QED
      BY <2>1
  <1>3. CASE \/ Abandon \/ StartTimer \/ RecordOwn \/ Crash
    BY <1>2, <1>3 DEF Abandon, StartTimer, RecordOwn, Crash
  <1>4. CASE Enqueue
    <2>1. Goto("record") /\ UNCHANGED timer
      BY <1>2, <1>4 DEF Enqueue
    <2> QED
      BY <1>1, <2>1 DEF Goto, Operation
  <1>5. CASE \/ AppendCreate \/ AppendDelete \/ AppendReschedule \/ CancelRuntime \/ Retire \/ CancelRetired
    <2>1. op.kind \notin {"dispatch", "late"}
      BY <1>1, <1>5 DEF AppendCreate, AppendDelete, AppendReschedule, CancelRuntime, Retire, CancelRetired, OpInv
    <2>2. op'.kind = op.kind
      BY <1>1, <1>2, <1>5 DEF AppendCreate, AppendDelete, AppendReschedule, CancelRuntime, Retire, CancelRetired,
                              Goto, Operation
    <2> QED
      BY <2>1, <2>2
  <1>6. CASE Recover \/ Reconcile
    <2>1. op.kind \notin {"dispatch", "late"}
      BY <1>1, <1>6 DEF Recover, Reconcile, OpInv
    <2>2. op'.kind = op.kind
      BY <1>1, <1>2, <1>6 DEF Recover, Reconcile, Leave, Operation
    <2> QED
      BY <2>1, <2>2
  <1>7. CASE \/ BeginList \/ \E s \in Schedule : BeginDelete(s) \/ BeginReschedule(s)
             \/ \E s \in Schedule, r \in Rules : BeginCreate(s, r)
    <2>1. \A kind, s, rule : Begin(kind, s, rule) => op'.kind = kind
      BY DEF Begin, Free
    <2> QED
      BY <1>7, <2>1 DEF BeginList, BeginDelete, BeginReschedule, BeginCreate
  <1>8. CASE \E l \in late : BeginLate(l)
    BY <1>8 DEF BeginLate, Free
  <1>9. CASE Tick \/ OtherInput \/ \E m \in pending : Claim(m)
    BY <1>9 DEF Tick, OtherInput, Claim
  <1>10. CASE \E s \in Schedule : TimerLooks(s) \/ TimerDue(s)
    <2>1. UNCHANGED op
      BY <1>10 DEF TimerLooks, TimerDue
    <2> QED
      BY <1>10, <2>1
  <1> QED
    BY <1>3, <1>4, <1>5, <1>6, <1>7, <1>8, <1>9, <1>10 DEF Next, OpStep, TimerStep

\* What a timer, a dispatch and an aborted timer know is preserved.
LEMMA TimersStep ==
    ASSUME ScheduleInv, Next
    PROVE  TimerInv'
  <1>1. /\ ScheduleTypeOK /\ OpInv /\ TimerInv /\ timer \in [Schedule -> Slot] /\ op \in Operation
        /\ late \subseteq [id : Schedule, seen : Record] /\ now \in Nat /\ now' \in Nat /\ now <= now'
    BY HistoryTyped, ScheduleAssumption DEF ScheduleInv, ScheduleTypeOK
  <1>2. ASSUME NEW s \in Schedule
        PROVE  /\ timer'[s].pc \in {"wait", "due"} => timer'[s].seen \in Record
               /\ timer'[s].pc = "due" => timer'[s].seen.at <= now'
    <2>1. /\ timer[s] \in Slot
          /\ timer[s].pc \in {"wait", "due"} => timer[s].seen \in Record
          /\ timer[s].pc = "due" => timer[s].seen.at <= now
      BY <1>1 DEF TimerInv
    <2>2. \A r \in Record : r.at \in Nat
      BY ScheduleAssumption DEF Record, Time
    <2>3. CASE timer'[s] = timer[s]
      <3>1. timer[s].pc = "due" => timer[s].seen.at \in Nat
        BY <2>1, <2>2
      <3> QED
        BY <1>1, <2>1, <2>3, <3>1
    <2>4. CASE timer'[s].pc \in {"none", "over", "look"}
      BY <2>4
    <2>5. CASE TimerLooks(s)
      <3>1. CASE Active(s)
        <4>1. timer'[s].pc = "wait" /\ timer'[s].seen = rec[s]
          BY <1>1, <2>5, <3>1 DEF TimerLooks
        <4>2. rec[s] \in Record
          BY <1>1, <3>1, ActiveRecord
        <4> QED
          BY <4>1, <4>2
      <3>2. CASE ~Active(s)
        <4>1. timer'[s].pc = "over"
          BY <1>1, <2>1, <2>5, <3>2 DEF TimerLooks, Slot
        <4> QED
          BY <4>1
      <3> QED
        BY <3>1, <3>2
    <2>6. CASE TimerDue(s)
      <3>1. timer'[s].pc = "due" /\ timer'[s].seen = timer[s].seen /\ timer[s].pc = "wait"
            /\ timer[s].seen.at <= now /\ now' = now
        BY <1>1, <2>1, <2>6 DEF TimerDue, Slot
      <3> QED
        BY <2>1, <3>1
    <2> QED
      BY <2>3, <2>4, <2>5, <2>6, TimersMove DEF TimerMoves
  <1>3. ASSUME op'.kind = "dispatch"
        PROVE  timer'[op'.id].pc = "due" /\ timer'[op'.id].seen = op'.seen
    <2>1. ASSUME NEW s \in Schedule, BeginDispatch(s)
          PROVE  timer'[op'.id].pc = "due" /\ timer'[op'.id].seen = op'.seen
      <3>1. op'.id = s /\ op'.seen = timer[s].seen /\ timer' = timer /\ timer[s].pc = "due"
        BY <2>1 DEF BeginDispatch, Free
      <3> QED
        BY <3>1
    <2>2. CASE op.kind = "dispatch" /\ op'.id = op.id /\ op'.seen = op.seen /\ UNCHANGED timer
      BY <1>1, <2>2 DEF TimerInv
    <2>3. ASSUME NEW s \in Schedule, op.kind = "dispatch", UNCHANGED op, TimerLooks(s) \/ TimerDue(s)
          PROVE  timer'[op'.id].pc = "due" /\ timer'[op'.id].seen = op'.seen
      <3>1. op.id \in Schedule /\ timer[op.id].pc = "due" /\ timer[op.id].seen = op.seen
        BY <1>1, <2>3 DEF TimerInv, OpInv
      <3>2. s # op.id
        BY <2>3, <3>1 DEF TimerLooks, TimerDue
      <3>3. timer'[op.id] = timer[op.id]
        BY <1>1, <2>3, <3>1, <3>2 DEF TimerLooks, TimerDue
      <3> QED
        BY <2>3, <3>1, <3>3
    <2> QED
      BY <1>3, <2>1, <2>2, <2>3, DispatchKept
  <1>4. ASSUME NEW l \in late
        PROVE  Behind(l.id, l.seen)'
    BY <1>1, StaysBehind DEF TimerInv
  <1>5. ASSUME NEW l \in late'
        PROVE  Behind(l.id, l.seen)'
    <2>1. CASE l \in late
      BY <1>4, <2>1
    <2>2. CASE CancelRuntime /\ l \notin late
      <3> DEFINE s == op.id
      <3>1. /\ s \in Schedule /\ l = [id |-> s, seen |-> timer[s].seen] /\ timer[s].pc = "due"
            /\ op.kind \in {"delete", "reschedule"} /\ now' = now /\ rec' = rec
        <4>1. s \in Schedule /\ op.kind \in {"delete", "reschedule"}
          BY <1>1, <2>2 DEF CancelRuntime, OpInv
        <4> QED
          BY <2>2, <4>1 DEF CancelRuntime, Outlives
      <3>2. timer[s].seen \in Record /\ timer[s].seen.at <= now
        BY <1>1, <3>1 DEF TimerInv
      <3>3. Active(s) => rec[s].at > now
        BY <1>1, <2>2, <3>1 DEF OpInv, CancelRuntime, ScheduleInv, IdInv
      <3>4. timer[s].seen.at \in Nat /\ (Active(s) => rec[s].at \in Nat)
        BY <1>1, <3>1, <3>2, ActiveRecord, ScheduleAssumption DEF Record, Time
      <3>5. Behind(s, timer[s].seen)
        BY <1>1, <3>2, <3>3, <3>4 DEF Behind
      <3>6. l.id = s /\ l.seen = timer[s].seen
        BY <3>1
      <3> QED
        BY <3>1, <3>5, <3>6 DEF Behind, Active
    <2>3. CASE ~CancelRuntime
      <3>1. late' \subseteq late
        BY <2>3 DEF Next, OpStep, TimerStep, Recover, Reconcile, AppendCreate, AppendDelete, AppendReschedule,
                    StartTimer, Retire, CancelRetired, Enqueue, RecordOwn, Abandon, BeginList, Tick, OtherInput,
                    Crash, TimerLooks, TimerDue, BeginDispatch, BeginDelete, BeginReschedule, BeginCreate,
                    BeginLate, Claim
      <3> QED
        BY <1>4, <3>1
    <2> QED
      BY <2>1, <2>2, <2>3
  <1>6. ASSUME op'.kind = "late"
        PROVE  Behind(op.id, op.seen)'
    <2>1. ASSUME NEW l \in late, BeginLate(l)
          PROVE  Behind(op.id, op.seen)'
      <3>1. op'.id = l.id /\ op'.seen = l.seen
        BY <2>1 DEF BeginLate, Free
      <3> QED
        BY <1>4, <3>1 DEF Behind, Active
    <2>2. CASE ~\E l \in late : BeginLate(l)
      <3>1. op.kind = "late" /\ op'.id = op.id /\ op'.seen = op.seen
        <4>1. Free.kind = "none" /\ Starting.kind = "rearm"
          BY DEF Free, Starting
        <4>2. \A kind, s, rule : Begin(kind, s, rule) => op'.kind = kind
          BY DEF Begin, Free
        <4>3. ASSUME NEW s \in Schedule, BeginDispatch(s)
              PROVE  op'.kind = "dispatch"
          BY <4>3 DEF BeginDispatch, Free
        <4>4. CASE Enqueue
          BY <1>1, <1>6, <4>1, <4>4 DEF Enqueue, Goto, Operation
        <4>5. CASE \/ AppendCreate \/ AppendDelete \/ AppendReschedule \/ CancelRuntime \/ Retire \/ CancelRetired
          <5>1. op.kind \notin {"dispatch", "late"}
            BY <1>1, <4>5 DEF AppendCreate, AppendDelete, AppendReschedule, CancelRuntime, Retire, CancelRetired, OpInv
          <5>2. op'.kind = op.kind \/ op' = Free
            BY <1>1, <4>5 DEF AppendCreate, AppendDelete, AppendReschedule, CancelRuntime, Retire,
                              CancelRetired, Goto, Operation
          <5> QED
            BY <1>6, <4>1, <5>1, <5>2
        <4>6. CASE Recover \/ Reconcile
          <5>1. op.kind \notin {"dispatch", "late"}
            BY <1>1, <4>6 DEF Recover, Reconcile, OpInv
          <5>2. op'.kind = op.kind \/ op' = Free
            BY <1>1, <4>6 DEF Recover, Reconcile, Leave, Operation
          <5> QED
            BY <1>6, <4>1, <5>1, <5>2
        <4>7. CASE Abandon \/ StartTimer \/ RecordOwn \/ Crash
          BY <1>6, <4>1, <4>7 DEF Abandon, StartTimer, RecordOwn, Crash
        <4>8. CASE \/ BeginList \/ \E s \in Schedule : BeginDelete(s) \/ BeginReschedule(s)
                   \/ \E s \in Schedule, r \in Rules : BeginCreate(s, r)
          BY <1>6, <4>2, <4>8 DEF BeginList, BeginDelete, BeginReschedule, BeginCreate
        <4>9. CASE \/ Tick \/ OtherInput \/ \E s \in Schedule : TimerLooks(s) \/ TimerDue(s)
                   \/ \E m \in pending : Claim(m)
          BY <1>6, <4>9 DEF Tick, OtherInput, TimerLooks, TimerDue, Claim
        <4> QED
          BY <1>6, <2>2, <4>3, <4>4, <4>5, <4>6, <4>7, <4>8, <4>9 DEF Next, OpStep, TimerStep
      <3>2. Behind(op.id, op.seen) /\ op.id \in Schedule /\ op.seen \in Record
        BY <1>1, <3>1 DEF TimerInv, OpInv
      <3> DEFINE s == op.id
                 r == op.seen
      <3>3. op'.id = s /\ op'.seen = r
        BY <3>1
      <3>4. Behind(s, r) /\ s \in Schedule /\ r \in Record
        BY <3>2
      <3>5. r.at <= now' /\ (rec'[s] # NoRecord => r.at < rec'[s].at)
        BY <3>4, StaysBehind DEF Behind, Active
      <3> QED
        BY <3>3, <3>5 DEF Behind, Active
    <2> QED
      BY <2>1, <2>2
  <1> QED
    BY <1>2, <1>3, <1>5, <1>6 DEF TimerInv

\* A reminder goes out only for the occurrence its armed record waits for, from
\* the timer that waits for it: an aborted timer never gets that far.
LEMMA RemindersGrow ==
    ASSUME ScheduleInv, Next
    PROVE  \/ UNCHANGED sent /\ pending' \subseteq pending
           \/ /\ StillDue(op.id) /\ op.kind = "dispatch" /\ op.pc = "append" /\ op.id \in Schedule
              /\ op' = [op EXCEPT !.pc = "record"]
              /\ sent' = Append(sent, [id |-> op.id, at |-> op.seen.at, on |-> now])
              /\ pending' = pending \union {Len(sent) + 1}
              /\ UNCHANGED <<now, rec, armed, created, deleted, dispatched, timer, late, silenced>>
  <1>1. /\ ScheduleTypeOK /\ OpInv /\ TimerInv
    BY DEF ScheduleInv
  <1>2. CASE Enqueue
    <2>1. op.kind \in {"dispatch", "late"} /\ op.id \in Schedule /\ op.seen \in Record /\ op.pc = "append"
      BY <1>1, <1>2 DEF Enqueue, OpInv
    <2>2. StillDue(op.id) => op.kind # "late"
      <3>1. StillDue(op.id) => Active(op.id) /\ rec[op.id] = op.seen
        BY <1>1 DEF StillDue, ScheduleTypeOK, Active
      <3>2. Active(op.id) => rec[op.id].at \in Nat
        BY <1>1, <2>1, ActiveRecord
      <3> QED
        BY <1>1, <3>1, <3>2 DEF TimerInv, Behind
    <2> QED
      BY <1>2, <2>1, <2>2 DEF Enqueue, Goto
  <1>3. CASE ~Enqueue
    BY <1>3 DEF Next, OpStep, TimerStep, Recover, Reconcile, AppendCreate, AppendDelete, AppendReschedule,
                CancelRuntime, StartTimer, Retire, CancelRetired, RecordOwn, Abandon, BeginList, Tick, OtherInput,
                Crash, TimerLooks, TimerDue, BeginDispatch, BeginDelete, BeginReschedule, BeginCreate,
                BeginLate, Claim
  <1> QED
    BY <1>2, <1>3

\* The occurrence of a dispatch whose record is still due was never announced:
\* every earlier reminder of the schedule is for an earlier time.
LEMMA DueIsNew ==
    ASSUME ScheduleInv, StillDue(op.id), op.kind = "dispatch", op.pc = "append", op.id \in Schedule,
           NEW m \in DOMAIN sent, sent[m].id = op.id
    PROVE  sent[m].at < rec[op.id].at
  <1>1. /\ op.id \in armed /\ Active(op.id)
    BY DEF StillDue, ScheduleInv, ScheduleTypeOK, Active
  <1>2. Precedes(m) /\ timer[op.id].pc = "due"
    BY DEF ScheduleInv, SentInv, TimerInv
  <1>3. sent[m].at = rec[op.id].at => m \notin dispatched
    <2>1. sent[m].at \in Nat
      BY SentTyped DEF ScheduleInv
    <2> QED
      BY <1>1, <1>2, <2>1 DEF Precedes
  <1>4. m \notin Unrecorded
    BY <1>2 DEF ScheduleInv, UnrecordedInv, Own
  <1> QED
    BY <1>1, <1>2, <1>3, <1>4 DEF Unrecorded, Precedes

\* The reminders of a schedule stay before the occurrence it waits for.
LEMMA SentStep ==
    ASSUME ScheduleInv, Next
    PROVE  SentInv'
  <1>1. /\ ScheduleTypeOK /\ ScheduleTypeOK' /\ SentInv /\ OccurrencesAdvance /\ now \in Nat /\ now' \in Nat
        /\ now <= now' /\ sent \in Seq(Reminder) /\ OpInv
    <2>1. ScheduleTypeOK' /\ now' \in 0..MaxTime /\ now <= now'
      BY TypeStep, HistoryTyped
    <2>2. ScheduleTypeOK /\ SentInv /\ OccurrencesAdvance /\ OpInv
      BY DEF ScheduleInv
    <2>3. now \in 0..MaxTime /\ sent \in Seq(Reminder)
      BY <2>2 DEF ScheduleTypeOK
    <2> QED
      BY <2>1, <2>2, <2>3, ScheduleAssumption
  <1>2. created \subseteq created'
    BY DEF Next, OpStep, TimerStep, Recover, Reconcile, AppendCreate, AppendDelete, AppendReschedule,
           CancelRuntime, StartTimer, Retire, CancelRetired, Enqueue, RecordOwn, Abandon, BeginList, Tick, OtherInput,
           Crash, TimerLooks, TimerDue, BeginDispatch, BeginDelete, BeginReschedule, BeginCreate,
           BeginLate, Claim
  <1>3. ASSUME NEW m \in DOMAIN sent, sent'[m] = sent[m]
        PROVE  /\ sent'[m].id \in created' /\ sent'[m].at <= sent'[m].on /\ sent'[m].on <= now'
               /\ Precedes(m)'
    <2> DEFINE s == sent[m].id
    <2>1. /\ s \in Schedule /\ sent[m].at \in Nat /\ sent[m].on \in Nat
          /\ s \in created /\ sent[m].at <= sent[m].on /\ sent[m].on <= now /\ Precedes(m)
      BY <1>1, SentTyped DEF SentInv
    <2>2. /\ sent'[m].id \in created' /\ sent'[m].at <= sent'[m].on /\ sent'[m].on <= now'
      BY <1>1, <1>2, <1>3, <2>1
    <2>3. /\ Active(s) => rec[s].at \in Nat
          /\ rec'[s] # NoRecord => rec'[s].at \in Nat
      <3>1. rec[s] \in Record \union {NoRecord} /\ rec'[s] \in Record \union {NoRecord}
        BY <1>1, <2>1 DEF ScheduleTypeOK
      <3>2. \A r \in Record : r.at \in Nat
        BY ScheduleAssumption DEF Record, Time
      <3> QED
        BY <3>1, <3>2 DEF Active
    <2> DEFINE G == \/ rec'[s] = NoRecord
                    \/ sent[m].at < rec'[s].at
                    \/ sent[m].at = rec'[s].at /\ (m \in dispatched' <=> s \notin armed')
    <2>4. G
      <3>0. \/ rec[s] = NoRecord
            \/ sent[m].at < rec[s].at
            \/ sent[m].at = rec[s].at /\ (m \in dispatched <=> s \notin armed)
        BY <2>1 DEF Precedes, Active
      <3>1. CASE UNCHANGED <<rec, armed, dispatched>>
        BY <3>0, <3>1
      <3>2. CASE rec'[s] = NoRecord \/ rec'[s].at > now
        BY <1>1, <2>1, <2>3, <3>2
      <3>3. ASSUME NEW k \in Schedule, RecordEndsOrMoves(k)
            PROVE  G
        <4>1. CASE k = s
          BY <3>2, <3>3, <4>1 DEF RecordEndsOrMoves, Active
        <4>2. CASE k # s
          <5>1. rec'[s] = rec[s] /\ (s \in armed' <=> s \in armed) /\ dispatched' = dispatched
            BY <2>1, <3>3, <4>2 DEF RecordEndsOrMoves
          <5> QED
            BY <3>0, <5>1
        <4> QED
          BY <4>1, <4>2
      <3>4. ASSUME NEW n \in Unrecorded, RecordDispatch(n)
            PROVE  G
        <4> DEFINE t == sent[n].id
        <4>1. /\ t \in armed /\ t \in Schedule /\ dispatched' = dispatched \union {n}
              /\ \A k \in Schedule : k # t => rec'[k] = rec[k]
              /\ \/ rec'[t] = NoRecord /\ armed' = armed \ {t}
                 \/ rec'[t] = rec[t] /\ armed' = armed \ {t}
                 \/ rec'[t] \in Record /\ rec'[t].at > rec[t].at /\ armed' = armed
          BY <3>4, RecordingMoves
        <4>2. n \in DOMAIN sent /\ n \notin dispatched /\ Active(t) /\ rec[t].at = sent[n].at
          BY DEF Unrecorded
        <4>3. CASE t # s
          <5>1. rec'[s] = rec[s] /\ (s \in armed' <=> s \in armed) /\ (m \in dispatched' <=> m \in dispatched)
            BY <2>1, <4>1, <4>3
          <5> QED
            BY <3>0, <5>1
        <4>4. CASE t = s
          <5>1. CASE rec'[s] = NoRecord
            BY <5>1
          <5>2. CASE rec'[s] \in Record /\ rec'[s].at > rec[s].at
            BY <2>1, <2>3, <3>0, <4>2, <4>4, <5>2 DEF Active
          <5>3. CASE rec'[s] = rec[s] /\ armed' = armed \ {s}
            <6>1. sent[m].at = rec[s].at => m = n
              <7>1. n \in Nat /\ m \in Nat /\ sent[n].at \in Nat
                BY <1>1, <4>2, SentTyped
              <7>2. m < n \/ n < m => sent[m].at # sent[n].at
                BY <1>1, <2>1, <4>2, <4>4, <7>1 DEF OccurrencesAdvance
              <7> QED
                BY <4>2, <4>4, <7>1, <7>2
            <6> QED
              BY <3>0, <4>1, <4>2, <4>4, <5>3, <6>1 DEF Active
          <5> QED
            BY <4>1, <4>4, <5>1, <5>2, <5>3
        <4> QED
          BY <4>3, <4>4
      <3> QED
        BY <3>1, <3>3, <3>4, ProjectionMoves
    <2>5. Precedes(m)'
      BY <1>3, <2>4 DEF Precedes, Active
    <2> QED
      BY <2>2, <2>5
  <1>4. CASE UNCHANGED sent
    BY <1>3, <1>4 DEF SentInv
  <1>5. CASE /\ StillDue(op.id) /\ op.kind = "dispatch" /\ op.pc = "append" /\ op.id \in Schedule
             /\ sent' = Append(sent, [id |-> op.id, at |-> op.seen.at, on |-> now])
             /\ UNCHANGED <<now, rec, armed, created, dispatched>>
    <2> DEFINE e == [id |-> op.id, at |-> op.seen.at, on |-> now]
    <2>0. PICK n : n = Len(sent) + 1
      OBVIOUS
    <2>1. /\ op.id \in armed /\ Active(op.id) /\ rec[op.id] = op.seen /\ rec[op.id].at <= now
      BY <1>1, <1>5 DEF StillDue, ScheduleTypeOK, Active
    <2>2. e \in Reminder
      <3>1. op.seen \in Record /\ now \in 0..MaxTime
        BY <1>1, <1>5 DEF OpInv, ScheduleTypeOK
      <3>2. now \in Time
        BY <3>1, ScheduleAssumption DEF Time
      <3> QED
        BY <1>5, <3>1, <3>2 DEF Reminder, Record
    <2>3. e.id = op.id /\ e.at = rec[op.id].at /\ e.on = now
      BY <2>1
    <2> HIDE DEF e
    <2>4. sent' = Append(sent, e)
      BY <1>5 DEF e
    <2>5. /\ DOMAIN sent' = DOMAIN sent \union {n} /\ sent'[n] = e
          /\ \A m \in DOMAIN sent : sent'[m] = sent[m]
      BY <1>1, <2>0, <2>2, <2>4
    <2>6. n \notin dispatched
      <3>1. dispatched \subseteq DOMAIN sent /\ DOMAIN sent = 1..Len(sent) /\ Len(sent) \in Nat
        BY <1>1 DEF ScheduleTypeOK
      <3> QED
        BY <2>0, <3>1
    <2>7. /\ sent'[n].id \in created' /\ sent'[n].at <= sent'[n].on /\ sent'[n].on <= now'
          /\ rec'[op.id].at = sent'[n].at /\ n \notin dispatched' /\ op.id \in armed'
      BY <1>1, <1>5, <2>1, <2>3, <2>5, <2>6 DEF ScheduleInv, IdInv
    <2>8. Precedes(n)'
      BY <2>3, <2>5, <2>7 DEF Precedes
    <2> QED
      BY <1>3, <2>5, <2>7, <2>8 DEF SentInv
  <1> QED
    BY <1>4, <1>5, RemindersGrow

\* A new reminder is the last one, and it is unrecorded.
LEMMA NewReminder ==
    ASSUME ScheduleInv, StillDue(op.id), op.kind = "dispatch", op.pc = "append", op.id \in Schedule,
           op' = [op EXCEPT !.pc = "record"],
           sent' = Append(sent, [id |-> op.id, at |-> op.seen.at, on |-> now]),
           UNCHANGED <<rec, dispatched>>
    PROVE  /\ Len(sent) \in Nat /\ Len(sent') = Len(sent) + 1
           /\ DOMAIN sent = 1..Len(sent) /\ DOMAIN sent' = 1..Len(sent')
           /\ \A m \in DOMAIN sent : sent'[m] = sent[m]
           /\ sent'[Len(sent')].id = op.id /\ sent'[Len(sent')].at = rec[op.id].at
           /\ Len(sent') \in Unrecorded'
           /\ op'.pc = "record" /\ op'.id = op.id /\ op'.kind = "dispatch" /\ op'.seen = op.seen
           /\ rec[op.id] = op.seen
  <1> DEFINE e == [id |-> op.id, at |-> op.seen.at, on |-> now]
  <1>1. /\ op.id \in armed /\ Active(op.id) /\ rec[op.id] = op.seen /\ rec[op.id].at <= now
    BY DEF ScheduleInv, StillDue, ScheduleTypeOK, Active
  <1>2. e \in Reminder
    <2>1. op.seen \in Record /\ now \in 0..MaxTime
      BY DEF ScheduleInv, OpInv, ScheduleTypeOK
    <2>2. now \in Time
      BY <2>1, ScheduleAssumption DEF Time
    <2> QED
      BY <2>1, <2>2 DEF Reminder, Record
  <1>3. e.id = op.id /\ e.at = rec[op.id].at
    BY <1>1
  <1> HIDE DEF e
  <1>4. sent' = Append(sent, e) /\ sent \in Seq(Reminder) /\ dispatched \subseteq DOMAIN sent
    BY DEF e, ScheduleInv, ScheduleTypeOK
  <1>5. /\ Len(sent) \in Nat /\ Len(sent') = Len(sent) + 1
        /\ DOMAIN sent = 1..Len(sent) /\ DOMAIN sent' = 1..Len(sent')
        /\ \A m \in DOMAIN sent : sent'[m] = sent[m]
        /\ sent'[Len(sent')] = e
    BY <1>2, <1>4
  <1>6. Len(sent') \in DOMAIN sent' /\ Len(sent') \notin dispatched'
    BY <1>4, <1>5
  <1>7. Len(sent') \in Unrecorded'
    BY <1>1, <1>3, <1>5, <1>6 DEF Unrecorded, Active
  <1>8. op'.pc = "record" /\ op'.id = op.id /\ op'.kind = "dispatch" /\ op'.seen = op.seen
    BY DEF ScheduleInv, ScheduleTypeOK, Operation
  <1> QED
    BY <1>1, <1>3, <1>5, <1>7, <1>8

\* No occurrence is announced twice.
LEMMA OccurrencesStep ==
    ASSUME ScheduleInv, Next
    PROVE  OccurrencesAdvance'
  <1>1. ScheduleTypeOK /\ OccurrencesAdvance
    BY DEF ScheduleInv
  <1>2. CASE UNCHANGED sent
    BY <1>1, <1>2 DEF OccurrencesAdvance
  <1>3. CASE /\ StillDue(op.id) /\ op.kind = "dispatch" /\ op.pc = "append" /\ op.id \in Schedule
             /\ op' = [op EXCEPT !.pc = "record"]
             /\ sent' = Append(sent, [id |-> op.id, at |-> op.seen.at, on |-> now])
             /\ UNCHANGED <<rec, dispatched>>
    <2>1. /\ Len(sent) \in Nat /\ Len(sent') = Len(sent) + 1
          /\ DOMAIN sent = 1..Len(sent) /\ DOMAIN sent' = 1..Len(sent')
          /\ \A m \in DOMAIN sent : sent'[m] = sent[m]
          /\ sent'[Len(sent')].id = op.id /\ sent'[Len(sent')].at = rec[op.id].at
      BY <1>3, NewReminder
    <2>2. ASSUME NEW i \in DOMAIN sent', NEW j \in DOMAIN sent', i < j, sent'[i].id = sent'[j].id
          PROVE  sent'[i].at < sent'[j].at
      <3>1. i \in DOMAIN sent
        BY <2>1, <2>2
      <3>2. CASE j \in DOMAIN sent
        BY <1>1, <2>1, <2>2, <3>1, <3>2 DEF OccurrencesAdvance
      <3>3. CASE j \notin DOMAIN sent
        <4>1. j = Len(sent')
          BY <2>1, <3>3
        <4>2. sent[i].id = op.id
          BY <2>1, <2>2, <3>1, <4>1
        <4>3. sent[i].at < rec[op.id].at
          BY <1>3, <3>1, <4>2, DueIsNew
        <4> QED
          BY <2>1, <3>1, <4>1, <4>3
      <3> QED
        BY <3>2, <3>3
    <2> QED
      BY <2>2 DEF OccurrencesAdvance
  <1> QED
    BY <1>2, <1>3, RemindersGrow

\* Only the enqueue of a dispatch leads to its record step.
LEMMA OwnStep ==
    ASSUME ScheduleInv, Next
    PROVE  OwnInv'
  <1>1. ScheduleTypeOK /\ OpInv /\ op \in Operation /\ OwnInv
    BY DEF ScheduleInv, ScheduleTypeOK
  <1>2. CASE UNCHANGED <<op, sent, dispatched, rec>>
    BY <1>1, <1>2 DEF OwnInv, Unrecorded, Active
  <1>3. CASE /\ StillDue(op.id) /\ op.kind = "dispatch" /\ op.pc = "append" /\ op.id \in Schedule
             /\ op' = [op EXCEPT !.pc = "record"]
             /\ sent' = Append(sent, [id |-> op.id, at |-> op.seen.at, on |-> now])
             /\ UNCHANGED <<rec, dispatched>>
    <2>1. /\ Len(sent') \in Unrecorded' /\ sent'[Len(sent')].id = op.id
          /\ op'.id = op.id /\ op'.seen = op.seen /\ rec[op.id] = op.seen
      BY <1>3, NewReminder
    <2> QED
      BY <1>3, <2>1 DEF OwnInv
  <1>4. CASE op'.pc # "record"
    BY <1>4 DEF OwnInv
  <1>5. Free.pc = "idle" /\ Starting.pc = "recover"
    BY DEF Free, Starting
  <1>6. CASE UNCHANGED sent
    <2>1. CASE Abandon \/ StartTimer \/ RecordOwn \/ Crash
      BY <1>4, <1>5, <2>1 DEF Abandon, StartTimer, RecordOwn, Crash
    <2>2. CASE Enqueue
      <3>1. op' = Free
        <4>1. sent' # Append(sent, [id |-> op.id, at |-> op.seen.at, on |-> now])
          <5>1. sent \in Seq(Reminder) /\ [id |-> op.id, at |-> op.seen.at, on |-> now] \in Reminder
            <6>1. op.seen \in Record /\ now \in Time /\ op.id \in Schedule
              BY <1>1, <2>2, ScheduleAssumption DEF OpInv, ScheduleTypeOK, Time, Enqueue
            <6> QED
              BY <1>1, <6>1 DEF ScheduleTypeOK, Reminder, Record
          <5> DEFINE e == [id |-> op.id, at |-> op.seen.at, on |-> now]
          <5> HIDE DEF e
          <5>2. Len(Append(sent, e)) = Len(sent) + 1 /\ Len(sent) \in Nat
            BY <5>1 DEF e
          <5> QED
            BY <1>6, <5>2 DEF e
        <4> QED
          BY <2>2, <4>1 DEF Enqueue
      <3> QED
        BY <1>4, <1>5, <3>1
    <2>3. CASE \/ AppendCreate \/ AppendDelete \/ AppendReschedule \/ CancelRuntime \/ Retire \/ CancelRetired
      BY <1>1, <1>4, <1>5, <2>3 DEF AppendCreate, AppendDelete, AppendReschedule, CancelRuntime, Retire,
                                    CancelRetired, Goto, Operation
    <2>4. CASE Recover \/ Reconcile
      <3>1. \A pc \in {"recover", "reconcile"} : After(pc) # "record"
        BY DEF After
      <3>2. op' = op \/ Leave("recover") \/ Leave("reconcile")
        BY <2>4 DEF Recover, Reconcile
      <3>3. op.pc # "record"
        BY <2>4 DEF Recover, Reconcile
      <3> QED
        BY <1>1, <1>4, <1>5, <3>1, <3>2, <3>3 DEF Leave, Operation
    <2>5. CASE \/ BeginList \/ \E s \in Schedule : BeginDelete(s) \/ BeginReschedule(s)
               \/ \E s \in Schedule, r \in Rules : BeginCreate(s, r)
      <3>1. \A kind, s, rule : Begin(kind, s, rule) => op'.pc = "recover"
        BY DEF Begin, Free
      <3> QED
        BY <1>4, <2>5, <3>1 DEF BeginList, BeginDelete, BeginReschedule, BeginCreate
    <2>6. ASSUME NEW s \in Schedule, BeginDispatch(s)
          PROVE  op'.pc # "record"
      BY <2>6 DEF BeginDispatch, Free
    <2>7. ASSUME NEW l \in late, BeginLate(l)
          PROVE  op'.pc # "record"
      BY <2>7 DEF BeginLate, Free
    <2>8. CASE \/ Tick \/ OtherInput \/ \E s \in Schedule : TimerLooks(s) \/ TimerDue(s)
               \/ \E m \in pending : Claim(m)
      BY <1>2, <2>8 DEF Tick, OtherInput, TimerLooks, TimerDue, Claim
    <2> QED
      BY <1>4, <2>1, <2>2, <2>3, <2>4, <2>5, <2>6, <2>7, <2>8 DEF Next, OpStep, TimerStep
  <1> QED
    BY <1>3, <1>6, RemindersGrow

\* A reminder becomes unrecorded when it enters the inbox and at no other time.
LEMMA UnrecordedBefore ==
    ASSUME ScheduleInv, Next, NEW m \in DOMAIN sent, sent'[m] = sent[m], m \in Unrecorded'
    PROVE  m \in Unrecorded
  <1> DEFINE s == sent[m].id
  <1>1. /\ ScheduleTypeOK /\ s \in Schedule /\ sent[m].at \in Nat /\ sent[m].on \in Nat /\ now \in Nat
        /\ sent[m].at <= sent[m].on /\ sent[m].on <= now /\ Precedes(m)
    BY SentTyped, ScheduleAssumption DEF ScheduleInv, SentInv, ScheduleTypeOK
  <1>2. m \notin dispatched' /\ rec'[s] # NoRecord /\ rec'[s].at = sent[m].at
    BY DEF Unrecorded, Active
  <1>3. m \notin dispatched
    <2>1. dispatched \subseteq dispatched'
      <3>1. ASSUME NEW n \in Unrecorded, RecordDispatch(n)
            PROVE  dispatched \subseteq dispatched'
        BY <3>1 DEF RecordDispatch
      <3>2. ASSUME NEW k \in Schedule, RecordEndsOrMoves(k)
            PROVE  dispatched \subseteq dispatched'
        BY <3>2 DEF RecordEndsOrMoves
      <3> QED
        BY <3>1, <3>2, ProjectionMoves
    <2> QED
      BY <1>2, <2>1
  <1>4. Active(s) => rec[s].at \in Nat
    BY <1>1, ActiveRecord
  <1>5. rec'[s] = rec[s]
    <2>1. ASSUME NEW n \in Unrecorded, RecordDispatch(n)
          PROVE  rec'[s] = rec[s]
      <3>1. CASE sent[n].id # s
        BY <1>1, <2>1, <3>1, RecordingMoves
      <3>2. CASE sent[n].id = s
        <4>1. Active(s)
          BY <3>2 DEF Unrecorded
        <4>2. sent[m].at <= rec[s].at
          BY <1>1, <1>4, <4>1 DEF Precedes
        <4>3. rec'[s] = NoRecord \/ rec'[s] = rec[s] \/ rec'[s].at > rec[s].at
          BY <2>1, <3>2, RecordingMoves
        <4> QED
          BY <1>1, <1>2, <1>4, <4>1, <4>2, <4>3
      <3> QED
        BY <3>1, <3>2
    <2>2. ASSUME NEW k \in Schedule, RecordEndsOrMoves(k)
          PROVE  rec'[s] = rec[s]
      <3>1. CASE k # s
        BY <1>1, <2>2, <3>1 DEF RecordEndsOrMoves
      <3>2. CASE k = s
        BY <1>1, <1>2, <2>2, <3>2 DEF RecordEndsOrMoves, Active
      <3> QED
        BY <3>1, <3>2
    <2> QED
      BY <2>1, <2>2, ProjectionMoves
  <1> QED
    BY <1>2, <1>3, <1>5 DEF Unrecorded, Active

\* The recovery that every operation begins with leaves nothing unrecorded, and
\* no timer starts before it.
LEMMA UnrecordedStep ==
    ASSUME ScheduleInv, Next
    PROVE  UnrecordedInv'
  <1>1. ScheduleTypeOK /\ OpInv /\ op \in Operation /\ OwnInv /\ UnrecordedInv /\ timer \in [Schedule -> Slot]
    BY DEF ScheduleInv, ScheduleTypeOK
  <1>2. Free.pc = "idle" /\ Starting.pc = "recover"
    BY DEF Free, Starting
  <1>3. ASSUME NEW m \in Unrecorded, m \in Unrecorded', UNCHANGED sent
        PROVE  /\ op'.pc \in {"idle", "recover"} \/ op'.kind \in {"dispatch", "late"}
               /\ Own(m)' \/ timer'[sent[m].id].pc \in {"none", "over"}
    <2> DEFINE s == sent[m].id
    <2>1. m \in DOMAIN sent /\ s \in Schedule
      BY <1>1, SentTyped DEF Unrecorded
    <2>2. op.pc \in {"idle", "recover"} \/ op.kind \in {"dispatch", "late"}
      BY <1>1 DEF UnrecordedInv
    <2>3. op.kind \in {"dispatch", "late"} => op.pc \in {"append", "record"}
      BY <1>1 DEF OpInv
    <2>4. /\ ~Reconcile /\ ~CancelRuntime /\ ~StartTimer /\ ~Retire /\ ~CancelRetired
          /\ ~AppendCreate /\ ~AppendDelete /\ ~AppendReschedule
      BY <2>2, <2>3 DEF Reconcile, CancelRuntime, StartTimer, Retire, CancelRetired, AppendCreate, AppendDelete,
                        AppendReschedule
    <2>5. op'.pc \in {"idle", "recover"} \/ op'.kind \in {"dispatch", "late"}
      <3>1. CASE UNCHANGED op
        BY <2>2, <3>1
      <3>2. CASE Recover
        BY <3>1, <3>2 DEF Recover
      <3>3. CASE Enqueue
        <4>1. CASE op' = Free
          BY <1>2, <4>1
        <4>2. CASE op' = [op EXCEPT !.pc = "record"]
          <5>1. op'.kind = op.kind /\ op.kind \in {"dispatch", "late"}
            BY <1>1, <3>3, <4>2 DEF Operation, Enqueue
          <5> QED
            BY <5>1
        <4> QED
          BY <3>3, <4>1, <4>2 DEF Enqueue, Goto
      <3>4. CASE RecordOwn \/ Abandon \/ Crash
        BY <1>2, <3>4 DEF RecordOwn, Abandon, Crash
      <3>5. CASE \/ BeginList \/ \E k \in Schedule : BeginDelete(k) \/ BeginReschedule(k)
                 \/ \E k \in Schedule, r \in Rules : BeginCreate(k, r)
        <4>1. \A kind, k, rule : Begin(kind, k, rule) => op'.pc = "recover"
          BY DEF Begin, Free
        <4> QED
          BY <3>5, <4>1 DEF BeginList, BeginDelete, BeginReschedule, BeginCreate
      <3>6. ASSUME NEW k \in Schedule, BeginDispatch(k)
            PROVE  op'.kind = "dispatch"
        BY <3>6 DEF BeginDispatch, Free
      <3>7. ASSUME NEW l \in late, BeginLate(l)
            PROVE  op'.kind = "late"
        BY <3>7 DEF BeginLate, Free
      <3>8. CASE \/ Tick \/ OtherInput \/ \E k \in Schedule : TimerLooks(k) \/ TimerDue(k)
                 \/ \E k \in pending : Claim(k)
        BY <3>1, <3>8 DEF Tick, OtherInput, TimerLooks, TimerDue, Claim
      <3> QED
        BY <2>4, <3>2, <3>3, <3>4, <3>5, <3>6, <3>7, <3>8 DEF Next, OpStep, TimerStep
    <2>6. CASE ~Own(m)
      <3>1. timer[s].pc \in {"none", "over"}
        BY <1>1, <2>6 DEF UnrecordedInv
      <3>2. ~TimerLooks(s) /\ ~TimerDue(s)
        BY <3>1 DEF TimerLooks, TimerDue
      <3>3. timer'[s] = timer[s] \/ timer'[s].pc \in {"none", "over"}
        BY <2>1, <2>4, <3>1, <3>2, TimersMove DEF TimerMoves
      <3> QED
        BY <2>5, <3>1, <3>3
    <2>7. CASE Own(m)
      <3>1. op.pc = "record" /\ m = Len(sent) /\ s = op.id /\ op.kind = "dispatch"
        BY <1>1, <2>7 DEF Own, OwnInv, OpInv
      <3>2. CASE UNCHANGED op
        BY <1>3, <2>5, <3>1, <3>2 DEF Own
      <3>3. CASE RecordOwn
        <4>1. m \in dispatched'
          BY <3>1, <3>3 DEF RecordOwn, RecordDispatch
        <4> QED
          BY <1>3, <4>1 DEF Unrecorded
      <3>4. CASE Abandon
        <4>1. timer'[s].pc = "over"
          <5>1. timer[s] \in Slot
            BY <1>1, <2>1
          <5> QED
            BY <1>1, <2>1, <3>1, <3>4, <5>1 DEF Abandon, Returned, Slot
        <4> QED
          BY <2>5, <4>1
      <3>5. CASE Crash
        BY <2>1, <2>5, <3>5 DEF Crash, NoTimer
      <3>6. CASE \/ Recover \/ Enqueue \/ BeginList \/ Tick
                 \/ \E k \in Schedule : BeginDelete(k) \/ BeginReschedule(k) \/ BeginDispatch(k)
                 \/ \E k \in Schedule, r \in Rules : BeginCreate(k, r)
                 \/ \E l \in late : BeginLate(l)
        BY <3>1, <3>6 DEF Recover, Enqueue, BeginList, Tick, BeginDelete, BeginReschedule, BeginDispatch,
                          BeginCreate, BeginLate, Begin
      <3>7. CASE \/ OtherInput \/ \E k \in Schedule : TimerLooks(k) \/ TimerDue(k)
                 \/ \E k \in pending : Claim(k)
        BY <3>2, <3>7 DEF OtherInput, TimerLooks, TimerDue, Claim
      <3> QED
        BY <2>4, <3>3, <3>4, <3>5, <3>6, <3>7 DEF Next, OpStep, TimerStep
    <2> QED
      BY <2>6, <2>7
  <1>4. CASE UNCHANGED sent
    <2> SUFFICES ASSUME NEW m \in Unrecorded'
                 PROVE  /\ op'.pc \in {"idle", "recover"} \/ op'.kind \in {"dispatch", "late"}
                        /\ Own(m)' \/ timer'[sent'[m].id].pc \in {"none", "over"}
      BY DEF UnrecordedInv
    <2>1. m \in DOMAIN sent /\ sent'[m] = sent[m]
      BY <1>4 DEF Unrecorded
    <2>2. m \in Unrecorded
      BY <2>1, UnrecordedBefore
    <2> QED
      BY <1>3, <1>4, <2>2
  <1>5. CASE /\ StillDue(op.id) /\ op.kind = "dispatch" /\ op.pc = "append" /\ op.id \in Schedule
             /\ op' = [op EXCEPT !.pc = "record"]
             /\ sent' = Append(sent, [id |-> op.id, at |-> op.seen.at, on |-> now])
             /\ UNCHANGED <<rec, dispatched, timer>>
    <2>1. /\ Len(sent) \in Nat /\ Len(sent') = Len(sent) + 1
          /\ DOMAIN sent = 1..Len(sent) /\ DOMAIN sent' = 1..Len(sent')
          /\ \A m \in DOMAIN sent : sent'[m] = sent[m]
          /\ op'.pc = "record" /\ op'.kind = "dispatch"
      BY <1>5, NewReminder
    <2>2. ASSUME NEW m \in Unrecorded'
          PROVE  Own(m)' \/ timer'[sent'[m].id].pc \in {"none", "over"}
      <3>1. m \in DOMAIN sent'
        BY DEF Unrecorded
      <3>2. CASE m = Len(sent')
        BY <2>1, <3>2 DEF Own
      <3>3. CASE m \in DOMAIN sent
        <4>1. sent'[m] = sent[m] /\ m \in Unrecorded
          BY <2>1, <3>3, UnrecordedBefore
        <4>2. ~Own(m)
          BY <1>5 DEF Own
        <4> QED
          BY <1>1, <1>5, <4>1, <4>2 DEF UnrecordedInv
      <3> QED
        BY <2>1, <3>1, <3>2, <3>3
    <2> QED
      BY <2>1, <2>2 DEF UnrecordedInv
  <1> QED
    BY <1>4, <1>5, RemindersGrow

\* A deletion that was reported done stays done.
LEMMA SilentStep ==
    ASSUME ScheduleInv, Next
    PROVE  SilencedStaysSilent'
  <1>1. /\ ScheduleTypeOK /\ OpInv /\ IdInv /\ SilencedStaysSilent /\ pending \subseteq DOMAIN sent
    BY DEF ScheduleInv, ScheduleTypeOK
  <1>2. CASE Enqueue
    <2>1. silenced' = silenced
      BY <1>2 DEF Enqueue
    <2>2. CASE UNCHANGED sent /\ pending' \subseteq pending
      BY <1>1, <2>1, <2>2 DEF SilencedStaysSilent
    <2>3. CASE /\ StillDue(op.id) /\ op.kind = "dispatch" /\ op.pc = "append" /\ op.id \in Schedule
               /\ op' = [op EXCEPT !.pc = "record"]
               /\ sent' = Append(sent, [id |-> op.id, at |-> op.seen.at, on |-> now])
               /\ pending' = pending \union {Len(sent) + 1}
               /\ UNCHANGED <<rec, dispatched>>
      <3>1. /\ Len(sent') = Len(sent) + 1 /\ \A m \in DOMAIN sent : sent'[m] = sent[m]
            /\ sent'[Len(sent')].id = op.id
        BY <2>3, NewReminder
      <3>2. op.id \notin silenced
        BY <1>1, <2>3 DEF StillDue, IdInv, ScheduleTypeOK, Active
      <3> QED
        BY <1>1, <2>1, <2>3, <3>1, <3>2 DEF SilencedStaysSilent
    <2> QED
      BY <2>2, <2>3, RemindersGrow
  <1>3. CASE Reconcile
    BY <1>1, <1>3 DEF Reconcile, SilencedStaysSilent, DeletedPending
  <1>4. CASE CancelRuntime
    BY <1>1, <1>4 DEF CancelRuntime, SilencedStaysSilent, PendingOf
  <1>5. CASE ~(Enqueue \/ Reconcile \/ CancelRuntime)
    <2>1. UNCHANGED sent /\ pending' \subseteq pending /\ silenced' \subseteq silenced
      BY <1>5 DEF Next, OpStep, TimerStep, Recover, AppendCreate, AppendDelete, AppendReschedule, StartTimer,
                  Retire, CancelRetired, RecordOwn, Abandon, BeginList, Tick, OtherInput, Crash, TimerLooks,
                  TimerDue, BeginDispatch, BeginDelete, BeginReschedule, BeginCreate, BeginLate, Claim
    <2> QED
      BY <1>1, <2>1 DEF SilencedStaysSilent
  <1> QED
    BY <1>2, <1>3, <1>4, <1>5

-----------------------------------------------------------------------------
(* The theorems                                                             *)

\* The invariant holds of a session without schedules.
LEMMA InvInit == Init => ScheduleInv
  <1> SUFFICES ASSUME Init PROVE ScheduleInv
    OBVIOUS
  <1>1. sent = << >> /\ sent \in Seq(Reminder) /\ Len(sent) = 0 /\ DOMAIN sent = {}
    BY DEF Init
  <1>2. Starting \in Operation /\ op = Starting /\ op.kind = "rearm" /\ op.pc = "recover"
    BY DEF Init, Starting, Free, Operation
  <1>3. timer \in [Schedule -> Slot] /\ \A s \in Schedule : timer[s].pc = "none"
    BY DEF Init, NoTimer, Slot
  <1>4. other \in 0..MaxPending /\ other + Cardinality(pending) <= MaxPending
    BY FS_EmptySet, ScheduleAssumption DEF Init
  <1>5. ScheduleTypeOK
    BY <1>1, <1>2, <1>3, <1>4, ScheduleAssumption DEF Init, ScheduleTypeOK
  <1>6. OpInv /\ IdInv /\ TimerInv
    BY <1>2, <1>3 DEF Init, OpInv, IdInv, TimerInv, Active
  <1>7. SentInv /\ OwnInv /\ UnrecordedInv /\ OccurrencesAdvance /\ SilencedStaysSilent
    BY <1>1, <1>2 DEF Init, SentInv, OwnInv, UnrecordedInv, Unrecorded, OccurrencesAdvance, SilencedStaysSilent
  <1> QED
    BY <1>5, <1>6, <1>7 DEF ScheduleInv

\* Every step preserves the invariant.
LEMMA InvStep == ScheduleInv /\ [Next]_vars => ScheduleInv'
  <1> SUFFICES ASSUME ScheduleInv, [Next]_vars PROVE ScheduleInv'
    OBVIOUS
  <1>1. CASE Next
    BY <1>1, TypeStep, OperationStep, IdStep, TimersStep, SentStep, OwnStep, UnrecordedStep, OccurrencesStep,
       SilentStep DEF ScheduleInv
  <1>2. CASE UNCHANGED vars
    BY <1>2 DEF vars, ScheduleInv, ScheduleTypeOK, OpInv, IdInv, TimerInv, Behind, SentInv, Precedes, OwnInv,
                UnrecordedInv, Own, Unrecorded, Active, OccurrencesAdvance, SilencedStaysSilent
  <1> QED
    BY <1>1, <1>2

\* The invariant holds in every reachable state.
LEMMA InvAlways == Spec => []ScheduleInv
  BY InvInit, InvStep, PTL DEF Spec

\* Type correctness: in particular an armed schedule has a record, and the inbox
\* never holds more than MAX_PENDING_INBOX_MESSAGES.
THEOREM ScheduleTypeCorrect == Spec => []ScheduleTypeOK
  <1>1. ScheduleInv => ScheduleTypeOK
    BY DEF ScheduleInv
  <1> QED
    BY InvAlways, <1>1, PTL

\* No occurrence is announced twice and no schedule goes back in time: not when
\* the process ends between the enqueue and the Dispatch event, not when an
\* aborted timer's dispatch runs late, not when a wakeup is rescheduled.
THEOREM OccurrencesAlwaysAdvance == Spec => []OccurrencesAdvance
  <1>1. ScheduleInv => OccurrencesAdvance
    BY DEF ScheduleInv
  <1> QED
    BY InvAlways, <1>1, PTL

\* recover_enqueued_dispatches can always write the Dispatch event it owes, so
\* an operation never fails for good on an old reminder.
THEOREM RecoveryAlwaysAccepted == Spec => []RecoveryAccepted
  <1>1. ScheduleInv => RecoveryAccepted
    BY AcceptedWhenUnrecorded DEF RecoveryAccepted
  <1> QED
    BY InvAlways, <1>1, PTL

\* Once a deletion was reported as done, no reminder of that schedule is in the
\* inbox, or ever enters it again.
THEOREM SilencedAlwaysSilent == Spec => []SilencedStaysSilent
  <1>1. ScheduleInv => SilencedStaysSilent
    BY DEF ScheduleInv
  <1> QED
    BY InvAlways, <1>1, PTL
=============================================================================
