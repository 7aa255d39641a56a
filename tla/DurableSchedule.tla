-------------------------- MODULE DurableSchedule ---------------------------
(***************************************************************************)
(* Durable reminders: records in the session log, one timer task for each  *)
(* armed record, and a dispatch that puts a message into the inbox and     *)
(* then records that it did.  The operations lock lets one operation run   *)
(* at a time, but each is several appends, with turns claiming messages,   *)
(* the clock, a failing append or the end of the process in between, and a *)
(* timer that was aborted may already be waiting for the lock.             *)
(*                                                                         *)
(* The schedule events of the log are kept as their projection             *)
(* (project_schedules): rec, armed and deleted.  A root session is         *)
(* modelled; a fork's inherited schedules are not.                         *)
(***************************************************************************)
EXTENDS Integers, Sequences, FiniteSets

CONSTANTS
    Schedule,      \* schedule ids; an id is created once
    Rules,         \* which rules are used, a subset of Rule
    MaxActive,     \* MAX_ACTIVE_SCHEDULES
    MaxPending,    \* MAX_PENDING_INBOX_MESSAGES
    Every,         \* the interval of a fixed-rate rule
    Lifetime,      \* how long a recurring cron rule or a wakeup lives
    Delay,         \* how far ahead a record is first or again scheduled
    MaxTime,       \* where the modelled clock stops
    FaultBudget, CrashBudget

\* once: After and At.  cronOnce: a cron rule that does not recur.
Rule == {"once", "cronOnce", "every", "cron", "wakeup"}

ASSUME ScheduleAssumption ==
    /\ Rules \subseteq Rule /\ MaxActive \in Nat /\ MaxPending \in Nat
    /\ Every \in Nat \ {0} /\ Lifetime \in Nat /\ Delay \in Nat \ {0}
    /\ MaxTime \in Nat /\ FaultBudget \in Nat /\ CrashBudget \in Nat

VARIABLES
    now,        \* the wall clock
    rec,        \* active: each schedule's record, or NoRecord
    armed,      \* the armed part of the projection
    created,    \* every id a Create event names
    deleted,    \* every id a Delete event names
    sent,       \* reminders ever inserted into the inbox, in log order
    dispatched, \* the reminders (indexes of sent) a Dispatch event names
    pending,    \* the reminders still in the inbox
    other,      \* how many other messages the inbox holds
    timer,      \* runtime.timers: no slot, or the task that slot holds
    late,       \* dispatches of aborted timers that wait for the operations lock
    op,         \* the operation that holds the operations lock
    silenced,   \* schedules whose deletion was reported as done
    failed,     \* schedules whose last dispatch returned an error
    born,       \* schedules created by this process
    spent       \* what the bounds have used up

vars == <<now, rec, armed, created, deleted, sent, dispatched, pending, other, timer, late, op, silenced,
          failed, born, spent>>

Time == 0..(MaxTime + Every + Lifetime + Delay)
NoRecord == [rule |-> "none", at |-> 0, expires |-> 0]
Record == [rule : Rules, at : Time, expires : Time]
Reminder == [id : Schedule, at : Time, on : Time]
NoTimer == [pc |-> "none", seen |-> NoRecord]
Free == [kind |-> "none", id |-> "none", pc |-> "idle", rule |-> "none", seen |-> NoRecord]
Starting == [Free EXCEPT !.kind = "rearm", !.pc = "recover"]
Operation ==
    [kind : {"none", "rearm", "create", "delete", "reschedule", "dispatch", "late", "list"},
     id : Schedule \union {"none"}, rule : Rules \union {"none"}, seen : Record \union {NoRecord},
     pc : {"idle", "recover", "retire", "retired", "reconcile", "append", "cancel", "start", "record"}]

\* look: about to read its record.  wait: asleep until its time.  due: waiting
\* for the operations lock.  over: the task has returned; its slot stays in
\* runtime.timers.
Slot == [pc : {"none", "look", "wait", "due", "over"}, seen : Record \union {NoRecord}]

ScheduleTypeOK ==
    /\ now \in 0..MaxTime
    /\ rec \in [Schedule -> Record \union {NoRecord}]
    /\ armed \subseteq {s \in Schedule : rec[s] # NoRecord}
    /\ deleted \subseteq created /\ created \subseteq Schedule
    /\ sent \in Seq(Reminder)
    /\ dispatched \subseteq DOMAIN sent /\ pending \subseteq DOMAIN sent
    /\ other \in 0..MaxPending /\ other + Cardinality(pending) <= MaxPending
    /\ timer \in [Schedule -> Slot]
    /\ late \subseteq [id : Schedule, seen : Record]
    /\ op \in Operation
    /\ silenced \subseteq Schedule /\ failed \subseteq Schedule /\ born \subseteq created
    /\ spent \in [faults : Nat, crashes : Nat]

-----------------------------------------------------------------------------
(* The projection of schedule events                                       *)

Active(s) == rec[s] # NoRecord
OneShot(r) == r.rule \in {"once", "cronOnce", "wakeup"}

\* Mutant: check_capacity admits one message too many.
RoomForOneMore == other + Cardinality(pending) <= MaxPending

\* check_capacity of the inbox.
Room == other + Cardinality(pending) < MaxPending

\* Mutant: the interval that contains the accepted time is not left.
NotPast(r, accepted) == r.at + ((accepted - r.at) \div Every) * Every

\* The first occurrence after the accepted time that is aligned with the rate.
NextAligned(r, accepted) == r.at + ((accepted - r.at) \div Every + 1) * Every

\* What a Dispatch event leaves of a record.  A wakeup stays, unarmed.
AfterDispatch(r, accepted) ==
    CASE r.rule \in {"once", "cronOnce"} -> NoRecord
      [] r.rule = "every" -> [r EXCEPT !.at = NextAligned(r, accepted)]
      [] r.rule = "cron" /\ accepted < r.expires -> [r EXCEPT !.at = accepted + 1]
      [] r.rule = "wakeup" /\ accepted < r.expires -> r
      [] OTHER -> NoRecord
Rearms(r) == r.rule \in {"every", "cron"}

\* append_schedule_change(Dispatch): refused unless the projection accepts it.
MayRecord(m) ==
    LET s == sent[m].id IN m \notin dispatched /\ s \in armed /\ rec[s].at = sent[m].at
\* The occurrence counts as accepted when its reminder was inserted, however
\* much later the Dispatch event is recovered.
RecordDispatch(m) ==
    LET s == sent[m].id
        next == AfterDispatch(rec[s], IF sent[m].on < rec[s].at THEN rec[s].at ELSE sent[m].on)
    IN /\ rec' = [rec EXCEPT ![s] = next]
       /\ armed' = IF next # NoRecord /\ Rearms(next) THEN armed ELSE armed \ {s}
       /\ dispatched' = dispatched \union {m}

\* Mutant: recovery does not look at the Dispatch events of the log.
RecoverAgain == {m \in DOMAIN sent : Active(sent[m].id) /\ rec[sent[m].id].at = sent[m].at}

\* recover_enqueued_dispatches: a reminder in the inbox log for the occurrence
\* its record still waits for, without a Dispatch event.
Unrecorded == {m \in DOMAIN sent : /\ m \notin dispatched
                                   /\ Active(sent[m].id) /\ rec[sent[m].id].at = sent[m].at}

DeletedPending == {m \in pending : sent[m].id \in deleted}
PendingOf(s) == {m \in pending : sent[m].id = s}

Fault == spent.faults < FaultBudget /\ spent' = [spent EXCEPT !.faults = @ + 1]

-----------------------------------------------------------------------------
(* The operations lock                                                     *)

Begin(kind, s, rule) ==
    op.pc = "idle" /\ op' = [Free EXCEPT !.kind = kind, !.id = s, !.pc = "recover", !.rule = rule]
Goto(pc) == op' = [op EXCEPT !.pc = pc]
After(pc) == CASE op.kind = "create" /\ pc = "recover" -> "reconcile"
               [] op.kind = "create" /\ pc = "reconcile" -> "append"
               [] op.kind \in {"delete", "reschedule"} -> "append"
               [] op.kind = "rearm" /\ pc = "recover" -> "retire"
               [] op.kind = "rearm" /\ pc = "reconcile" -> "start"
               [] op.kind = "list" /\ pc = "recover" -> "reconcile"
               [] OTHER -> "done"
Leave(pc) == op' = IF After(pc) = "done" THEN Free ELSE [op EXCEPT !.pc = After(pc)]

BeginCreate(s, rule) ==
    /\ s \notin created
    /\ Begin("create", s, rule)
    /\ UNCHANGED <<now, rec, armed, created, deleted, sent, dispatched, pending, other, timer, late, silenced,
                   failed, born, spent>>
BeginDelete(s) ==
    /\ Active(s)
    /\ Begin("delete", s, "none")
    /\ UNCHANGED <<now, rec, armed, created, deleted, sent, dispatched, pending, other, timer, late, silenced,
                   failed, born, spent>>
BeginReschedule(s) ==
    /\ Active(s) /\ rec[s].rule = "wakeup"
    /\ Begin("reschedule", s, "none")
    /\ UNCHANGED <<now, rec, armed, created, deleted, sent, dispatched, pending, other, timer, late, silenced,
                   failed, born, spent>>
BeginList ==
    /\ Unrecorded # {} \/ DeletedPending # {}
    /\ Begin("list", "none", "none")
    /\ UNCHANGED <<now, rec, armed, created, deleted, sent, dispatched, pending, other, timer, late, silenced,
                   failed, born, spent>>

\* Where the timer task goes once its dispatch has returned.
Returned(s, ok) ==
    IF op.kind = "dispatch"
    THEN timer' = [timer EXCEPT ![s].pc = IF ok /\ ~OneShot(op.seen) THEN "look" ELSE "over"]
    ELSE UNCHANGED timer

\* An operation gives up with an error; what it appended stays.
Abandon ==
    /\ op.pc # "idle" /\ op.kind # "rearm"
    /\ Fault
    /\ op' = Free
    /\ failed' = IF op.id = "none" THEN failed ELSE failed \union {op.id}
    /\ Returned(op.id, FALSE)
    /\ UNCHANGED <<now, rec, armed, created, deleted, sent, dispatched, pending, other, late, silenced, born>>

\* One turn of the recovery loop, which every operation but dispatch begins with.
Recover ==
    /\ op.pc = "recover"
    /\ \/ /\ Unrecorded = {}
          /\ Leave("recover")
          /\ UNCHANGED <<rec, armed, dispatched>>
       \/ \E m \in Unrecorded :
            /\ \A k \in Unrecorded : m <= k
            /\ MayRecord(m)
            /\ RecordDispatch(m)
            /\ UNCHANGED op
    /\ UNCHANGED <<now, created, deleted, sent, pending, other, timer, late, silenced, failed, born, spent>>

\* reconcile_deleted_pending.  A message claimed meanwhile needs no cancel.
Reconcile ==
    /\ op.pc = "reconcile"
    /\ pending' = pending \ DeletedPending
    /\ silenced' = silenced \union deleted
    /\ Leave("reconcile")
    /\ UNCHANGED <<now, rec, armed, created, deleted, sent, dispatched, other, timer, late, failed, born, spent>>

\* create: the record, refused at the limit, then its timer.
AppendCreate ==
    LET s == op.id
    IN /\ op.kind = "create" /\ op.pc = "append"
       /\ \/ /\ Cardinality({k \in Schedule : Active(k)}) < MaxActive
             /\ rec' = [rec EXCEPT ![s] = [rule |-> op.rule, at |-> now + Delay, expires |-> now + Lifetime]]
             /\ armed' = armed \union {s}
             /\ created' = created \union {s} /\ born' = born \union {s}
             /\ Goto("start")
          \/ /\ Cardinality({k \in Schedule : Active(k)}) >= MaxActive
             /\ op' = Free
             /\ UNCHANGED <<rec, armed, created, born>>
       /\ UNCHANGED <<now, deleted, sent, dispatched, pending, other, timer, late, silenced, failed, spent>>

\* delete_unlocked: recovery may have retired the record already.
AppendDelete ==
    LET s == op.id
    IN /\ op.kind = "delete" /\ op.pc = "append"
       /\ \/ /\ Active(s)
             /\ rec' = [rec EXCEPT ![s] = NoRecord]
             /\ armed' = armed \ {s}
             /\ deleted' = deleted \union {s}
             /\ Goto("cancel")
          \/ /\ ~Active(s)
             /\ op' = Free
             /\ UNCHANGED <<rec, armed, deleted>>
       /\ UNCHANGED <<now, created, sent, dispatched, pending, other, timer, late, silenced, failed, born, spent>>

AppendReschedule ==
    LET s == op.id
    IN /\ op.kind = "reschedule" /\ op.pc = "append"
       /\ \/ /\ Active(s) /\ now < rec[s].expires
             /\ rec' = [rec EXCEPT ![s].at = now + Delay]
             /\ armed' = armed \union {s}
             /\ Goto("cancel")
          \/ /\ ~(Active(s) /\ now < rec[s].expires)
             /\ op' = Free
             /\ UNCHANGED <<rec, armed>>
       /\ UNCHANGED <<now, created, deleted, sent, dispatched, pending, other, timer, late, silenced, failed, born,
                      spent>>

\* cancel_runtime_timer frees the slot and aborts the task; abort does not
\* reach a task that is blocked on the operations lock.
Outlives(s) == IF timer[s].pc = "due" THEN {[id |-> s, seen |-> timer[s].seen]} ELSE {}

\* cancel_runtime_timer and cancel_pending_for.
CancelRuntime ==
    LET s == op.id
    IN /\ op.pc = "cancel"
       /\ timer' = [timer EXCEPT ![s] = NoTimer]
       /\ late' = late \union Outlives(s)
       /\ pending' = pending \ PendingOf(s)
       /\ \/ op.kind = "delete" /\ op' = Free /\ silenced' = silenced \union {s}
          \/ op.kind = "reschedule" /\ Goto("start") /\ UNCHANGED silenced
       /\ UNCHANGED <<now, rec, armed, created, deleted, sent, dispatched, other, failed, born, spent>>

\* start_timer: a slot that exists is left alone.
Started(S) == [s \in Schedule |-> IF s \in S /\ timer[s].pc = "none"
                                  THEN [pc |-> "look", seen |-> NoRecord] ELSE timer[s]]
StartTimer ==
    /\ op.pc = "start"
    /\ timer' = Started(IF op.kind = "rearm" THEN armed ELSE {op.id})
    /\ failed' = failed \ {op.id}
    /\ op' = Free
    /\ UNCHANGED <<now, rec, armed, created, deleted, sent, dispatched, pending, other, late, silenced, born, spent>>

\* What rearm retires before it starts timers.
Retiring(r) == \/ r.rule = "wakeup"
               \/ r.rule = "cronOnce" /\ r.at <= now
               \/ r.rule = "cron" /\ r.expires <= now
Retire ==
    /\ op.pc = "retire"
    /\ \/ \E s \in Schedule :
            /\ Active(s) /\ Retiring(rec[s])
            /\ rec' = [rec EXCEPT ![s] = NoRecord]
            /\ armed' = armed \ {s}
            /\ deleted' = deleted \union {s}
            /\ op' = [op EXCEPT !.pc = "retired", !.id = s]
       \/ /\ \A s \in Schedule : ~(Active(s) /\ Retiring(rec[s]))
          /\ Goto("reconcile")
          /\ UNCHANGED <<rec, armed, deleted>>
    /\ UNCHANGED <<now, created, sent, dispatched, pending, other, timer, late, silenced, failed, born, spent>>
CancelRetired ==
    /\ op.pc = "retired"
    /\ pending' = pending \ PendingOf(op.id)
    /\ op' = [op EXCEPT !.pc = "retire", !.id = "none"]
    /\ UNCHANGED <<now, rec, armed, created, deleted, sent, dispatched, other, timer, late, silenced, failed, born,
                   spent>>

-----------------------------------------------------------------------------
(* Timers and dispatch                                                     *)

\* run_timer reads its record and sleeps, or ends with the record.
TimerLooks(s) ==
    /\ timer[s].pc = "look"
    /\ timer' = [timer EXCEPT ![s] = IF Active(s) THEN [pc |-> "wait", seen |-> rec[s]]
                                     ELSE [@ EXCEPT !.pc = "over"]]
    /\ UNCHANGED <<now, rec, armed, created, deleted, sent, dispatched, pending, other, late, op, silenced, failed,
                   born, spent>>

\* Mutant: the sleep ends only after the target, and sleeps on at the target.
TimerPastDue(s) ==
    /\ timer[s].pc = "wait" /\ timer[s].seen.at < now
    /\ timer' = [timer EXCEPT ![s].pc = "due"]
    /\ UNCHANGED <<now, rec, armed, created, deleted, sent, dispatched, pending, other, late, op, silenced, failed,
                   born, spent>>

\* wait_until has reached the target.
TimerDue(s) ==
    /\ timer[s].pc = "wait" /\ timer[s].seen.at <= now
    /\ timer' = [timer EXCEPT ![s].pc = "due"]
    /\ UNCHANGED <<now, rec, armed, created, deleted, sent, dispatched, pending, other, late, op, silenced, failed,
                   born, spent>>

\* dispatch takes the lock, for a live timer or for an aborted one.
BeginDispatch(s) ==
    /\ op.pc = "idle" /\ timer[s].pc = "due"
    /\ op' = [Free EXCEPT !.kind = "dispatch", !.id = s, !.pc = "append", !.seen = timer[s].seen]
    /\ UNCHANGED <<now, rec, armed, created, deleted, sent, dispatched, pending, other, timer, late, silenced,
                   failed, born, spent>>
BeginLate(l) ==
    /\ op.pc = "idle" /\ l \in late
    /\ op' = [Free EXCEPT !.kind = "late", !.id = l.id, !.pc = "append", !.seen = l.seen]
    /\ late' = late \ {l}
    /\ UNCHANGED <<now, rec, armed, created, deleted, sent, dispatched, pending, other, timer, silenced, failed,
                   born, spent>>

\* Mutant: dispatch trusts the record the timer read before it slept.
TrustsTimer(s) == op.seen.at <= now

\* dispatch goes on only for the very record the timer waited for.
StillDue(s) == s \in armed /\ rec[s] = op.seen /\ rec[s].at <= now

\* The reminder enters the inbox; a full inbox is an error like any other.
Enqueue ==
    LET s == op.id
    IN /\ op.kind \in {"dispatch", "late"} /\ op.pc = "append"
       /\ \/ /\ StillDue(s) /\ Room
             /\ sent' = Append(sent, [id |-> s, at |-> op.seen.at, on |-> now])
             /\ pending' = pending \union {Len(sent) + 1}
             /\ Goto("record")
             /\ UNCHANGED <<timer, failed>>
          \/ /\ StillDue(s) /\ ~Room
             /\ op' = Free
             /\ failed' = failed \union {s}
             /\ Returned(s, FALSE)
             /\ UNCHANGED <<sent, pending>>
          \/ /\ ~StillDue(s)
             /\ op' = Free
             /\ Returned(s, TRUE)
             /\ UNCHANGED <<sent, pending, failed>>
       /\ UNCHANGED <<now, rec, armed, created, deleted, dispatched, other, late, silenced, born, spent>>

\* ... and then the Dispatch event, whose checkpoint may fail behind it.
RecordOwn ==
    /\ op.pc = "record"
    /\ MayRecord(Len(sent))
    /\ RecordDispatch(Len(sent))
    /\ op' = Free
    /\ \/ Returned(op.id, TRUE) /\ UNCHANGED <<failed, spent>>
       \/ Fault /\ Returned(op.id, FALSE) /\ failed' = failed \union {op.id}
    /\ UNCHANGED <<now, created, deleted, sent, pending, other, late, silenced, born>>

-----------------------------------------------------------------------------
(* The rest of the world                                                   *)

\* A step of the clock is the shortest delay a record may ask for (a minute
\* for a wakeup); an operation is over in much less.
Tick == /\ op.pc = "idle" /\ now < MaxTime /\ now' = now + 1
        /\ UNCHANGED <<rec, armed, created, deleted, sent, dispatched, pending, other, timer, late, op, silenced,
                       failed, born, spent>>
\* A turn claims a reminder.
Claim(m) ==
    /\ m \in pending
    /\ pending' = pending \ {m}
    /\ UNCHANGED <<now, rec, armed, created, deleted, sent, dispatched, other, timer, late, op, silenced, failed,
                   born, spent>>
\* Other messages come and go.
OtherInput ==
    /\ other' \in (IF Room THEN {other + 1} ELSE {}) \union (IF other > 0 THEN {other - 1} ELSE {})
    /\ UNCHANGED <<now, rec, armed, created, deleted, sent, dispatched, pending, timer, late, op, silenced, failed,
                   born, spent>>

\* close, or the process ends anywhere: every timer task is gone with it.  The
\* next process rearms, any time later.
Crash ==
    /\ spent.crashes < CrashBudget
    /\ spent' = [spent EXCEPT !.crashes = @ + 1]
    /\ timer' = [s \in Schedule |-> NoTimer]
    /\ late' = {} /\ op' = Starting
    /\ silenced' = {} /\ failed' = {} /\ born' = {}
    /\ now' \in now .. MaxTime
    /\ UNCHANGED <<rec, armed, created, deleted, sent, dispatched, pending, other>>

Init ==
    /\ now = 0
    /\ rec = [s \in Schedule |-> NoRecord]
    /\ armed = {} /\ created = {} /\ deleted = {} /\ dispatched = {} /\ pending = {} /\ late = {}
    /\ silenced = {} /\ failed = {} /\ born = {}
    /\ sent = << >>
    /\ other \in 0..MaxPending
    /\ timer = [s \in Schedule |-> NoTimer]
    /\ op = Starting
    /\ spent = [faults |-> 0, crashes |-> 0]

OpStep == \/ Recover \/ Reconcile \/ AppendCreate \/ AppendDelete \/ AppendReschedule \/ CancelRuntime
          \/ StartTimer \/ Retire \/ CancelRetired \/ Enqueue \/ RecordOwn
TimerStep(s) == TimerLooks(s) \/ TimerDue(s) \/ BeginDispatch(s)

Next ==
    \/ OpStep \/ Abandon \/ BeginList \/ Tick \/ OtherInput \/ Crash
    \/ \E s \in Schedule : TimerStep(s) \/ BeginDelete(s) \/ BeginReschedule(s)
    \/ \E s \in Schedule, r \in Rules : BeginCreate(s, r)
    \/ \E l \in late : BeginLate(l)
    \/ \E m \in pending : Claim(m)

\* An operation is synchronous code; tokio runs every timer, and a timer that
\* keeps asking for the operations lock gets it.
Spec == /\ Init /\ [][Next]_vars
        /\ WF_vars(OpStep)
        /\ \A s \in Schedule : SF_vars(TimerStep(s))

-----------------------------------------------------------------------------
(* Properties                                                              *)

\* No occurrence is announced twice, and a schedule never goes back: the
\* reminders of one schedule carry strictly later times, over crashes between
\* the enqueue and its Dispatch event, late dispatches of aborted timers and
\* reschedules.
OccurrencesAdvance ==
    \A i, j \in DOMAIN sent : i < j /\ sent[i].id = sent[j].id => sent[i].at < sent[j].at

\* Recovery can always be written: a reminder without its Dispatch event is
\* one the projection accepts.  Otherwise every later operation, which begins
\* with that recovery, would fail for good.
RecoveryAccepted == \A m \in Unrecorded : MayRecord(m)

\* Once a deletion is reported done, or a start has reconciled it, none of the
\* schedule's reminders is in the inbox, now or later.
SilencedStaysSilent == \A m \in pending : sent[m].id \notin silenced

\* A self-paced wakeup ends with the process that created it: once a start has
\* rearmed, every active wakeup was created by this process.
WakeupsDieWithProcess ==
    op.kind # "rearm" => \A s \in Schedule : rec[s].rule = "wakeup" => s \in born

Alive(s) == timer[s].pc \in {"look", "wait", "due"}

\* An armed record owns a live timer that waits for that record, or its
\* operation is still on its way, or its last dispatch or start failed.
ArmedHasTimer ==
    \A s \in armed : Alive(s) \/ op.kind = "rearm" \/ op.id = s \/ s \in failed

\* What list_with_state reports: an armed record "currently owns a pending
\* timer" (durable_schedule.rs:218).
ListedTimerLives == \A s \in armed : Alive(s) \/ op.kind = "rearm" \/ op.id = s

\* Every due reminder goes out: an armed record whose time has come is
\* dispatched, deleted or moved, unless its dispatch failed.
DueGoesOut ==
    \A s \in Schedule : (s \in armed /\ rec[s].at <= now)
                            ~> (s \notin armed \/ rec[s].at > now \/ s \in failed)
=============================================================================
