----------------------------- MODULE JobsProofs -----------------------------
(***************************************************************************)
(* What holds of the background jobs of any session, whatever their kinds, *)
(* the limits, the failing writes, the cancellations and the restarts.     *)
(***************************************************************************)
EXTENDS Jobs, TLAPS, FiniteSetTheorems

\* A worker that has told nobody of its result: neither the session log nor the
\* outbox knows its job.
Unsent(j) ==
    \/ task[j].pc \in {"queued", "running", "reserved", "refused"}
    \/ task[j].pc = "settle" /\ row[j].kind # "agent"

\* What one job's worker, row, outbox entry and notices have to do with each other.
\* A settlement between its locks still finds its row reserved, unless the
\* registry was emptied under it.
WorkerInv(j) ==
    /\ task[j].pc \in {"settle", "reserved", "refused", "enqueued", "deliver", "admit", "cleanup"} =>
            task[j].outcome \in Outcome
    /\ task[j].pc \in {"reserved", "refused", "enqueued"} =>
            /\ row[j].kind \in {"plain", "foreground"}
            /\ row[j].state = "absent" \/ (Live(j) /\ row[j].settling)
    /\ task[j].pc \in {"deliver", "admit", "cleanup"} => row[j].kind = "agent"
    /\ Unsent(j) => notices[j] = << >> /\ ~Retained(j)
    /\ task[j].pc = "enqueued" => notices[j] # << >> \/ (row[j].kind = "foreground" /\ ~row[j].wakes)
    /\ task[j].pc = "cleanup" => notices[j] # << >>
    /\ Len(notices[j]) <= 1
    /\ Notifies(j) /\ row[j].state = "completed" => notices[j] # << >> \/ Retained(j)

\* What a capacity release recovers was retained when it looked, and is in the
\* log if it is not retained any more.
PassInv(j) ==
    \A r \in Releaser : j \in releaser[r].todo =>
        /\ ~Unsent(j)
        /\ Retained(j) \/ notices[j] # << >>
        /\ releaser[r].pc = "cleanup" /\ Current(r, j) => notices[j] # << >>

\* An id nobody has used.
Untouched(j) ==
    /\ task[j].pc = "none" /\ row[j].state = "absent"
    /\ notices[j] = << >> /\ ~Retained(j)
    /\ \A r \in Releaser : j \notin releaser[r].todo

\* What the history file says of a job.  An id the file has not handed out has
\* left no trace, so the next process may hand it out again.
FileInv(j) ==
    /\ j >= disk.next => Untouched(j) /\ disk.outbox[j] = NoNotice /\ disk.state[j] = "absent"
    /\ disk.state[j] = "completed" =>
            /\ row[j].state \in {"completed", "absent"}
            /\ Notifies(j) => notices[j] # << >> \/ disk.outbox[j] # NoNotice

JobInv(j) == WorkerInv(j) /\ PassInv(j) /\ FileInv(j)

JobsInv == JobTypeOK /\ disk.next <= nextId /\ \A j \in Job : JobInv(j)

-----------------------------------------------------------------------------
(* The operators                                                           *)

\* Removing a row keeps it a row of the same kind.
LEMMA GoneType ==
    ASSUME NEW x \in Row
    PROVE  /\ Gone(x) \in Row
           /\ Gone(x).state = "absent" /\ ~Gone(x).settling
           /\ Gone(x).kind = x.kind /\ Gone(x).wakes = x.wakes /\ Gone(x).cancelled = x.cancelled
BY DEF Gone, Row, State

\* prune_locked removes settled rows without a retained notice and changes nothing else.
LEMMA PrunedFacts ==
    ASSUME NEW r \in [Job -> Row], NEW b, NEW over
    PROVE  /\ Pruned(r, b, over) \in [Job -> Row]
           /\ \A j \in Job : \/ Pruned(r, b, over)[j] = r[j]
                             \/ /\ Pruned(r, b, over)[j] = Gone(r[j])
                                /\ r[j].state \in Outcome /\ b[j] = NoNotice /\ over[j]
<1>1. \A j \in Job : \/ Pruned(r, b, over)[j] = r[j]
                     \/ /\ Pruned(r, b, over)[j] = Gone(r[j])
                        /\ r[j].state \in Outcome /\ b[j] = NoNotice /\ over[j]
  BY Zenon DEF Pruned, Prunable
<1>2. Pruned(r, b, over) = [j \in Job |-> Pruned(r, b, over)[j]]
  BY Zenon DEF Pruned
<1>3. \A j \in Job : Pruned(r, b, over)[j] \in Row
  BY <1>1, GoneType
<1>. QED
  BY <1>1, <1>2, <1>3

\* persist_locked writes a well-formed history.
LEMMA HistoryType ==
    ASSUME NEW r \in [Job -> Row], NEW b \in [Job -> Notice \union {NoNotice}], NEW n \in 1..(MaxAdmissions + 1)
    PROVE  /\ History(r, b, n) \in HistoryFile
           /\ \A j \in Job : History(r, b, n).state[j] = r[j].state
           /\ History(r, b, n).outbox = b /\ History(r, b, n).next = n
<1>1. [j \in Job |-> r[j].state] \in [Job -> State]
  BY DEF Row
<1>. QED
  BY <1>1 DEF History, HistoryFile

\* A pass over a set of jobs.
LEMMA RecoveringType ==
    ASSUME NEW todo \in SUBSET Job
    PROVE  /\ Recovering(todo) \in Pass
           /\ Recovering(todo).todo = todo /\ Recovering(todo).pc \in {"idle", "persist"}
BY DEF Recovering, Pass

\* What a release takes up is retained.
LEMMA RecoverableFacts ==
    ASSUME NEW b
    PROVE  /\ Recoverable(b) \subseteq Job
           /\ \A j \in Recoverable(b) : b[j] # NoNotice
BY Zenon DEF Recoverable

\* The ends of a worker.
LEMMA AbortedType ==
    ASSUME NEW t \in Worker
    PROVE  /\ Aborted(t) \in Worker
           /\ Aborted(t).pc \in {t.pc, "none"}
           /\ Aborted(t).pc # "none" => Aborted(t).outcome = t.outcome /\ Aborted(t).token = t.token
           /\ t.pc \notin {"queued", "running"} => Aborted(t).pc = t.pc
           /\ Aborted(t).token \in {t.token, FALSE}
<1>1. CASE t.pc \in {"queued", "running"}
  BY <1>1 DEF Aborted, NoTask, Worker, Pc, Outcome
<1>2. CASE t.pc \notin {"queued", "running"}
  BY <1>2 DEF Aborted, Worker
<1>. QED
  BY <1>1, <1>2

\* The rows, notices and workers the definitions name are well formed.
LEMMA Constants ==
    /\ NoRow \in Row /\ NoTask \in Worker /\ NoNotice \notin Notice
    /\ NoTask.pc = "none" /\ ~NoTask.token /\ NoRow.state = "absent"
BY DEF NoRow, Row, State, Kind, NoTask, Worker, Pc, NoNotice, Notice, Outcome

-----------------------------------------------------------------------------
(* What the steps of a worker do                                           *)

\* The steps that act on one job: its worker's, its cancellation, its promotion.
JobStep(j) == WorkerStep(j) \/ Cancel(j) \/ Promote(j)

\* They leave the other jobs' workers alone.
LEMMA TaskFrame ==
    ASSUME JobTypeOK, NEW j \in Job, JobStep(j), WorkerInv(j)
    PROVE  /\ task' \in [Job -> Worker]
           /\ \A k \in Job : k # j => task'[k] = task[k]
<1>. task \in [Job -> Worker] /\ row[j] \in Row /\ task[j] \in Worker
  BY DEF JobTypeOK
<1>0. ASSUME Retry(j)
      PROVE /\ task' \in [Job -> Worker]
            /\ \A k \in Job : k # j => task'[k] = task[k]
  BY <1>0 DEF Retry, Worker, Pc
<1>1. CASE Attach(j)
  <2>1. \/ task' = [task EXCEPT ![j].handle = IF paused THEN "late" ELSE "attached"]
        \/ task' = [task EXCEPT ![j] = Aborted(task[j])]
    BY <1>1 DEF Attach
  <2>2. Aborted(task[j]) \in Worker
    BY AbortedType
  <2>. QED
    BY <2>1, <2>2 DEF Worker
<1>2. CASE Start(j)
  BY <1>2 DEF Start, Worker, Pc, Row
<1>3. CASE BodyEnds(j) \/ Finalize(j)
  BY <1>3 DEF BodyEnds, Finalize, Worker, Pc, Outcome
<1>4. CASE Reserve(j)
  BY <1>4 DEF Reserve, WakesAfter, TakesToken, Worker, Pc, Row
<1>5. CASE Enqueue(j) \/ RetainRefused(j) \/ FlushFails(j) \/ Commit(j)
  <2>1. \E x \in Pc : \/ task' = [task EXCEPT ![j].pc = x]
                    \/ task' = [task EXCEPT ![j].pc = x, ![j].token = FALSE]
    BY <1>5 DEF Enqueue, RetainRefused, FlushFails, Commit, Rollback, Pc
  <2>. QED
    BY <2>1 DEF Worker
<1>6. CASE PersistCommit(j) \/ SettleSilent(j)
  <2>1. task' = [task EXCEPT ![j].pc = "returned"]
    BY <1>6 DEF PersistCommit, SettleSilent
  <2>. QED
    BY <2>1 DEF Worker, Pc
<1>7. CASE SettleAgent(j) \/ DeliverPersist(j)
  BY <1>7, <1>0 DEF SettleAgent, DeliverPersist, Worker, Pc
<1>8. CASE DeliverAdmit(j) \/ DeliverCleanup(j)
  BY <1>8, <1>0 DEF DeliverAdmit, DeliverCleanup, Worker, Pc
<1>9. CASE Cancel(j) \/ Promote(j)
  BY <1>9 DEF Cancel, Promote
<1>. QED
  BY <1>1, <1>2, <1>3, <1>4, <1>5, <1>6, <1>7, <1>8, <1>9 DEF JobStep, WorkerStep, Proceeds

\* They leave the other jobs' rows alone and keep a row's kind.
LEMMA RowFrame ==
    ASSUME JobTypeOK, NEW j \in Job, JobStep(j), WorkerInv(j)
    PROVE  /\ row' \in [Job -> Row]
           /\ \A k \in Job : k # j => row'[k] = row[k]
           /\ row'[j].kind = row[j].kind
<1>. row \in [Job -> Row] /\ row[j] \in Row /\ task[j] \in Worker
  BY DEF JobTypeOK
<1>0. task[j].pc \in {"settle", "reserved", "refused", "enqueued"} => task[j].outcome \in State
  BY DEF WorkerInv, State
<1>1. CASE Attach(j) \/ BodyEnds(j) \/ PersistCommit(j) \/ DeliverPersist(j) \/ DeliverAdmit(j) \/ DeliverCleanup(j)
  BY <1>1 DEF Attach, BodyEnds, PersistCommit, DeliverPersist, DeliverAdmit, DeliverCleanup
<1>2. CASE Start(j)
  BY <1>2 DEF Start, Row, State, Unsettled
<1>3. CASE Finalize(j)
  BY <1>3 DEF Finalize, FinalRows, Row, State, Outcome
<1>4. CASE Reserve(j)
  <2>1. row' = [row EXCEPT ![j].settling = TRUE] \/ row' = row
    BY <1>4 DEF Reserve
  <2>. QED
    BY <2>1 DEF Row
<1>5. CASE Enqueue(j) \/ FlushFails(j)
  <2>1. row' = [row EXCEPT ![j].settling = FALSE] \/ row' = row
    BY <1>5 DEF Enqueue, FlushFails, Rollback
  <2>. QED
    BY <2>1 DEF Row
<1>6. CASE RetainRefused(j)
  BY <1>6, <1>0 DEF RetainRefused, Row
<1>7. CASE Commit(j)
  BY <1>7, <1>0 DEF Commit, Row
<1>8. CASE SettleSilent(j)
  <2>1. row' = [row EXCEPT ![j].wakes = FALSE, ![j].state = task[j].outcome] \/ row' = row
    BY <1>8 DEF SettleSilent
  <2>2. task[j].outcome \in State
    BY <1>0, <1>8 DEF SettleSilent
  <2>3. CASE row' = [row EXCEPT ![j].wakes = FALSE, ![j].state = task[j].outcome]
    <3>. DEFINE x == [row[j] EXCEPT !.wakes = FALSE, !.state = task[j].outcome]
    <3>1. x \in Row /\ x.kind = row[j].kind
      BY <2>2 DEF Row
    <3>2. row' = [row EXCEPT ![j] = x]
      BY <2>3
    <3>. HIDE DEF x
    <3>. QED
      BY <3>1, <3>2
  <2>. QED
    BY <2>1, <2>3
<1>9. CASE SettleAgent(j)
  BY <1>9, <1>0 DEF SettleAgent, Row
<1>10. CASE Cancel(j) \/ Promote(j)
  <2>1. \/ row' = [row EXCEPT ![j].cancelled = TRUE, ![j].state = "cancelling"]
        \/ row' = [row EXCEPT ![j].wakes = TRUE]
    BY <1>10 DEF Cancel, Promote
  <2>2. "cancelling" \in State
    BY DEF State, Unsettled
  <2>3. CASE row' = [row EXCEPT ![j].cancelled = TRUE, ![j].state = "cancelling"]
    <3>. DEFINE x == [row[j] EXCEPT !.cancelled = TRUE, !.state = "cancelling"]
    <3>1. x \in Row /\ x.kind = row[j].kind
      BY <2>2 DEF Row
    <3>2. row' = [row EXCEPT ![j] = x]
      BY <2>3
    <3>. HIDE DEF x
    <3>. QED
      BY <3>1, <3>2
  <2>4. CASE row' = [row EXCEPT ![j].wakes = TRUE]
    BY <2>4 DEF Row
  <2>. QED
    BY <2>1, <2>3, <2>4
<1>. QED
  BY <1>1, <1>2, <1>3, <1>4, <1>5, <1>6, <1>7, <1>8, <1>9, <1>10 DEF JobStep, WorkerStep, Proceeds

\* They leave the other jobs' outbox entries alone.
LEMMA OutboxFrame ==
    ASSUME JobTypeOK, NEW j \in Job, JobStep(j), WorkerInv(j)
    PROVE  /\ outbox' \in [Job -> Notice \union {NoNotice}]
           /\ \A k \in Job : k # j => outbox'[k] = outbox[k]
<1>. outbox \in [Job -> Notice \union {NoNotice}] /\ row[j] \in Row /\ task[j] \in Worker
  BY DEF JobTypeOK
<1>1. CASE RetainRefused(j)
  <2>1. task[j].outcome \in Outcome /\ task[j].wakes \in BOOLEAN
    BY <1>1 DEF RetainRefused, WorkerInv, Worker
  <2>2. TaskNotice(j) \in Notice
    BY <2>1 DEF TaskNotice, Notice
  <2>. QED
    BY <1>1, <2>2 DEF RetainRefused
<1>2. CASE SettleAgent(j)
  <2>1. task[j].outcome \in Outcome /\ row[j].wakes \in BOOLEAN
    BY <1>2 DEF SettleAgent, WorkerInv, Row
  <2>2. [outcome |-> task[j].outcome, wakes |-> WakesAfter(j)] \in Notice
    BY <2>1 DEF WakesAfter, Notice
  <2>. QED
    BY <1>2, <2>2 DEF SettleAgent
<1>3. CASE DeliverCleanup(j)
  BY <1>3 DEF DeliverCleanup, Cleared
<1>4. CASE JobStep(j) /\ ~(RetainRefused(j) \/ SettleAgent(j) \/ DeliverCleanup(j))
  BY <1>4 DEF JobStep, WorkerStep, Proceeds, Cancel, Promote, Attach, Start, BodyEnds, Finalize, Reserve, Enqueue,
         FlushFails,
              Commit, PersistCommit, SettleSilent, DeliverPersist, DeliverAdmit
<1>. QED
  BY <1>1, <1>2, <1>3, <1>4

\* They insert at most one notice, into their own job's log, if the inbox has room.
LEMMA NoticeFrame ==
    ASSUME JobTypeOK, NEW j \in Job, JobStep(j), WorkerInv(j)
    PROVE  /\ notices' \in [Job -> Seq(Notice)]
           /\ \A k \in Job : k # j => notices'[k] = notices[k]
           /\ notices'[j] = notices[j] \/ (notices[j] = << >> /\ Len(notices'[j]) = 1)
           /\ waiting' \in 0..MaxPending
<1>. /\ notices \in [Job -> Seq(Notice)] /\ notices[j] \in Seq(Notice) /\ task[j] \in Worker
     /\ outbox[j] \in Notice \union {NoNotice} /\ waiting \in 0..MaxPending
  BY DEF JobTypeOK
<1>0. MaxPending \in Nat
  BY JobLimitAssumption
<1>1. ASSUME NEW n \in Notice, notices' = Inserted(j, n), notices[j] = << >>, Room, waiting' = waiting + 1
      PROVE  /\ notices' \in [Job -> Seq(Notice)]
             /\ \A k \in Job : k # j => notices'[k] = notices[k]
             /\ Len(notices'[j]) = 1
             /\ waiting' \in 0..MaxPending
  <2>1. Append(notices[j], n) \in Seq(Notice) /\ Len(Append(notices[j], n)) = 1
    BY <1>1
  <2>2. notices' = [notices EXCEPT ![j] = Append(notices[j], n)]
    BY <1>1 DEF Inserted
  <2>3. waiting' \in 0..MaxPending
    BY <1>0, <1>1 DEF Room
  <2>. HIDE <1>1
  <2>. QED
    BY <2>1, <2>2, <2>3
<1>2. CASE Enqueue(j)
  <2>1. TaskNotice(j) \in Notice
    BY <1>2 DEF Enqueue, WorkerInv, TaskNotice, Notice, Worker
  <2>2. notices[j] = << >>
    BY <1>2 DEF Enqueue, WorkerInv, Unsent
  <2>. QED
    BY <1>1, <1>2, <2>1, <2>2 DEF Enqueue
<1>3. CASE DeliverAdmit(j)
  <2>1. [outcome |-> task[j].outcome, wakes |-> outbox[j].wakes] \in Notice
    <3>1. task[j].outcome \in Outcome
      BY <1>3 DEF DeliverAdmit, WorkerInv
    <3>2. outbox[j].wakes \in BOOLEAN
      <4>1. CASE outbox[j] \in Notice
        BY <4>1 DEF Notice
      <4>2. CASE outbox[j] = NoNotice
        BY <4>2 DEF NoNotice
      <4>. QED
        BY <4>1, <4>2
    <3>. QED
      BY <3>1, <3>2 DEF Notice
  <2>. QED
    BY <1>1, <1>3, <2>1 DEF DeliverAdmit, AdmitIdentified, AdmitFails
<1>4. CASE JobStep(j) /\ ~(Enqueue(j) \/ DeliverAdmit(j))
  BY <1>4 DEF JobStep, WorkerStep, Proceeds, Cancel, Promote, Attach, Start, BodyEnds, Finalize, Reserve,
         RetainRefused,
              FlushFails, Commit, PersistCommit, SettleSilent, SettleAgent, DeliverPersist, DeliverCleanup
<1>. QED
  BY <1>1, <1>2, <1>3, <1>4

\* The counters and sets beside the per-job state stay well formed, and the
\* releasers and the ids are not touched.
LEMMA CounterFrame ==
    ASSUME JobTypeOK, NEW j \in Job, JobStep(j)
    PROVE  /\ nextId' = nextId /\ paused' = paused /\ closed' = closed /\ releaser' = releaser
           /\ turns' = turns /\ woken' \in Nat /\ tokens' \in 0..WakeCapacity
           /\ announced' \subseteq Job /\ stuck' \subseteq Job
           /\ spent' \in [cancels : Nat, faults : Nat, restarts : Nat]
<1>1. nextId' = nextId /\ paused' = paused /\ closed' = closed /\ releaser' = releaser /\ turns' = turns
  BY DEF JobStep, WorkerStep, Proceeds, Cancel, Promote, Attach, Start, BodyEnds, Finalize, Reserve, RetainRefused,
         Enqueue,
         FlushFails, Commit, PersistCommit, SettleSilent, SettleAgent, DeliverPersist, DeliverAdmit, DeliverCleanup
<1>2. woken' = woken \/ woken' = woken + 1
  BY DEF JobStep, WorkerStep, Proceeds, Cancel, Promote, Attach, Start, BodyEnds, Finalize, Reserve, RetainRefused,
         Enqueue,
         FlushFails, Commit, PersistCommit, SettleSilent, SettleAgent, DeliverPersist, DeliverAdmit, DeliverCleanup
<1>3. tokens' \in {tokens, Charged(j), Refunded(j)}
  BY DEF JobStep, WorkerStep, Proceeds, Cancel, Promote, Attach, Start, BodyEnds, Finalize, Reserve, RetainRefused,
         Enqueue,
         Rollback, FlushFails, Commit, PersistCommit, SettleSilent, SettleAgent, DeliverPersist, DeliverAdmit,
         DeliverCleanup
<1>4. announced' \in {announced, announced \union {j}}
  BY DEF JobStep, WorkerStep, Proceeds, Cancel, Promote, Attach, Start, BodyEnds, Finalize, Reserve, RetainRefused,
         Enqueue,
         FlushFails, Commit, PersistCommit, SettleSilent, SettleAgent, DeliverPersist, DeliverAdmit, DeliverCleanup
<1>5. stuck' \in {stuck, stuck \union {j}}
  BY DEF JobStep, WorkerStep, Proceeds, Cancel, Promote, Attach, Start, BodyEnds, Finalize, Reserve, RetainRefused,
         Enqueue,
         FlushFails, Commit, PersistCommit, SettleSilent, SettleAgent, DeliverPersist, DeliverAdmit, DeliverCleanup,
         Retry
<1>6. \/ spent' = spent
      \/ spent' = [spent EXCEPT !.faults = @ + 1]
      \/ spent' = [spent EXCEPT !.cancels = @ + 1]
      \/ spent' = [spent EXCEPT !.cancels = @ + 1, !.faults = @ + 1]
  BY DEF JobStep, WorkerStep, Proceeds, Cancel, Promote, Attach, Start, BodyEnds, Finalize, Reserve, RetainRefused,
         Enqueue,
         FlushFails, Commit, PersistCommit, SettleSilent, SettleAgent, DeliverPersist, DeliverAdmit, DeliverCleanup,
         PersistIgnored, PersistOk, PersistFails, StorageFault, AdmitFails
<1>7. woken' \in Nat /\ announced' \subseteq Job /\ stuck' \subseteq Job
  BY <1>2, <1>4, <1>5 DEF JobTypeOK
<1>8. tokens' \in 0..WakeCapacity
  <2>1. tokens \in 0..WakeCapacity /\ WakeCapacity \in Nat
    BY JobLimitAssumption DEF JobTypeOK
  <2>2. Charged(j) \in 0..WakeCapacity /\ Refunded(j) \in 0..WakeCapacity
    BY <2>1 DEF Charged, TakesToken, Refunded
  <2>. QED
    BY <1>3, <2>1, <2>2
<1>9. spent' \in [cancels : Nat, faults : Nat, restarts : Nat]
  <2>1. spent \in [cancels : Nat, faults : Nat, restarts : Nat]
    BY DEF JobTypeOK
  <2>2. spent.faults + 1 \in Nat /\ spent.cancels + 1 \in Nat
    BY <2>1
  <2>. QED
    BY <1>6, <2>1, <2>2
<1>. QED
  BY <1>1, <1>7, <1>8, <1>9

\* A step's write of the history file, if there is one, tells of job k what the
\* registry says after the step; an entry that is cleared too early is in the log.
Written(k) ==
    \/ disk' = disk
    \/ /\ disk'.state[k] = row'[k].state /\ disk'.next = nextId'
       /\ disk'.outbox[k] = outbox'[k] \/ (disk'.outbox[k] = NoNotice /\ notices'[k] # << >>)

\* A write of the new rows and the new outbox, whether it is known to have succeeded or not.
LEMMA PersistWrites ==
    ASSUME NEW r \in [Job -> Row], NEW b \in [Job -> Notice \union {NoNotice}], NEW n \in 1..(MaxAdmissions + 1),
           PersistOk(r, b, n) \/ PersistFails(r, b, n) \/ disk' = History(r, b, n), disk \in HistoryFile
    PROVE  /\ disk' \in HistoryFile
           /\ disk' = disk \/ (disk'.next = n /\ disk'.outbox = b /\ \A j \in Job : disk'.state[j] = r[j].state)
BY HistoryType DEF PersistOk, PersistFails

\* What a job's own step writes to the history file.
LEMMA DiskFrame ==
    ASSUME JobTypeOK, NEW j \in Job, JobStep(j), WorkerInv(j)
    PROVE  disk' \in HistoryFile /\ \A k \in Job : Written(k)
<1>. /\ disk \in HistoryFile /\ nextId \in 1..(MaxAdmissions + 1)
     /\ row \in [Job -> Row] /\ outbox \in [Job -> Notice \union {NoNotice}]
  BY DEF JobTypeOK
<1>0. nextId' = nextId
  BY CounterFrame
<1>1. row' \in [Job -> Row] /\ outbox' \in [Job -> Notice \union {NoNotice}]
  BY RowFrame, OutboxFrame
<1>2. ASSUME \/ PersistOk(row', outbox', nextId) \/ PersistFails(row', outbox', nextId)
             \/ disk' = History(row', outbox', nextId)
      PROVE  disk' \in HistoryFile /\ \A k \in Job : Written(k)
  BY <1>0, <1>1, <1>2, PersistWrites DEF Written
<1>3. CASE DeliverCleanup(j)
  <2>1. Cleared(j) \in [Job -> Notice \union {NoNotice}] /\ \A k \in Job : k # j => Cleared(j)[k] = outbox[k]
    BY DEF Cleared
  <2>2. Cleared(j)[j] = NoNotice
    BY DEF Cleared
  <2>3. PersistOk(row, Cleared(j), nextId) \/ PersistFails(row, Cleared(j), nextId)
    BY <1>3 DEF DeliverCleanup
  <2>4. row' = row /\ notices' = notices /\ notices[j] # << >>
    BY <1>3 DEF DeliverCleanup, WorkerInv
  <2>5. outbox' = outbox \/ outbox' = Cleared(j)
    BY <1>3 DEF DeliverCleanup
  <2>6. /\ disk' \in HistoryFile
        /\ disk' = disk \/ (disk'.next = nextId /\ disk'.outbox = Cleared(j) /\ \A k \in Job : disk'.state[k] = row[k].state)
    BY <2>1, <2>3, PersistWrites
  <2>. QED
    BY <1>0, <2>1, <2>2, <2>4, <2>5, <2>6 DEF Written
<1>4. CASE SettleSilent(j)
  <2>1. outbox' = outbox
    BY <1>4 DEF SettleSilent
  <2>2. CASE PersistFails([row EXCEPT ![j].wakes = FALSE], outbox, nextId) /\ row' = row
    <3>. DEFINE silent == [row EXCEPT ![j].wakes = FALSE]
    <3>1. silent \in [Job -> Row] /\ \A k \in Job : silent[k].state = row[k].state
      BY DEF Row
    <3>2. PersistFails(silent, outbox, nextId)
      BY <2>2
    <3>. HIDE DEF silent
    <3>. QED
      BY <1>0, <2>1, <2>2, <3>1, <3>2, PersistWrites DEF Written
  <2>3. CASE ~(PersistFails([row EXCEPT ![j].wakes = FALSE], outbox, nextId) /\ row' = row)
    <3>1. disk' = disk \/ PersistOk(row', outbox', nextId)
      BY <1>4, <2>1, <2>3 DEF SettleSilent
    <3>. QED
      BY <1>2, <3>1 DEF Written
  <2>. QED
    BY <2>2, <2>3
<1>5. CASE JobStep(j) /\ ~(DeliverCleanup(j) \/ SettleSilent(j))
  <2>1. \/ disk' = disk
        \/ PersistOk(row', outbox', nextId) \/ PersistFails(row', outbox', nextId)
        \/ disk' = History(row', outbox', nextId)
    <3>1. CASE Attach(j) \/ BodyEnds(j) \/ Reserve(j) \/ Enqueue(j) \/ FlushFails(j) \/ Commit(j) \/ DeliverAdmit(j)
      BY <3>1 DEF Attach, BodyEnds, Reserve, Enqueue, FlushFails, Commit, DeliverAdmit
    <3>2. CASE Start(j) \/ Finalize(j)
      BY <3>2 DEF Start, Finalize, PersistIgnored
    <3>3. CASE RetainRefused(j)
      BY <3>3 DEF RetainRefused, PersistIgnored
    <3>4. CASE SettleAgent(j)
      BY <3>4 DEF SettleAgent
    <3>5. CASE PersistCommit(j) \/ DeliverPersist(j) \/ Promote(j)
      BY <3>5 DEF PersistCommit, DeliverPersist, Promote
    <3>6. CASE Cancel(j)
      BY <3>6 DEF Cancel
    <3>. QED
      BY <1>5, <3>1, <3>2, <3>3, <3>4, <3>5, <3>6 DEF JobStep, WorkerStep, Proceeds
  <2>. QED
    BY <1>2, <2>1 DEF Written
<1>. QED
  BY <1>3, <1>4, <1>5

\* What a job's own step keeps of its invariant.  A delivery, once begun, is never
\* taken back, and a row that says completed or is gone is not touched again.
Keeps(j) ==
    /\ ~Unsent(j) => ~Unsent(j)'
    /\ Retained(j) \/ notices[j] # << >> => Retained(j)' \/ notices'[j] # << >>
    /\ task[j].pc # "none" \/ Live(j)
    /\ row[j].state \in {"completed", "absent"} => row'[j].state = row[j].state /\ row'[j].wakes = row[j].wakes

\* A job's own step keeps its worker's part of the invariant.
LEMMA JobStepKeeps ==
    ASSUME JobTypeOK, NEW j \in Job, JobStep(j), WorkerInv(j)
    PROVE  WorkerInv(j)' /\ Keeps(j)
<1>. /\ row \in [Job -> Row] /\ row[j] \in Row /\ task \in [Job -> Worker] /\ task[j] \in Worker
     /\ outbox \in [Job -> Notice \union {NoNotice}] /\ outbox[j] \in Notice \union {NoNotice}
     /\ notices[j] \in Seq(Notice)
  BY DEF JobTypeOK
<1>. /\ row' \in [Job -> Row] /\ task' \in [Job -> Worker] /\ outbox' \in [Job -> Notice \union {NoNotice}]
     /\ row'[j].kind = row[j].kind
  BY RowFrame, TaskFrame, OutboxFrame
<1>. (notices[j] # << >> => notices'[j] # << >>) /\ Len(notices'[j]) <= 1
  <2>1. notices'[j] = notices[j] \/ (notices[j] = << >> /\ Len(notices'[j]) = 1)
    BY NoticeFrame
  <2>2. Len(notices[j]) <= 1
    BY DEF WorkerInv
  <2>3. CASE notices'[j] = notices[j]
    BY <2>2, <2>3, Zenon
  <2>4. CASE notices[j] = << >> /\ Len(notices'[j]) = 1
    <3>1. 1 <= 1
      OBVIOUS
    <3>. QED
      BY <2>4, <3>1, Zenon
  <2>. QED
    BY <2>1, <2>3, <2>4
<1>0. \A n : notices' = Inserted(j, n) => notices'[j] # << >>
  <2>1. \A n : notices' = Inserted(j, n) => notices'[j] = Append(notices[j], n)
    BY DEF JobTypeOK, Inserted
  <2>2. \A n : Append(notices[j], n) # << >>
    OBVIOUS
  <2>. QED
    BY <2>1, <2>2
<1>1. CASE Attach(j)
  BY <1>1 DEF Attach, Aborted, NoTask, WorkerInv, Keeps, Unsent, Live, Retained, Notifies, Unsettled, Outcome, Row,
         Worker
<1>2. CASE Start(j)
  BY <1>2 DEF Start, WorkerInv, Keeps, Unsent, Live, Retained, Notifies, Unsettled, Outcome, Row, Worker
<1>3. CASE BodyEnds(j)
  BY <1>3 DEF BodyEnds, WorkerInv, Keeps, Unsent, Live, Retained, Notifies, Unsettled, Outcome, Row, Worker
<1>4. CASE Finalize(j)
  BY <1>4 DEF Finalize, FinalRows, WorkerInv, Keeps, Unsent, Live, Retained, Notifies, Unsettled, Outcome, Row, Worker
<1>5. CASE Reserve(j)
  BY <1>5 DEF Reserve, CommitsOnly, MayReserve, WorkerInv, Keeps, Unsent, Live, Retained, Notifies, Unsettled,
         Outcome, Row, Worker
<1>6. CASE Enqueue(j)
  <2>1. task'[j].pc = "enqueued" => notices'[j] # << >>
    BY <1>0, <1>6 DEF Enqueue, Rollback, Worker
  <2>2. notices'[j] # << >> => task'[j].pc = "enqueued"
    BY <1>6 DEF Enqueue, WorkerInv, Unsent, Worker
  <2>3. task'[j].pc \in {"enqueued", "refused", "returned"} /\ task'[j].outcome = task[j].outcome
    BY <1>6 DEF Enqueue, Rollback, Worker
  <2>4. /\ row'[j].state = row[j].state /\ row'[j].wakes = row[j].wakes
        /\ row'[j].settling = row[j].settling \/ task'[j].pc = "returned"
    BY <1>6 DEF Enqueue, Rollback, Row, Worker
  <2>5. outbox' = outbox /\ task[j].pc = "reserved"
    BY <1>6 DEF Enqueue
  <2>. QED
    BY <2>1, <2>2, <2>3, <2>4, <2>5 DEF WorkerInv, Keeps, Unsent, Live, Retained, Notifies, Unsettled, Outcome
<1>7. CASE RetainRefused(j)
  BY <1>7 DEF RetainRefused, WorkerInv, Keeps, Unsent, Live, Retained, Notifies, Unsettled, Outcome, Row, Worker
<1>8. CASE FlushFails(j)
  BY <1>8 DEF FlushFails, Rollback, WorkerInv, Keeps, Unsent, Live, Retained, Notifies, Unsettled, Outcome, Row,
         Worker
<1>9. CASE Commit(j)
  BY <1>9 DEF Commit, WorkerInv, Keeps, Unsent, Live, Retained, Notifies, Unsettled, Outcome, Row, Worker
<1>10. CASE PersistCommit(j)
  BY <1>10 DEF PersistCommit, WorkerInv, Keeps, Unsent, Live, Retained, Notifies, Unsettled, Outcome, Row, Worker
<1>11. CASE SettleSilent(j)
  BY <1>11 DEF SettleSilent, MayReserve, WorkerInv, Keeps, Unsent, Live, Retained, Notifies, Unsettled, Outcome,
         Row, Worker
<1>12. CASE SettleAgent(j)
  <2>1. row'[j] = row[j] \/ (MayReserve(j) /\ outbox'[j] # NoNotice)
    <3>1. [outcome |-> task[j].outcome, wakes |-> WakesAfter(j)] # NoNotice
      BY <1>12 DEF SettleAgent, WorkerInv, Outcome, NoNotice
    <3>. QED
      BY <1>12, <3>1 DEF SettleAgent
  <2>2. outbox'[j] = outbox[j] \/ outbox'[j] # NoNotice
    <3>1. outbox'[j] = outbox[j] \/ outbox'[j] = [outcome |-> task[j].outcome, wakes |-> WakesAfter(j)]
      BY <1>12 DEF SettleAgent
    <3>2. task[j].outcome # "none"
      BY <1>12 DEF SettleAgent, WorkerInv, Outcome
    <3>. QED
      BY <3>1, <3>2 DEF NoNotice
  <2>3. task'[j].pc \in {"settle", "deliver", "returned"} /\ task'[j].outcome = task[j].outcome
    BY <1>12 DEF SettleAgent, Retry, Worker
  <2>4. notices' = notices /\ task[j].pc = "settle" /\ row[j].kind = "agent"
    BY <1>12 DEF SettleAgent
  <2>. QED
    BY <2>1, <2>2, <2>3, <2>4 DEF MayReserve, WorkerInv, Keeps, Unsent, Live, Retained, Notifies, Unsettled,
           Outcome, Row, Worker
<1>13. CASE DeliverPersist(j)
  BY <1>13 DEF DeliverPersist, Retry, WorkerInv, Keeps, Unsent, Live, Retained, Notifies, Unsettled, Outcome, Row,
         Worker
<1>14. CASE DeliverAdmit(j)
  <2>1. task'[j].pc \in {"cleanup", "settle", "returned"} /\ task'[j].outcome = task[j].outcome
    BY <1>14 DEF DeliverAdmit, Retry, Worker
  <2>2. task'[j].pc = "cleanup" => notices'[j] # << >>
    BY <1>0, <1>14 DEF DeliverAdmit, AdmitIdentified, Retry, Worker
  <2>3. row' = row /\ outbox' = outbox /\ task[j].pc = "admit"
    BY <1>14 DEF DeliverAdmit
  <2>. QED
    BY <2>1, <2>2, <2>3 DEF WorkerInv, Keeps, Unsent, Live, Retained, Notifies, Unsettled, Outcome
<1>15. CASE DeliverCleanup(j)
  BY <1>15 DEF DeliverCleanup, Retry, Cleared, WorkerInv, Keeps, Unsent, Live, Retained, Notifies, Unsettled,
         Outcome, Row, Worker
<1>16. CASE Cancel(j)
  BY <1>16 DEF Cancel, WorkerInv, Keeps, Unsent, Live, Retained, Notifies, Unsettled, Outcome, Row, Worker
<1>17. CASE Promote(j)
  BY <1>17 DEF Promote, WorkerInv, Keeps, Unsent, Live, Retained, Notifies, Unsettled, Outcome, Row, Worker
<1>. QED
  BY <1>1, <1>2, <1>3, <1>4, <1>5, <1>6, <1>7, <1>8, <1>9, <1>10, <1>11, <1>12, <1>13, <1>14, <1>15, <1>16,
         <1>17 DEF JobStep, WorkerStep, Proceeds

-----------------------------------------------------------------------------
(* The invariant                                                           *)

\* The file's part of a job's invariant, from the worker's part after the step.
LEMMA FileKept ==
    ASSUME JobTypeOK, NEW k \in Job, FileInv(k), disk.next <= nextId, nextId' \in Nat, nextId <= nextId',
           Written(k), WorkerInv(k)',
           k >= disk.next => Untouched(k)' \/ k < disk'.next,
           row[k].state \in {"completed", "absent"} =>
                row'[k].state \in {"completed", "absent"} /\ (Notifies(k)' => Notifies(k)),
           notices[k] # << >> => notices'[k] # << >>
    PROVE  FileInv(k)'
<1>. nextId \in Nat /\ disk.next \in Nat /\ k \in Nat
  BY JobLimitAssumption DEF JobTypeOK, HistoryFile, Job
<1>1. CASE disk' = disk
  <2>1. k >= disk'.next => Untouched(k)' /\ disk'.outbox[k] = NoNotice /\ disk'.state[k] = "absent"
    BY <1>1 DEF FileInv
  <2>2. ASSUME disk'.state[k] = "completed"
        PROVE  /\ row'[k].state \in {"completed", "absent"}
               /\ Notifies(k)' => notices'[k] # << >> \/ disk'.outbox[k] # NoNotice
    BY <1>1, <2>2 DEF FileInv
  <2>. QED
    BY <2>1, <2>2 DEF FileInv
<1>2. CASE disk' # disk
  <2>1. /\ disk'.state[k] = row'[k].state /\ disk'.next = nextId'
        /\ disk'.outbox[k] = outbox'[k] \/ (disk'.outbox[k] = NoNotice /\ notices'[k] # << >>)
    BY <1>2 DEF Written
  <2>2. k >= disk'.next => Untouched(k)' /\ disk'.outbox[k] = NoNotice /\ disk'.state[k] = "absent"
    <3>1. k >= disk'.next => k >= disk.next /\ ~(k < disk'.next)
      BY <2>1
    <3>2. k >= disk'.next => Untouched(k)'
      BY <3>1
    <3>. QED
      BY <2>1, <3>2 DEF Untouched, Retained
  <2>3. ASSUME disk'.state[k] = "completed", Notifies(k)'
        PROVE  notices'[k] # << >> \/ disk'.outbox[k] # NoNotice
    BY <2>1, <2>3 DEF WorkerInv, Retained
  <2>. QED
    BY <2>1, <2>2, <2>3 DEF FileInv
<1>. QED
  BY <1>1, <1>2

\* A job the step does not touch.
Same(k) ==
    /\ row'[k] = row[k] /\ task'[k] = task[k] /\ outbox'[k] = outbox[k] /\ notices'[k] = notices[k]

\* Its part of the invariant is not touched either.
LEMMA SameWorker ==
    ASSUME NEW k \in Job, Same(k), WorkerInv(k)
    PROVE  WorkerInv(k)' /\ (Unsent(k)' <=> Unsent(k)) /\ (Retained(k)' <=> Retained(k)) /\ (Notifies(k)' <=> Notifies(k))
BY DEF Same, WorkerInv, Unsent, Live, Retained, Notifies

\* The steps of one job keep the invariant of all of them.
LEMMA JobStepInv ==
    ASSUME JobsInv, NEW j \in Job, JobStep(j)
    PROVE  JobsInv'
<1>. JobTypeOK /\ disk.next <= nextId /\ (\A k \in Job : JobInv(k)) /\ WorkerInv(j)
  BY DEF JobsInv, JobInv
<1>. nextId' = nextId /\ releaser' = releaser
  BY CounterFrame
<1>1. JobTypeOK'
  BY TaskFrame, RowFrame, OutboxFrame, NoticeFrame, CounterFrame, DiskFrame DEF JobTypeOK
<1>2. \A k \in Job : Written(k)
  BY DiskFrame
<1>7. nextId \in Nat /\ nextId <= nextId
  BY JobLimitAssumption DEF JobTypeOK
<1>3. disk'.next <= nextId'
  BY <1>2, <1>7 DEF Written
<1>4. \A k \in Job : k # j => Same(k)
  BY TaskFrame, RowFrame, OutboxFrame, NoticeFrame DEF Same
<1>5. WorkerInv(j)' /\ Keeps(j)
  BY JobStepKeeps
<1>6. \A r \in Releaser, k \in Job : Current(r, k)' <=> Current(r, k)
  BY DEF Current
<1>8. ASSUME NEW k \in Job, k # j
      PROVE  JobInv(k)'
  <2>1. JobInv(k) /\ Same(k) /\ Written(k)
    BY <1>2, <1>4, <1>8
  <2>2. /\ WorkerInv(k)' /\ (Unsent(k)' <=> Unsent(k)) /\ (Retained(k)' <=> Retained(k))
        /\ (Notifies(k)' <=> Notifies(k))
    BY <2>1, SameWorker DEF JobInv
  <2>3. PassInv(k)'
    BY <1>6, <2>1, <2>2 DEF JobInv, PassInv, Same
  <2>4. Untouched(k) => Untouched(k)'
    BY <2>1, <2>2 DEF Untouched, Same
  <2>5. FileInv(k)'
    BY <1>7, <2>1, <2>2, <2>4, FileKept DEF JobInv, FileInv, Same
  <2>. QED
    BY <2>2, <2>3, <2>5 DEF JobInv
<1>9. JobInv(j)'
  <2>1. JobInv(j) /\ Written(j) /\ WorkerInv(j)' /\ Keeps(j)
    BY <1>2, <1>5
  <2>2. notices[j] # << >> => notices'[j] # << >>
    <3>1. notices'[j] = notices[j] \/ notices[j] = << >>
      BY NoticeFrame
    <3>. QED
      BY <3>1
  <2>3. PassInv(j)'
    BY <1>6, <2>1, <2>2 DEF JobInv, PassInv, Keeps
  <2>4. ~Untouched(j)
    BY <2>1 DEF Untouched, Keeps, Live, Unsettled
  <2>5. row[j].state \in {"completed", "absent"} =>
            row'[j].state \in {"completed", "absent"} /\ (Notifies(j)' => Notifies(j))
    <3>1. row'[j].kind = row[j].kind
      BY RowFrame
    <3>. QED
      BY <2>1, <3>1 DEF Keeps, Notifies
  <2>6. FileInv(j)'
    BY <1>7, <2>1, <2>2, <2>4, <2>5, FileKept DEF JobInv, FileInv
  <2>. QED
    BY <2>1, <2>3, <2>6 DEF JobInv
<1>. QED
  BY <1>1, <1>3, <1>8, <1>9 DEF JobsInv

\* A step of a pass logs or clears what some pass is at; the steps of the host
\* and of a turn do neither.
Delivered(k) ==
    /\ \/ notices'[k] = notices[k]
       \/ /\ notices[k] = << >> /\ notices'[k] # << >> /\ Len(notices'[k]) <= 1
          /\ \E r \in Releaser : k \in releaser[r].todo
    /\ outbox'[k] = outbox[k] \/ (outbox'[k] = NoNotice /\ notices'[k] # << >>)
Recovers(k) ==
    \A r \in Releaser : k \in releaser'[r].todo =>
        /\ Retained(k) \/ k \in releaser[r].todo
        /\ releaser'[r].pc = "cleanup" /\ Current(r, k)' => notices'[k] # << >>

\* Such a step keeps the invariant of every job.
LEMMA DeliveryInv ==
    ASSUME JobsInv, JobTypeOK', row' = row, task' = task, nextId' = nextId, disk'.next <= nextId',
           NEW k \in Job, Written(k), Delivered(k), Recovers(k)
    PROVE  JobInv(k)'
<1>. JobTypeOK /\ disk.next <= nextId /\ JobInv(k)
  BY DEF JobsInv
<1>1. nextId \in Nat /\ nextId <= nextId
  BY JobLimitAssumption DEF JobTypeOK
<1>2. (notices[k] # << >> => notices'[k] # << >>)
  BY DEF Delivered
<1>3. Retained(k) \/ notices[k] # << >> => Retained(k)' \/ notices'[k] # << >>
  BY <1>2 DEF Delivered, Retained
<1>4. Unsent(k)' <=> Unsent(k)
  BY DEF Unsent
<1>5. Unsent(k) => notices'[k] = << >> /\ ~Retained(k)'
  <2>1. Unsent(k) => notices[k] = << >> /\ ~Retained(k) /\ \A r \in Releaser : k \notin releaser[r].todo
    BY DEF JobInv, WorkerInv, PassInv
  <2>. QED
    BY <2>1 DEF Delivered, Retained
<1>6. Len(notices'[k]) <= 1
  BY DEF Delivered, JobInv, WorkerInv
<1>7. WorkerInv(k)'
  BY <1>2, <1>3, <1>4, <1>5, <1>6 DEF JobInv, WorkerInv, Live, Notifies
<1>8. PassInv(k)'
  <2>. SUFFICES ASSUME NEW r \in Releaser, k \in releaser'[r].todo
                PROVE  /\ ~Unsent(k)' /\ (Retained(k)' \/ notices'[k] # << >>)
                       /\ releaser'[r].pc = "cleanup" /\ Current(r, k)' => notices'[k] # << >>
    BY DEF PassInv
  <2>1. Retained(k) \/ k \in releaser[r].todo
    BY DEF Recovers
  <2>2. ~Unsent(k)
    BY <2>1 DEF JobInv, WorkerInv, PassInv
  <2>3. Retained(k) \/ notices[k] # << >>
    BY <2>1 DEF JobInv, PassInv
  <2>. QED
    BY <1>3, <1>4, <2>2, <2>3 DEF Recovers
<1>9. Untouched(k) => Untouched(k)'
  <2>1. Untouched(k) => notices'[k] = << >>
    BY DEF Untouched, Delivered
  <2>2. Untouched(k) => ~Retained(k)'
    BY <2>1 DEF Untouched, Delivered, Retained
  <2>3. Untouched(k) => \A r \in Releaser : k \notin releaser'[r].todo
    BY DEF Untouched, Recovers
  <2>. QED
    BY <2>1, <2>2, <2>3 DEF Untouched
<1>10. FileInv(k)'
  BY <1>1, <1>2, <1>7, <1>9, FileKept DEF JobInv, FileInv, Notifies
<1>. QED
  BY <1>7, <1>8, <1>10 DEF JobInv

\* The steps of the host and of turns: they only count.
LEMMA CountingInv ==
    ASSUME JobsInv, Pause \/ Unpause \/ TurnSettles \/ MonitorEvent \/ OtherInput
    PROVE  JobsInv'
<1>. JobTypeOK /\ disk.next <= nextId
  BY DEF JobsInv
<1>1. /\ row' = row /\ task' = task /\ nextId' = nextId /\ disk' = disk /\ outbox' = outbox /\ notices' = notices
      /\ releaser' = releaser /\ stuck' = stuck /\ announced' = announced /\ spent' = spent
  BY DEF Pause, Unpause, TurnSettles, MonitorEvent, OtherInput
<1>2. /\ tokens' \in 0..WakeCapacity /\ waiting' \in 0..MaxPending /\ woken' \in Nat /\ turns' \in Nat
      /\ paused' \in BOOLEAN /\ closed' \in BOOLEAN
  <2>1. paused' \in BOOLEAN /\ closed' \in BOOLEAN
    BY DEF JobTypeOK, Pause, Unpause, TurnSettles, MonitorEvent, OtherInput
  <2>2. tokens' \in {tokens, WakeCapacity} \/ (tokens > 0 /\ tokens' = tokens - 1)
    BY DEF Pause, Unpause, TurnSettles, MonitorEvent, OtherInput
  <2>3. waiting' = waiting \/ (waiting < MaxPending /\ waiting' = waiting + 1)
    BY DEF Pause, Unpause, TurnSettles, MonitorEvent, OtherInput, Room
  <2>4. woken' \in {woken, woken + 1} /\ turns' \in {turns, turns + 1}
    BY DEF Pause, Unpause, TurnSettles, MonitorEvent, OtherInput
  <2>5. /\ tokens \in 0..WakeCapacity /\ waiting \in 0..MaxPending /\ woken \in Nat /\ turns \in Nat
        /\ WakeCapacity \in Nat /\ MaxPending \in Nat
    BY JobLimitAssumption DEF JobTypeOK
  <2>6. tokens' \in 0..WakeCapacity
    BY <2>2, <2>5
  <2>7. waiting' \in 0..MaxPending
    BY <2>3, <2>5
  <2>. QED
    BY <2>1, <2>4, <2>5, <2>6, <2>7
<1>3. JobTypeOK'
  BY <1>1, <1>2 DEF JobTypeOK
<1>4. \A k \in Job : Written(k) /\ Delivered(k)
  BY <1>1 DEF Written, Delivered
<1>5. \A k \in Job : Recovers(k)
  <2>1. \A r \in Releaser, k \in Job : Current(r, k)' <=> Current(r, k)
    BY <1>1 DEF Current
  <2>. QED
    BY <1>1, <2>1 DEF Recovers, JobsInv, JobInv, PassInv
<1>6. \A k \in Job : JobInv(k)'
  BY <1>1, <1>3, <1>4, <1>5, DeliveryInv
<1>. QED
  BY <1>1, <1>3, <1>6 DEF JobsInv

\* A release of capacity takes up what is retained.
LEMMA ReleaseInv ==
    ASSUME JobsInv, NEW r \in Releaser, Release(r)
    PROVE  JobsInv'
<1>. JobTypeOK /\ disk.next <= nextId /\ releaser \in [Releaser -> Pass]
  BY DEF JobsInv, JobTypeOK
<1>. DEFINE todo == Recoverable(outbox)
<1>1. /\ row' = row /\ task' = task /\ nextId' = nextId /\ disk' = disk /\ outbox' = outbox /\ notices' = notices
      /\ stuck' = stuck /\ announced' = announced /\ spent' = spent /\ woken' = woken /\ turns' = turns
      /\ tokens' = tokens /\ paused' = paused /\ closed' = closed
      /\ releaser' = [releaser EXCEPT ![r] = Recovering(todo)]
  BY DEF Release
<1>2. waiting' \in 0..MaxPending
  BY JobLimitAssumption DEF JobTypeOK, Release
<1>3. todo \subseteq Job /\ \A j \in todo : Retained(j)
  BY RecoverableFacts DEF Retained
<1>4. Recovering(todo) \in Pass /\ Recovering(todo).todo = todo /\ Recovering(todo).pc # "cleanup"
  BY <1>3, RecoveringType
<1>. HIDE DEF todo
<1>5. releaser' \in [Releaser -> Pass]
  BY <1>1, <1>4
<1>6. JobTypeOK'
  BY <1>1, <1>2, <1>5 DEF JobTypeOK
<1>7. \A k \in Job : Written(k) /\ Delivered(k)
  BY <1>1 DEF Written, Delivered
<1>8. ASSUME NEW k \in Job
      PROVE  Recovers(k)
  <2>. SUFFICES ASSUME NEW q \in Releaser, k \in releaser'[q].todo
                PROVE  /\ Retained(k) \/ k \in releaser[q].todo
                       /\ releaser'[q].pc = "cleanup" /\ Current(q, k)' => notices'[k] # << >>
    BY DEF Recovers
  <2>1. CASE q = r
    BY <1>1, <1>3, <1>4, <2>1
  <2>2. CASE q # r
    <3>1. releaser'[q] = releaser[q]
      BY <1>1, <2>2
    <3>2. Current(q, k)' <=> Current(q, k)
      BY <3>1 DEF Current
    <3>. QED
      BY <1>1, <3>1, <3>2 DEF JobsInv, JobInv, PassInv
  <2>. QED
    BY <2>1, <2>2
<1>9. \A k \in Job : JobInv(k)'
  BY <1>1, <1>6, <1>7, <1>8, DeliveryInv
<1>. QED
  BY <1>1, <1>6, <1>9 DEF JobsInv

\* The steps of a pass.  Only the job it is at is logged or cleared.
LEMMA RecoverInv ==
    ASSUME JobsInv, NEW r \in Releaser, RecoverStep(r)
    PROVE  JobsInv'
<1>. /\ JobTypeOK /\ disk.next <= nextId /\ releaser \in [Releaser -> Pass] /\ releaser[r] \in Pass
     /\ disk \in HistoryFile /\ nextId \in 1..(MaxAdmissions + 1) /\ row \in [Job -> Row]
     /\ outbox \in [Job -> Notice \union {NoNotice}] /\ stuck \subseteq Job
     /\ spent \in [cancels : Nat, faults : Nat, restarts : Nat]
     /\ notices \in [Job -> Seq(Notice)] /\ waiting \in 0..MaxPending /\ MaxPending \in Nat
  BY JobLimitAssumption DEF JobsInv, JobTypeOK
<1>1. /\ row' = row /\ task' = task /\ nextId' = nextId
      /\ tokens' = tokens /\ paused' = paused /\ closed' = closed /\ woken' = woken /\ turns' = turns
  BY DEF RecoverStep, RecoverPersist, RecoverAdmit, RecoverCleanup
<1>2. spent' \in [cancels : Nat, faults : Nat, restarts : Nat]
  <2>1. spent' = spent \/ spent' = [spent EXCEPT !.faults = @ + 1]
    BY DEF RecoverStep, RecoverPersist, RecoverAdmit, RecoverCleanup, PersistOk, PersistFails, AdmitFails,
           StorageFault
  <2>2. spent.faults + 1 \in Nat
    OBVIOUS
  <2>. QED
    BY <2>1, <2>2
<1>3. stuck' \subseteq Job
  <2>1. stuck' = stuck \/ stuck' = stuck \union releaser[r].todo
    BY DEF RecoverStep, RecoverPersist, RecoverAdmit, RecoverCleanup
  <2>. QED
    BY <2>1 DEF Pass
<1>4. Recovering({}) \in Pass /\ Recovering({}).todo = {}
  BY RecoveringType
\* What a step that does not fail makes of the pass.
<1>5. ASSUME NEW p \in Pass, releaser' = [releaser EXCEPT ![r] = p], p.todo \subseteq releaser[r].todo,
             \A k \in Job : notices[k] # << >> => notices'[k] # << >>,
             p.pc = "cleanup" => \A k \in Job : Current(r, k) => notices'[k] # << >>,
             p.pc = "cleanup" => p.todo = releaser[r].todo
      PROVE  releaser' \in [Releaser -> Pass] /\ \A k \in Job : Recovers(k)
  <2>1. releaser' \in [Releaser -> Pass] /\ releaser'[r] = p
    BY <1>5
  <2>2. ASSUME NEW k \in Job, NEW q \in Releaser, k \in releaser'[q].todo
        PROVE  /\ Retained(k) \/ k \in releaser[q].todo
               /\ releaser'[q].pc = "cleanup" /\ Current(q, k)' => notices'[k] # << >>
    <3>1. CASE q = r
      <4>1. p.pc = "cleanup" /\ Current(r, k)' => Current(r, k)
        BY <1>5, <2>1 DEF Current
      <4>. QED
        BY <1>5, <2>1, <2>2, <3>1, <4>1
    <3>2. CASE q # r
      <4>1. releaser'[q] = releaser[q]
        BY <1>5, <3>2
      <4>2. Current(q, k)' <=> Current(q, k)
        BY <4>1 DEF Current
      <4>. QED
        BY <1>5, <2>2, <4>1, <4>2 DEF JobsInv, JobInv, PassInv
    <3>. QED
      BY <3>1, <3>2
  <2>. QED
    BY <2>1, <2>2 DEF Recovers
<1>6. SUFFICES /\ disk' \in HistoryFile /\ disk'.next <= nextId' /\ outbox' \in [Job -> Notice \union {NoNotice}]
               /\ notices' \in [Job -> Seq(Notice)] /\ waiting' \in 0..MaxPending /\ announced' \subseteq Job
               /\ releaser' \in [Releaser -> Pass]
               /\ \A k \in Job : Written(k) /\ Delivered(k) /\ Recovers(k)
  <2>1. ASSUME /\ disk' \in HistoryFile /\ disk'.next <= nextId' /\ outbox' \in [Job -> Notice \union {NoNotice}]
               /\ notices' \in [Job -> Seq(Notice)] /\ waiting' \in 0..MaxPending /\ announced' \subseteq Job
               /\ releaser' \in [Releaser -> Pass]
               /\ \A k \in Job : Written(k) /\ Delivered(k) /\ Recovers(k)
        PROVE  JobsInv'
    <3>1. JobTypeOK'
      BY <1>1, <1>2, <1>3, <2>1 DEF JobTypeOK
    <3>. QED
      BY <1>1, <2>1, <3>1, DeliveryInv DEF JobsInv
  <2>. QED
    BY <2>1
<1>7. CASE RecoverPersist(r)
  <2>1. outbox' = outbox /\ notices' = notices /\ waiting' = waiting /\ announced' = announced
    BY <1>7 DEF RecoverPersist
  <2>2. disk' \in HistoryFile /\ (disk' = disk \/ (disk'.next = nextId /\ disk'.outbox = outbox
                                                   /\ \A k \in Job : disk'.state[k] = row[k].state))
    BY <1>7, PersistWrites DEF RecoverPersist
  <2>3. \A k \in Job : Written(k) /\ Delivered(k)
    BY <1>1, <2>1, <2>2 DEF Written, Delivered
  <2>4. disk'.next <= nextId'
    BY <1>1, <2>2
  <2>5. \/ releaser' = [releaser EXCEPT ![r] = [releaser[r] EXCEPT !.pc = "admit"]]
        \/ releaser' = [releaser EXCEPT ![r] = Recovering({})]
    BY <1>7 DEF RecoverPersist
  <2>6. [releaser[r] EXCEPT !.pc = "admit"] \in Pass
    BY DEF Pass
  <2>7. Recovering({}).pc # "cleanup"
    BY RecoveringType
  <2>8. releaser' \in [Releaser -> Pass] /\ \A k \in Job : Recovers(k)
    <3>1. CASE releaser' = [releaser EXCEPT ![r] = [releaser[r] EXCEPT !.pc = "admit"]]
      <4>. DEFINE p == [releaser[r] EXCEPT !.pc = "admit"]
      <4>1. p.todo = releaser[r].todo /\ p.pc = "admit"
        BY DEF Pass
      <4>. HIDE DEF p
      <4>. QED
        BY <1>5, <2>1, <2>6, <3>1, <4>1 DEF p
    <3>2. CASE releaser' = [releaser EXCEPT ![r] = Recovering({})]
      BY <1>4, <1>5, <2>1, <2>7, <3>2
    <3>. QED
      BY <2>5, <3>1, <3>2
  <2>. QED
    BY <2>1, <2>2, <2>3, <2>4, <2>8 DEF JobTypeOK
<1>8. CASE RecoverAdmit(r)
  <2>1. outbox' = outbox /\ disk' = disk /\ announced' = announced
    BY <1>8 DEF RecoverAdmit
  <2>2. PICK j \in Job :
            /\ Current(r, j)
            /\ \/ /\ AdmitIdentified(j, outbox[j])
                  /\ releaser' = [releaser EXCEPT ![r].pc = "cleanup"]
               \/ /\ AdmitIdentified(j, outbox[j]) \/ UNCHANGED <<waiting, notices>>
                  /\ releaser' = [releaser EXCEPT ![r] = Recovering({})]
    BY <1>8 DEF RecoverAdmit, AdmitFails
  <2>3. j \in releaser[r].todo /\ JobInv(j)
    BY <2>2 DEF Current, JobsInv
  <2>4. notices[j] = << >> => outbox[j] \in Notice
    BY <2>3 DEF JobInv, PassInv, Retained
  <2>5. \/ notices' = notices /\ waiting' = waiting
        \/ notices[j] = << >> /\ notices' = Inserted(j, outbox[j]) /\ waiting < MaxPending /\ waiting' = waiting + 1
    BY <2>2 DEF AdmitIdentified, Room
  <2>6. waiting' \in 0..MaxPending
    BY <2>5
  <2>7. ASSUME notices[j] = << >>, notices' = Inserted(j, outbox[j])
        PROVE  /\ notices' \in [Job -> Seq(Notice)]
               /\ notices'[j] # << >> /\ Len(notices'[j]) <= 1
               /\ \A k \in Job : k # j => notices'[k] = notices[k]
    <3>1. PICK n \in Notice : n = outbox[j]
      BY <2>4, <2>7
    <3>2. Append(notices[j], n) \in Seq(Notice) /\ Append(notices[j], n) # << >> /\ Len(Append(notices[j], n)) <= 1
      BY <2>7
    <3>3. notices' = [notices EXCEPT ![j] = Append(notices[j], n)]
      BY <2>7, <3>1 DEF Inserted
    <3>. HIDE <2>7
    <3>. QED
      BY <3>2, <3>3
  <2>8. notices' \in [Job -> Seq(Notice)] /\ \A k \in Job : notices[k] # << >> => notices'[k] # << >>
    BY <2>5, <2>7
  <2>9. \A k \in Job : Written(k) /\ Delivered(k)
    BY <2>1, <2>3, <2>5, <2>7 DEF Written, Delivered
  <2>10. releaser' \in [Releaser -> Pass] /\ \A k \in Job : Recovers(k)
    <3>1. CASE releaser' = [releaser EXCEPT ![r].pc = "cleanup"] /\ AdmitIdentified(j, outbox[j])
      <4>. DEFINE p == [releaser[r] EXCEPT !.pc = "cleanup"]
      <4>1. p.todo = releaser[r].todo /\ p.pc = "cleanup" /\ p \in Pass
        BY DEF Pass
      <4>2. releaser' = [releaser EXCEPT ![r] = p]
        BY <3>1
      <4>3. notices'[j] # << >>
        BY <2>7, <3>1 DEF AdmitIdentified
      <4>4. \A k \in Job : Current(r, k) => k = j
        BY <2>2 DEF Current, Job
      <4>. HIDE DEF p
      <4>. QED
        BY <1>5, <2>8, <4>1, <4>2, <4>3, <4>4
    <3>2. CASE releaser' = [releaser EXCEPT ![r] = Recovering({})]
      <4>1. Recovering({}).pc # "cleanup"
        BY RecoveringType
      <4>. QED
        BY <1>4, <1>5, <2>8, <3>2, <4>1
    <3>. QED
      BY <2>2, <3>1, <3>2
  <2>11. announced' \subseteq Job
    BY <2>1 DEF JobTypeOK
  <2>. QED
    BY <1>1, <2>1, <2>6, <2>8, <2>9, <2>10, <2>11
<1>9. CASE RecoverCleanup(r)
  <2>1. notices' = notices /\ waiting' = waiting /\ releaser[r].pc = "cleanup"
    BY <1>9 DEF RecoverCleanup
  <2>2. PICK j \in Job :
            /\ Current(r, j)
            /\ announced' = announced \union {j}
            /\ \/ /\ PersistOk(row, Cleared(j), nextId)
                  /\ outbox' = Cleared(j)
                  /\ releaser' = [releaser EXCEPT ![r] = Recovering(releaser[r].todo \ {j})]
               \/ /\ PersistFails(row, Cleared(j), nextId)
                  /\ outbox' = outbox
                  /\ releaser' = [releaser EXCEPT ![r] = Recovering({})]
    BY <1>9 DEF RecoverCleanup
  <2>3. notices[j] # << >>
    BY <2>1, <2>2 DEF Current, JobsInv, JobInv, PassInv
  <2>4. Cleared(j) \in [Job -> Notice \union {NoNotice}] /\ \A k \in Job : k # j => Cleared(j)[k] = outbox[k]
    BY DEF Cleared
  <2>5. Cleared(j)[j] = NoNotice
    BY DEF Cleared
  <2>6. disk' \in HistoryFile /\ (disk' = disk \/ (disk'.next = nextId /\ disk'.outbox = Cleared(j)
                                                   /\ \A k \in Job : disk'.state[k] = row[k].state))
    BY <2>2, <2>4, PersistWrites
  <2>7. \A k \in Job : Written(k) /\ Delivered(k)
    BY <1>1, <2>1, <2>2, <2>3, <2>4, <2>5, <2>6 DEF Written, Delivered
  <2>8. disk'.next <= nextId'
    BY <1>1, <2>6
  <2>9. PICK todo \in SUBSET Job : releaser' = [releaser EXCEPT ![r] = Recovering(todo)] /\ todo \subseteq releaser[r].todo
    <3>1. releaser[r].todo \subseteq Job
      BY DEF Pass
    <3>2. CASE releaser' = [releaser EXCEPT ![r] = Recovering({})]
      <4>1. {} \in SUBSET Job /\ {} \subseteq releaser[r].todo
        OBVIOUS
      <4>. QED
        BY <3>2, <4>1
    <3>3. CASE releaser' = [releaser EXCEPT ![r] = Recovering(releaser[r].todo \ {j})]
      <4>1. releaser[r].todo \ {j} \in SUBSET Job /\ releaser[r].todo \ {j} \subseteq releaser[r].todo
        BY <3>1
      <4>. QED
        BY <3>3, <4>1
    <3>. QED
      BY <2>2, <3>2, <3>3
  <2>10. Recovering(todo) \in Pass /\ Recovering(todo).todo = todo /\ Recovering(todo).pc # "cleanup"
    BY RecoveringType
  <2>11. releaser' \in [Releaser -> Pass] /\ \A k \in Job : Recovers(k)
    BY <1>5, <2>1, <2>9, <2>10
  <2>12. outbox' \in [Job -> Notice \union {NoNotice}] /\ announced' \subseteq Job
    BY <2>2, <2>4 DEF JobTypeOK
  <2>. QED
    BY <2>1, <2>6, <2>7, <2>8, <2>11, <2>12
<1>. QED
  BY <1>7, <1>8, <1>9 DEF RecoverStep

\* The registry hands out an id nobody has used.
LEMMA SpawnInv ==
    ASSUME JobsInv, NEW c \in Kind, NEW w \in BOOLEAN, Spawn(c, w)
    PROVE  JobsInv'
<1>. /\ JobTypeOK /\ disk.next <= nextId /\ disk \in HistoryFile /\ nextId \in 1..(MaxAdmissions + 1)
     /\ row \in [Job -> Row] /\ task \in [Job -> Worker] /\ outbox \in [Job -> Notice \union {NoNotice}]
     /\ MaxAdmissions \in Nat /\ nextId \in Nat /\ disk.next \in Nat
  BY JobLimitAssumption DEF JobsInv, JobTypeOK, HistoryFile
<1>. DEFINE over == [j \in Job |-> task[j].handle = "none" \/ TaskOver(j)]
            kept == Pruned(row, outbox, over)
            new == [NoRow EXCEPT !.kind = c, !.wakes = w, !.state = "queued"]
            added == [kept EXCEPT ![nextId] = new]
<1>1. /\ outbox' = outbox /\ tokens' = tokens /\ paused' = paused /\ closed' = closed /\ waiting' = waiting
      /\ notices' = notices /\ announced' = announced /\ woken' = woken /\ turns' = turns /\ releaser' = releaser
      /\ stuck' = stuck /\ nextId' = nextId + 1 /\ nextId <= MaxAdmissions
  BY DEF Spawn
<1>2. \/ PersistOk(added, outbox, nextId + 1) /\ row' = added /\ task' = [task EXCEPT ![nextId].pc = "queued"]
      \/ PersistFails(added, outbox, nextId + 1) /\ row' = kept /\ task' = task
  BY DEF Spawn
<1>3. nextId \in Job /\ nextId' \in 1..(MaxAdmissions + 1) /\ nextId' \in Nat /\ nextId <= nextId'
  BY <1>1 DEF Job
<1>4. /\ kept \in [Job -> Row]
      /\ \A j \in Job : kept[j] = row[j] \/ (kept[j] = Gone(row[j]) /\ row[j].state \in Outcome /\ over[j])
  BY PrunedFacts
<1>5. \A j \in Job : kept[j] = row[j] \/ (kept[j] = Gone(row[j]) /\ row[j].state \in Outcome)
  BY <1>4
<1>6. new \in Row /\ new.state = "queued"
  BY DEF NoRow, Row, Kind, State, Unsettled
<1>. HIDE DEF over, kept, new
<1>7. added \in [Job -> Row] /\ added[nextId] = new /\ \A j \in Job : j # nextId => added[j] = kept[j]
  BY <1>3, <1>4, <1>6
<1>. HIDE DEF added
<1>8. task' \in [Job -> Worker] /\ \A j \in Job : j # nextId => task'[j] = task[j]
  BY <1>2, <1>3 DEF Worker, Pc
<1>9. spent' \in [cancels : Nat, faults : Nat, restarts : Nat]
  <2>1. spent' = spent \/ spent' = [spent EXCEPT !.faults = @ + 1]
    BY <1>2 DEF PersistOk, PersistFails
  <2>2. spent \in [cancels : Nat, faults : Nat, restarts : Nat]
    BY DEF JobTypeOK
  <2>3. spent.faults + 1 \in Nat
    BY <2>2
  <2>. QED
    BY <2>1, <2>2, <2>3
<1>10. /\ disk' \in HistoryFile
       /\ disk' = disk \/ (disk'.next = nextId + 1 /\ disk'.outbox = outbox
                           /\ \A j \in Job : disk'.state[j] = added[j].state)
  BY <1>1, <1>2, <1>3, <1>7, PersistWrites
<1>11. JobTypeOK'
  BY <1>1, <1>2, <1>3, <1>4, <1>7, <1>8, <1>9, <1>10 DEF JobTypeOK
<1>12. disk'.next <= nextId'
  BY <1>1, <1>3, <1>10
<1>13. FileInv(nextId) /\ Untouched(nextId) /\ disk.state[nextId] = "absent"
  <2>1. FileInv(nextId)
    BY <1>3 DEF JobsInv, JobInv
  <2>. QED
    BY <2>1 DEF FileInv
<1>14. \A r \in Releaser, j \in Job : Current(r, j)' <=> Current(r, j)
  BY <1>1 DEF Current
<1>15. ASSUME NEW j \in Job, row'[j] = kept[j], task'[j] = task[j], j = nextId \/ Written(j)
       PROVE  JobInv(j)'
  <2>1. JobInv(j)
    BY DEF JobsInv
  <2>2. row[j] \in Row /\ row'[j].kind = row[j].kind /\ row'[j].wakes = row[j].wakes
    BY <1>5, <1>15, GoneType
  <2>3. row'[j] = row[j] \/ (row'[j].state = "absent" /\ row[j].state \in Outcome)
    BY <1>5, <1>15, <2>2, GoneType
  <2>4. (Unsent(j)' <=> Unsent(j)) /\ (Retained(j)' <=> Retained(j)) /\ (Notifies(j)' <=> Notifies(j))
    BY <1>1, <1>15, <2>2 DEF Unsent, Retained, Notifies
  <2>5. WorkerInv(j)'
    BY <1>1, <1>15, <2>1, <2>2, <2>3, <2>4 DEF JobInv, WorkerInv, Live, Outcome, Unsettled
  <2>6. PassInv(j)'
    BY <1>1, <1>14, <2>1, <2>4 DEF JobInv, PassInv
  <2>7. Untouched(j) => Untouched(j)'
    BY <1>1, <1>15, <2>3, <2>4 DEF Untouched
  <2>8. FileInv(j)'
    <3>1. CASE Written(j)
      BY <1>1, <1>3, <2>1, <2>3, <2>4, <2>5, <2>7, <3>1, FileKept DEF JobInv, FileInv
    <3>2. CASE j = nextId /\ disk' # disk
      <4>1. disk'.state[j] = "queued" /\ disk'.next = nextId + 1
        BY <1>6, <1>7, <1>10, <3>2
      <4>. QED
        BY <3>2, <4>1 DEF FileInv
    <3>3. CASE disk' = disk
      BY <3>1, <3>3 DEF Written
    <3>. QED
      BY <1>15, <3>1, <3>2, <3>3
  <2>. QED
    BY <2>5, <2>6, <2>8 DEF JobInv
<1>16. ASSUME NEW j \in Job, j # nextId
       PROVE  JobInv(j)'
  <2>1. row'[j] = kept[j] /\ task'[j] = task[j]
    BY <1>2, <1>7, <1>8, <1>16
  <2>2. Written(j)
    BY <1>1, <1>7, <1>10, <1>16, <2>1 DEF Written
  <2>. QED
    BY <1>15, <2>1, <2>2
<1>17. PICK i \in Job : i = nextId
  BY <1>3
<1>18. JobInv(i)'
  <2>1. CASE row' = kept /\ task' = task
    BY <1>15, <1>17, <2>1
  <2>2. CASE PersistOk(added, outbox, nextId + 1) /\ row' = added /\ task' = [task EXCEPT ![nextId].pc = "queued"]
    <3>1. row'[i].state = "queued" /\ task'[i].pc = "queued"
      BY <1>6, <1>7, <1>17, <2>2 DEF Worker
    <3>2. disk'.next = i + 1 /\ disk'.state[i] = "queued"
      <4>1. nextId + 1 \in 1..(MaxAdmissions + 1)
        BY <1>1, <1>3
      <4>2. disk' = History(added, outbox, nextId + 1)
        BY <2>2 DEF PersistOk
      <4>. QED
        BY <1>6, <1>7, <1>17, <4>1, <4>2, HistoryType
    <3>3. notices'[i] = << >> /\ ~Retained(i)' /\ \A r \in Releaser : i \notin releaser'[r].todo
      BY <1>1, <1>13, <1>17 DEF Untouched, Retained
    <3>4. WorkerInv(i)'
      <4>1. Len(notices'[i]) <= 1
        BY <3>3
      <4>. QED
        BY <3>1, <3>3, <4>1 DEF WorkerInv
    <3>5. PassInv(i)'
      BY <3>3 DEF PassInv
    <3>6. FileInv(i)'
      <4>1. i \in Nat
        BY <1>17
      <4>. QED
        BY <3>2, <4>1 DEF FileInv
    <3>. QED
      BY <3>4, <3>5, <3>6 DEF JobInv
  <2>. QED
    BY <1>2, <2>1, <2>2
<1>. QED
  BY <1>11, <1>12, <1>16, <1>17, <1>18 DEF JobsInv

\* dispose empties the registry; a settlement that has begun goes on against it.
LEMMA DisposeInv ==
    ASSUME JobsInv, Dispose
    PROVE  JobsInv'
<1>. /\ JobTypeOK /\ disk.next <= nextId /\ row \in [Job -> Row] /\ task \in [Job -> Worker]
     /\ nextId \in Nat /\ nextId <= nextId
  BY JobLimitAssumption DEF JobsInv, JobTypeOK
<1>1. /\ nextId' = nextId /\ outbox' = outbox /\ tokens' = tokens /\ paused' = paused /\ disk' = disk
      /\ waiting' = waiting /\ notices' = notices /\ announced' = announced /\ woken' = woken /\ turns' = turns
      /\ releaser' = releaser /\ stuck' = stuck /\ spent' = spent /\ closed' = TRUE
      /\ row' = [j \in Job |-> [Gone(row[j]) EXCEPT !.cancelled = TRUE]]
      /\ task' = [j \in Job |-> IF task[j].handle = "none" THEN task[j] ELSE Aborted(task[j])]
  BY DEF Dispose
<1>2. ASSUME NEW j \in Job
      PROVE  /\ row'[j] \in Row /\ row'[j].state = "absent"
             /\ row'[j].kind = row[j].kind /\ row'[j].wakes = row[j].wakes
  <2>1. row'[j] = [Gone(row[j]) EXCEPT !.cancelled = TRUE] /\ Gone(row[j]) \in Row
    BY <1>1, GoneType
  <2>2. /\ Gone(row[j]).state = "absent"
        /\ Gone(row[j]).kind = row[j].kind /\ Gone(row[j]).wakes = row[j].wakes
    BY GoneType
  <2>. QED
    BY <2>1, <2>2 DEF Row
<1>3. ASSUME NEW j \in Job
      PROVE  /\ task'[j] \in Worker
             /\ task'[j].pc = "none" \/ (task'[j].pc = task[j].pc /\ task'[j].outcome = task[j].outcome)
             /\ task[j].pc \notin {"queued", "running"} => task'[j].pc = task[j].pc
             /\ task'[j].token \in {task[j].token, FALSE}
  <2>1. task'[j] = task[j] \/ task'[j] = Aborted(task[j])
    BY <1>1
  <2>. QED
    BY <2>1, AbortedType
<1>4. row' \in [Job -> Row] /\ task' \in [Job -> Worker]
  BY <1>1, <1>2, <1>3
<1>5. JobTypeOK'
  BY <1>1, <1>4 DEF JobTypeOK
<1>6. ASSUME NEW j \in Job
      PROVE  JobInv(j)'
  <2>1. JobInv(j)
    BY DEF JobsInv
  <2>2. (Unsent(j)' => Unsent(j)) /\ (Retained(j)' <=> Retained(j)) /\ (Notifies(j)' <=> Notifies(j))
    BY <1>1, <1>2, <1>3 DEF Unsent, Retained, Notifies
  <2>3. WorkerInv(j)'
    BY <1>1, <1>2, <1>3, <2>1, <2>2 DEF JobInv, WorkerInv
  <2>4. \A r \in Releaser : Current(r, j)' <=> Current(r, j)
    BY <1>1 DEF Current
  <2>5. PassInv(j)'
    BY <1>1, <2>1, <2>2, <2>4 DEF JobInv, PassInv
  <2>6. Untouched(j) => Untouched(j)'
    BY <1>1, <1>2, <1>3, <2>2 DEF Untouched
  <2>7. Written(j)
    BY <1>1 DEF Written
  <2>8. FileInv(j)'
    BY <1>1, <1>2, <2>1, <2>2, <2>3, <2>6, <2>7, FileKept DEF JobInv, FileInv
  <2>. QED
    BY <2>3, <2>5, <2>8 DEF JobInv
<1>. QED
  BY <1>1, <1>5, <1>6 DEF JobsInv

\* The next process knows what the file says, and recovers what it retains.
LEMMA RestartInv ==
    ASSUME JobsInv, NEW first \in Releaser, Restart(first)
    PROVE  JobsInv'
<1>. /\ JobTypeOK /\ disk.next <= nextId /\ row \in [Job -> Row] /\ disk \in HistoryFile
     /\ disk.next \in 1..(MaxAdmissions + 1) /\ disk.next \in Nat
     /\ disk.outbox \in [Job -> Notice \union {NoNotice}] /\ disk.state \in [Job -> State]
  BY JobLimitAssumption DEF JobsInv, JobTypeOK, HistoryFile
<1>. DEFINE read == [j \in Job |-> [Gone(row[j]) EXCEPT !.cancelled = FALSE,
                        !.state = IF disk.state[j] \in Unsettled THEN "interrupted" ELSE disk.state[j]]]
            over == [j \in Job |-> TRUE]
            kept == Pruned(read, disk.outbox, over)
            todo(r) == IF r = first THEN Recoverable(disk.outbox) ELSE {}
<1>1. /\ row' = kept /\ outbox' = disk.outbox /\ nextId' = disk.next
      /\ disk' = History(kept, disk.outbox, disk.next)
      /\ tokens' = WakeCapacity /\ turns' = turns + 1 /\ paused' = FALSE /\ closed' = FALSE
      /\ task' = [j \in Job |-> NoTask]
      /\ releaser' = [r \in Releaser |-> Recovering(todo(r))]
      /\ spent' = [spent EXCEPT !.restarts = @ + 1]
      /\ waiting' = waiting /\ notices' = notices /\ announced' = announced /\ woken' = woken /\ stuck' = stuck
  BY DEF Restart
<1>2. ASSUME NEW j \in Job
      PROVE  /\ read[j] \in Row
             /\ read[j].kind = row[j].kind /\ read[j].wakes = row[j].wakes
             /\ read[j].state = IF disk.state[j] \in Unsettled THEN "interrupted" ELSE disk.state[j]
  <2>. DEFINE s == IF disk.state[j] \in Unsettled THEN "interrupted" ELSE disk.state[j]
  <2>1. s \in State
    BY DEF State, Outcome
  <2>2. read[j] = [Gone(row[j]) EXCEPT !.cancelled = FALSE, !.state = s]
    BY DEF read
  <2>3. /\ Gone(row[j]) \in Row
        /\ Gone(row[j]).kind = row[j].kind /\ Gone(row[j]).wakes = row[j].wakes
    BY GoneType
  <2>. HIDE DEF s, read
  <2>4. read[j].state = s /\ read[j] \in Row /\ read[j].kind = row[j].kind /\ read[j].wakes = row[j].wakes
    BY <2>1, <2>2, <2>3 DEF Row
  <2>. QED
    BY <2>4 DEF s
<1>3. read \in [Job -> Row]
  <2>1. \A j \in Job : read[j] \in Row
    BY <1>2
  <2>2. read = [j \in Job |-> read[j]]
    BY DEF read
  <2>. QED
    BY <2>1, <2>2
<1>. HIDE DEF read, over
<1>4. /\ kept \in [Job -> Row]
      /\ \A j \in Job : kept[j] = read[j] \/ kept[j] = Gone(read[j])
  BY <1>3, PrunedFacts
<1>. HIDE DEF kept
<1>5. ASSUME NEW j \in Job
      PROVE  /\ kept[j].kind = row[j].kind /\ kept[j].wakes = row[j].wakes
             /\ kept[j].state \in {read[j].state, "absent"}
  <2>1. /\ read[j] \in Row /\ Gone(read[j]).kind = read[j].kind /\ Gone(read[j]).wakes = read[j].wakes
        /\ Gone(read[j]).state = "absent"
    BY <1>2, GoneType
  <2>. QED
    BY <1>2, <1>4, <2>1
<1>6. /\ disk' \in HistoryFile /\ disk'.next = disk.next /\ disk'.outbox = disk.outbox
      /\ \A j \in Job : disk'.state[j] = kept[j].state
  BY <1>1, <1>4, HistoryType
<1>7. \A r \in Releaser : /\ Recovering(todo(r)) \in Pass /\ Recovering(todo(r)).pc # "cleanup"
                          /\ \A j \in Recovering(todo(r)).todo : disk.outbox[j] # NoNotice
  <2>1. \A r \in Releaser : todo(r) \in SUBSET Job /\ \A j \in todo(r) : disk.outbox[j] # NoNotice
    BY RecoverableFacts
  <2>. HIDE DEF todo
  <2>. QED
    BY <2>1, RecoveringType
<1>. HIDE DEF todo
<1>8. /\ releaser' \in [Releaser -> Pass]
      /\ \A r \in Releaser : /\ releaser'[r].pc # "cleanup"
                             /\ \A j \in releaser'[r].todo : disk.outbox[j] # NoNotice
  BY <1>1, <1>7
<1>9. task' \in [Job -> Worker] /\ \A j \in Job : task'[j].pc = "none"
  BY <1>1, Constants
<1>10. JobTypeOK'
  <2>1. tokens' \in 0..WakeCapacity /\ turns' \in Nat
    <3>1. WakeCapacity \in Nat /\ turns \in Nat
      BY JobLimitAssumption DEF JobTypeOK
    <3>. QED
      BY <1>1, <3>1
  <2>2. spent \in [cancels : Nat, faults : Nat, restarts : Nat]
    BY DEF JobTypeOK
  <2>3. spent.restarts + 1 \in Nat
    BY <2>2
  <2>4. spent' \in [cancels : Nat, faults : Nat, restarts : Nat]
    BY <1>1, <2>2, <2>3
  <2>. QED
    BY <1>1, <1>4, <1>6, <1>8, <1>9, <2>1, <2>4 DEF JobTypeOK
<1>11. ASSUME NEW j \in Job
       PROVE  JobInv(j)'
  <2>1. JobInv(j)
    BY DEF JobsInv
  <2>2. Notifies(j)' <=> Notifies(j)
    BY <1>1, <1>5 DEF Notifies
  <2>3. row'[j].state = "completed" => disk.state[j] = "completed"
    BY <1>1, <1>2, <1>5
  <2>4. WorkerInv(j)'
    <3>1. Notifies(j)' /\ row'[j].state = "completed" => notices'[j] # << >> \/ Retained(j)'
      BY <1>1, <2>1, <2>2, <2>3 DEF JobInv, FileInv, Retained
    <3>2. Len(notices'[j]) <= 1
      BY <1>1, <2>1 DEF JobInv, WorkerInv
    <3>. QED
      BY <1>9, <3>1, <3>2 DEF WorkerInv, Unsent
  <2>5. PassInv(j)'
    BY <1>1, <1>8, <1>9 DEF PassInv, Unsent, Retained
  <2>6. j >= disk.next => Untouched(j)'
    <3>1. j >= disk.next => disk.outbox[j] = NoNotice /\ disk.state[j] = "absent" /\ notices[j] = << >>
      BY <2>1 DEF JobInv, FileInv, Untouched
    <3>2. disk.state[j] = "absent" => kept[j].state = "absent"
      BY <1>2, <1>5 DEF Unsettled
    <3>. QED
      BY <1>1, <1>8, <1>9, <3>1, <3>2 DEF Untouched, Retained
  <2>7. FileInv(j)'
    <3>1. j >= disk'.next => Untouched(j)' /\ disk'.outbox[j] = NoNotice /\ disk'.state[j] = "absent"
      BY <1>1, <1>6, <2>6 DEF Untouched, Retained
    <3>2. disk'.state[j] = "completed" => row'[j].state = "completed"
      BY <1>1, <1>6
    <3>3. row'[j].state = "completed" /\ Notifies(j)' => notices'[j] # << >> \/ disk'.outbox[j] # NoNotice
      BY <1>1, <1>6, <2>4 DEF WorkerInv, Retained
    <3>. QED
      BY <3>1, <3>2, <3>3 DEF FileInv
  <2>. QED
    BY <2>4, <2>5, <2>7 DEF JobInv
<1>. QED
  BY <1>1, <1>6, <1>10, <1>11 DEF JobsInv

\* The first process starts with nothing admitted and nothing written.
LEMMA InvInit == Init => JobsInv
<1>. SUFFICES ASSUME Init PROVE JobsInv
  OBVIOUS
<1>1. /\ row = [j \in Job |-> NoRow] /\ outbox = [j \in Job |-> NoNotice] /\ task = [j \in Job |-> NoTask]
      /\ disk = History(row, outbox, 1) /\ notices = [j \in Job |-> << >>] /\ nextId = 1
      /\ releaser = [r \in Releaser |-> Recovering({})]
  BY DEF Init
<1>2. Recovering({}) \in Pass /\ Recovering({}).todo = {}
  BY RecoveringType
<1>3. /\ row \in [Job -> Row] /\ outbox \in [Job -> Notice \union {NoNotice}] /\ task \in [Job -> Worker]
      /\ releaser \in [Releaser -> Pass] /\ \A r \in Releaser : releaser[r].todo = {}
      /\ notices \in [Job -> Seq(Notice)]
  BY <1>1, <1>2, Constants
<1>4. 1 \in 1..(MaxAdmissions + 1)
  BY JobLimitAssumption
<1>5. disk \in HistoryFile /\ disk.next = 1 /\ \A j \in Job : disk.state[j] = "absent" /\ disk.outbox[j] = NoNotice
  BY <1>1, <1>3, <1>4, HistoryType, Constants
<1>6. JobTypeOK
  <2>1. tokens \in 0..WakeCapacity /\ waiting \in 0..MaxPending /\ woken \in Nat /\ turns \in Nat
    BY JobLimitAssumption DEF Init
  <2>2. announced \subseteq Job /\ stuck \subseteq Job /\ paused \in BOOLEAN /\ closed \in BOOLEAN
    BY DEF Init
  <2>3. spent \in [cancels : Nat, faults : Nat, restarts : Nat]
    BY DEF Init, NothingUsed
  <2>. QED
    BY <1>1, <1>3, <1>4, <1>5, <2>1, <2>2, <2>3 DEF JobTypeOK
<1>7. ASSUME NEW j \in Job
      PROVE  JobInv(j)
  <2>1. row[j].state = "absent" /\ task[j].pc = "none" /\ notices[j] = << >> /\ ~Retained(j)
    BY <1>1, Constants DEF Retained
  <2>2. Len(notices[j]) <= 1
    BY <2>1
  <2>3. WorkerInv(j)
    BY <2>1, <2>2 DEF WorkerInv, Unsent
  <2>4. PassInv(j)
    BY <1>3 DEF PassInv
  <2>5. FileInv(j)
    BY <1>3, <1>5, <2>1 DEF FileInv, Untouched
  <2>. QED
    BY <2>3, <2>4, <2>5 DEF JobInv
<1>. QED
  BY <1>1, <1>5, <1>6, <1>7 DEF JobsInv

\* Every step keeps the invariant.
LEMMA InvStep == JobsInv /\ [Next]_vars => JobsInv'
<1>. SUFFICES ASSUME JobsInv, [Next]_vars PROVE JobsInv'
  OBVIOUS
<1>1. ASSUME NEW c \in Kind, NEW w \in BOOLEAN, Spawn(c, w) PROVE JobsInv'
  BY <1>1, SpawnInv
<1>2. ASSUME NEW j \in Job, WorkerStep(j) \/ Cancel(j) \/ Promote(j) PROVE JobsInv'
  BY <1>2, JobStepInv DEF JobStep
<1>3. ASSUME NEW r \in Releaser, Release(r) \/ RecoverStep(r) PROVE JobsInv'
  BY <1>3, ReleaseInv, RecoverInv
<1>4. ASSUME NEW r \in Releaser, Restart(r) PROVE JobsInv'
  BY <1>4, RestartInv
<1>5. CASE Pause \/ Unpause \/ TurnSettles \/ MonitorEvent \/ OtherInput
  BY <1>5, CountingInv
<1>6. CASE Dispose
  BY <1>6, DisposeInv
<1>7. CASE UNCHANGED vars
  BY <1>7 DEF vars, JobsInv, JobTypeOK, JobInv, WorkerInv, PassInv, FileInv, Untouched, Unsent, Live, Retained,
         Notifies,
              Current
<1>8. Kinds \subseteq Kind /\ Wakes \subseteq BOOLEAN /\ "foreground" \in Kind
  BY JobLimitAssumption DEF Kind
<1>. QED
  BY <1>1, <1>2, <1>3, <1>4, <1>5, <1>6, <1>7, <1>8 DEF Next

\* So it holds in every reachable state.
LEMMA JobsInvariant == Spec => []JobsInv
BY InvInit, InvStep, PTL DEF Spec

-----------------------------------------------------------------------------
(* What follows                                                            *)

\* In every reachable state every variable has its type: in particular a settlement
\* always has an outcome to write, and the notices a session logs are whole.
THEOREM JobsTypeCorrect == Spec => []JobTypeOK
<1>1. JobsInv => JobTypeOK
  BY DEF JobsInv
<1>. QED
  BY <1>1, JobsInvariant, PTL

\* enqueue_identified_inbox and settle_job together insert a job's notice at most once,
\* whatever is retried, released at the same time, cleared in vain or restarted.
THEOREM NoticedAtMostOnce == Spec => []NoticeOnce
<1>1. JobsInv => NoticeOnce
  BY DEF JobsInv, JobInv, WorkerInv, NoticeOnce
<1>. QED
  BY <1>1, JobsInvariant, PTL

\* A completed row, in memory or in the file, has its notice in the log or in the
\* outbox beside it.
THEOREM ResultAlwaysKept == Spec => []ResultKept
<1>1. JobsInv => ResultKept
  BY DEF JobsInv, JobInv, WorkerInv, FileInv, ResultKept
<1>. QED
  BY <1>1, JobsInvariant, PTL

-----------------------------------------------------------------------------
(* The wake budget                                                         *)

\* A token a worker holds, as a number.
Held(b) == IF b THEN 1 ELSE 0

\* The other workers' tokens.
HeldBeside(j) == Cardinality({k \in Job \ {j} : task[k].token})

\* Two facts of arithmetic about sums with a common part.
LEMMA SumsCompare ==
    /\ \A a, b, c, d, h \in Nat : a + b = c + d => a + h + b <= c + h + d
    /\ \A t, h, k, w, p, c \in Nat : t + h + w <= p /\ k <= h => t + k + w <= p /\ c + k + w <= p + c
OBVIOUS

\* The jobs a registry may admit are finitely many.
LEMMA JobsFinite ==
    /\ IsFiniteSet(Job)
    /\ \A S \in SUBSET Job : IsFiniteSet(S) /\ Cardinality(S) \in Nat
<1>1. IsFiniteSet(Job)
  BY FS_Interval, JobLimitAssumption DEF Job
<1>. QED
  BY <1>1, FS_Subset, FS_CardinalityType

\* The tokens held are the others' and the job's own.
LEMMA HoldingSplit ==
    ASSUME JobTypeOK, NEW j \in Job
    PROVE  Holding = HeldBeside(j) + Held(task[j].token) /\ HeldBeside(j) \in Nat
<1>. DEFINE S == {k \in Job \ {j} : task[k].token}
            T == {k \in Job : task[k].token}
<1>1. IsFiniteSet(S) /\ Cardinality(S) \in Nat
  BY JobsFinite
<1>2. CASE task[j].token
  <2>1. T = S \union {j} /\ j \notin S
    BY <1>2
  <2>2. Cardinality(T) = Cardinality(S) + 1
    BY <1>1, <2>1, FS_AddElement
  <2>. QED
    BY <1>1, <1>2, <2>2 DEF Holding, HeldBeside, Held
<1>3. CASE ~task[j].token
  <2>1. T = S
    BY <1>3
  <2>2. Holding = HeldBeside(j)
    BY <2>1, Zenon DEF Holding, HeldBeside
  <2>3. Held(task[j].token) = 0 /\ HeldBeside(j) \in Nat
    BY <1>1, <1>3 DEF Held, HeldBeside
  <2>. QED
    BY <2>2, <2>3
<1>. QED
  BY <1>2, <1>3

\* A step of a job never makes wakes: what it spends or holds it has taken, and what
\* it gives back it held.
LEMMA JobStepConserves ==
    ASSUME JobTypeOK, NEW j \in Job, JobStep(j), WorkerInv(j)
    PROVE  tokens' + Held(task'[j].token) + woken' <= tokens + Held(task[j].token) + woken
<1>. tokens \in Nat /\ woken \in Nat /\ task[j] \in Worker /\ task \in [Job -> Worker] /\ task[j].token \in BOOLEAN
  BY JobLimitAssumption DEF JobTypeOK, Worker
<1>1. CASE Reserve(j)
  <2>1. \/ tokens' = Charged(j) /\ task'[j].token = TakesToken(j)
        \/ tokens' = tokens /\ task'[j].token = task[j].token
    BY <1>1 DEF Reserve, Worker
  <2>2. woken' = woken
    BY <1>1 DEF Reserve
  <2>3. Charged(j) = tokens - Held(TakesToken(j))
    BY DEF Charged, Held
  <2>4. TakesToken(j) => tokens > 0
    BY DEF TakesToken
  <2>. HIDE DEF TakesToken
  <2>. QED
    BY <2>1, <2>2, <2>3, <2>4 DEF Held
<1>2. CASE Enqueue(j) \/ FlushFails(j)
  <2>1. woken' = woken
    BY <1>2 DEF Enqueue, FlushFails
  <2>2. \/ tokens' = tokens /\ task'[j].token = task[j].token
        \/ tokens' \in {tokens, Refunded(j)} /\ task'[j].token = FALSE
    BY <1>2 DEF Enqueue, FlushFails, Rollback, Worker
  <2>. QED
    BY <2>1, <2>2 DEF Refunded, Held
<1>3. CASE RetainRefused(j) \/ Commit(j)
  <2>1. tokens' = tokens /\ task'[j].token = FALSE
    BY <1>3 DEF RetainRefused, Commit, Worker
  <2>2. woken' = woken \/ (woken' = IF task[j].token THEN woken + 1 ELSE woken)
    BY <1>3 DEF RetainRefused, Commit
  <2>. QED
    BY <2>1, <2>2 DEF Held
<1>4. CASE SettleAgent(j)
  <2>1. task'[j].token = task[j].token
    BY <1>4 DEF SettleAgent, Retry, Worker
  <2>2. \/ tokens' = tokens /\ woken' = woken
        \/ tokens' = Charged(j) /\ woken' = IF TakesToken(j) THEN woken + 1 ELSE woken
    BY <1>4 DEF SettleAgent
  <2>3. TakesToken(j) => tokens > 0
    BY DEF TakesToken
  <2>4. tokens' + woken' = tokens + woken /\ tokens' \in Nat /\ woken' \in Nat
    BY <2>2, <2>3 DEF Charged
  <2>5. Held(task'[j].token) = Held(task[j].token) /\ Held(task[j].token) \in Nat
    BY <2>1 DEF Held
  <2>. QED
    BY <2>4, <2>5, SumsCompare
<1>5. CASE Attach(j)
  <2>1. tokens' = tokens /\ woken' = woken
    BY <1>5 DEF Attach
  <2>2. task'[j].token \in {task[j].token, FALSE}
    <3>1. task'[j] = Aborted(task[j]) \/ task'[j].token = task[j].token
      BY <1>5 DEF Attach, Worker
    <3>. QED
      BY <3>1, AbortedType
  <2>3. Held(task'[j].token) <= Held(task[j].token) /\ Held(task[j].token) \in Nat /\ Held(task'[j].token) \in Nat
    <3>1. CASE task'[j].token = task[j].token
      BY <3>1 DEF Held
    <3>2. CASE task'[j].token = FALSE
      BY <3>2 DEF Held
    <3>. QED
      BY <2>2, <3>1, <3>2
  <2>. QED
    BY <2>1, <2>3
<1>6. CASE JobStep(j) /\ ~(Reserve(j) \/ Enqueue(j) \/ FlushFails(j) \/ RetainRefused(j) \/ Commit(j) \/ SettleAgent(j) \/ Attach(j))
  <2>1. tokens' = tokens /\ woken' = woken
    BY <1>6 DEF JobStep, WorkerStep, Proceeds, Cancel, Promote, Start, BodyEnds, Finalize, PersistCommit,
           SettleSilent,
                DeliverPersist, DeliverAdmit, DeliverCleanup
  <2>2. task'[j].token = task[j].token
    BY <1>6 DEF JobStep, WorkerStep, Proceeds, Cancel, Promote, Start, BodyEnds, Finalize, PersistCommit,
           SettleSilent,
                DeliverPersist, DeliverAdmit, DeliverCleanup, Retry, Worker
  <2>. QED
    BY <2>1, <2>2 DEF Held
<1>. QED
  BY <1>1, <1>2, <1>3, <1>4, <1>5, <1>6

\* One more turn pays for WakeCapacity more wakes.
LEMMA OneMoreTurn ==
    ASSUME NEW c \in Nat, NEW t \in Nat
    PROVE  c * (t + 1 + 1) = c * (t + 1) + c /\ c * (t + 1) \in Nat
OBVIOUS

\* No step spends a wake that was not paid for.
LEMMA WakeStep == JobsInv /\ WakeTokensConserved /\ [Next]_vars => WakeTokensConserved'
<1>. SUFFICES ASSUME JobsInv, WakeTokensConserved, [Next]_vars PROVE WakeTokensConserved'
  OBVIOUS
<1>. JobTypeOK /\ JobTypeOK'
  BY InvStep DEF JobsInv
<1>0. /\ tokens \in Nat /\ tokens' \in Nat /\ woken \in Nat /\ woken' \in Nat /\ turns \in Nat /\ turns' \in Nat
      /\ WakeCapacity \in Nat /\ WakeCapacity * (turns + 1) \in Nat
  BY JobLimitAssumption DEF JobTypeOK
<1>1. Holding \in Nat
  BY JobsFinite DEF Holding
<1>2. ASSUME NEW j \in Job, JobStep(j) PROVE WakeTokensConserved'
  <2>1. WorkerInv(j)
    BY DEF JobsInv, JobInv
  <2>2. tokens' + Held(task'[j].token) + woken' <= tokens + Held(task[j].token) + woken
    BY <1>2, <2>1, JobStepConserves
  <2>3. HeldBeside(j)' = HeldBeside(j)
    <3>1. \A k \in Job : k # j => task'[k] = task[k]
      BY <1>2, <2>1, TaskFrame
    <3>2. {k \in Job \ {j} : task'[k].token} = {k \in Job \ {j} : task[k].token}
      BY <3>1
    <3>. QED
      BY <3>2 DEF HeldBeside
  <2>4. Holding = HeldBeside(j) + Held(task[j].token) /\ HeldBeside(j) \in Nat
    BY HoldingSplit
  <2>5. Holding' = HeldBeside(j) + Held(task'[j].token)
    <3>1. (Holding = HeldBeside(j) + Held(task[j].token))'
      BY HoldingSplit, PTL
    <3>. QED
      BY <2>3, <3>1
  <2>6. turns' = turns
    BY <1>2, CounterFrame
  <2>7. Held(task[j].token) \in Nat /\ Held(task'[j].token) \in Nat
    BY DEF Held
  <2>. QED
    BY <1>0, <2>2, <2>4, <2>5, <2>6, <2>7 DEF WakeTokensConserved
<1>3. ASSUME task' = task, tokens' = tokens, woken' = woken, turns' = turns PROVE WakeTokensConserved'
  BY <1>3 DEF WakeTokensConserved, Holding
<1>4. ASSUME tokens' = WakeCapacity, woken' = woken, turns' = turns + 1, Holding' <= Holding, Holding' \in Nat
      PROVE  WakeTokensConserved'
  <2>1. WakeCapacity * (turns + 1 + 1) = WakeCapacity * (turns + 1) + WakeCapacity
    BY <1>0, OneMoreTurn
  <2>2. tokens + Holding + woken <= WakeCapacity * (turns + 1)
    BY DEF WakeTokensConserved
  <2>3. WakeCapacity + Holding' + woken <= WakeCapacity * (turns + 1) + WakeCapacity
    <3>1. PICK p \in Nat : p = WakeCapacity * (turns + 1)
      BY <1>0
    <3>2. PICK k \in Nat : k = Holding'
      BY <1>4
    <3>3. PICK h \in Nat : h = Holding
      BY <1>1
    <3>4. tokens + h + woken <= p /\ k <= h
      BY <1>4, <2>2, <3>1, <3>2, <3>3
    <3>5. WakeCapacity + k + woken <= p + WakeCapacity
      BY <1>0, <3>4
    <3>. QED
      BY <3>1, <3>2, <3>5
  <2>4. tokens' + Holding' + woken' <= WakeCapacity * (turns' + 1)
    BY <1>4, <2>1, <2>3
  <2>. QED
    BY <2>4 DEF WakeTokensConserved
<1>5. CASE TurnSettles
  <2>1. tokens' = WakeCapacity /\ woken' = woken /\ turns' = turns + 1 /\ task' = task
    BY <1>5 DEF TurnSettles
  <2>2. Holding' = Holding
    BY <2>1 DEF Holding
  <2>. QED
    BY <1>1, <1>4, <2>1, <2>2
<1>6. ASSUME NEW r \in Releaser, Restart(r) PROVE WakeTokensConserved'
  <2>1. tokens' = WakeCapacity /\ woken' = woken /\ turns' = turns + 1 /\ task' = [j \in Job |-> NoTask]
    BY <1>6 DEF Restart
  <2>2. {j \in Job : task'[j].token} = {}
    BY <2>1 DEF NoTask
  <2>3. Holding' = 0
    BY <2>2, FS_EmptySet DEF Holding
  <2>. QED
    BY <1>1, <1>4, <2>1, <2>3
<1>7. CASE MonitorEvent
  <2>1. tokens' = tokens - 1 /\ woken' = woken + 1 /\ turns' = turns /\ task' = task
    BY <1>7 DEF MonitorEvent
  <2>2. Holding' = Holding
    BY <2>1 DEF Holding
  <2>. QED
    BY <1>0, <1>1, <2>1, <2>2 DEF WakeTokensConserved
<1>8. CASE Dispose
  <2>1. tokens' = tokens /\ woken' = woken /\ turns' = turns
    BY <1>8 DEF Dispose
  <2>2. ASSUME NEW j \in Job, task'[j].token PROVE task[j].token
    <3>1. task[j] \in Worker /\ (task'[j] = task[j] \/ task'[j] = Aborted(task[j]))
      BY <1>8 DEF Dispose, JobTypeOK
    <3>2. task'[j].token \in {task[j].token, FALSE}
      BY <3>1, AbortedType
    <3>. QED
      BY <2>2, <3>2
  <2>3. {j \in Job : task'[j].token} \subseteq {j \in Job : task[j].token}
    BY <2>2
  <2>4. Holding' <= Holding /\ Holding' \in Nat
    <3>. DEFINE S == {j \in Job : task[j].token}
                T == {j \in Job : task'[j].token}
    <3>1. IsFiniteSet(S) /\ Cardinality(T) \in Nat
      BY JobsFinite
    <3>2. Cardinality(T) <= Cardinality(S)
      BY <2>3, <3>1, FS_Subset
    <3>. QED
      BY <3>1, <3>2 DEF Holding
  <2>. QED
    <3>1. tokens + Holding + woken <= WakeCapacity * (turns + 1)
      BY DEF WakeTokensConserved
    <3>2. tokens + Holding' + woken <= WakeCapacity * (turns + 1)
      BY <1>0, <1>1, <2>4, <3>1, SumsCompare
    <3>. QED
      BY <2>1, <3>2 DEF WakeTokensConserved
<1>9. ASSUME NEW c, NEW w, Spawn(c, w) PROVE WakeTokensConserved'
  <2>1. tokens' = tokens /\ woken' = woken /\ turns' = turns
    BY <1>9 DEF Spawn
  <2>2. task' = task \/ task' = [task EXCEPT ![nextId].pc = "queued"]
    BY <1>9 DEF Spawn
  <2>3. ASSUME NEW j \in Job PROVE task'[j].token = task[j].token
    <3>1. task \in [Job -> Worker] /\ task[j] \in Worker
      BY DEF JobTypeOK
    <3>2. CASE task' = task
      BY <3>2
    <3>3. CASE task' = [task EXCEPT ![nextId].pc = "queued"]
      <4>1. task'[j] = task[j] \/ task'[j] = [task[j] EXCEPT !.pc = "queued"]
        BY <3>1, <3>3
      <4>. QED
        BY <3>1, <4>1 DEF Worker
    <3>. QED
      BY <2>2, <3>2, <3>3
  <2>4. {j \in Job : task'[j].token} = {j \in Job : task[j].token}
    BY <2>3
  <2>5. Holding' = Holding
    BY <2>4 DEF Holding
  <2>. QED
    BY <2>1, <2>5 DEF WakeTokensConserved
<1>10. ASSUME NEW r \in Releaser, Release(r) \/ RecoverStep(r) PROVE WakeTokensConserved'
  BY <1>3, <1>10 DEF Release, RecoverStep, RecoverPersist, RecoverAdmit, RecoverCleanup
<1>11. CASE Pause \/ Unpause \/ OtherInput \/ UNCHANGED vars
  BY <1>3, <1>11 DEF Pause, Unpause, OtherInput, vars
<1>. QED
  BY <1>2, <1>5, <1>6, <1>7, <1>8, <1>9, <1>10, <1>11 DEF Next, JobStep

\* Background work never wakes its owner more often than turns and process starts
\* have paid for, whatever is rolled back, retried or replenished in between.
THEOREM WakesAlwaysPaid == Spec => []WakeTokensConserved
<1>1. Init => WakeTokensConserved
  <2>. SUFFICES ASSUME Init PROVE WakeTokensConserved
    OBVIOUS
  <2>1. tokens = WakeCapacity /\ woken = 0 /\ turns = 0 /\ task = [j \in Job |-> NoTask]
    BY DEF Init
  <2>2. {j \in Job : task[j].token} = {}
    BY <2>1 DEF NoTask
  <2>3. Holding = 0
    BY <2>2, FS_EmptySet DEF Holding
  <2>4. WakeCapacity \in Nat
    BY JobLimitAssumption
  <2>. QED
    BY <2>1, <2>3, <2>4 DEF WakeTokensConserved
<1>. QED
  BY <1>1, JobsInvariant, WakeStep, PTL DEF Spec

-----------------------------------------------------------------------------
(* Retained agent notices                                                  *)

\* No more notices are retained than one pass of recover_agent_completions takes up
\* (MAX_PENDING_INBOX_MESSAGES); what a pass leaves out waits for the next release.
RetainedFits == Cardinality({j \in Job : Retained(j)}) <= MaxPending

\* A pass then takes up everything that is retained.
LEMMA RecoversAll ==
    ASSUME NEW b, Cardinality({k \in Job : b[k] # NoNotice}) <= MaxPending, NEW j \in Job, b[j] # NoNotice
    PROVE  j \in Recoverable(b)
<1>. DEFINE all == {k \in Job : b[k] # NoNotice}
            older == {k \in all : k < j}
<1>1. j \in all /\ all \subseteq Job /\ older \subseteq all \ {j}
  BY DEF Job
<1>2. IsFiniteSet(all) /\ Cardinality(all) \in Nat /\ Cardinality(older) \in Nat
  BY <1>1, JobsFinite
<1>3. IsFiniteSet(all \ {j}) /\ Cardinality(all \ {j}) = Cardinality(all) - 1
  BY <1>1, <1>2, FS_RemoveElement
<1>4. Cardinality(older) <= Cardinality(all \ {j})
  BY <1>1, <1>3, FS_Subset
<1>5. Cardinality(older) < MaxPending
  BY <1>2, <1>3, <1>4, JobLimitAssumption
<1>. QED
  BY <1>1, <1>5 DEF Recoverable

\* The invariant of one job.
Reason(j) == row[j].kind = "agent" /\ Retained(j) => ~Room \/ Delivering(j) \/ j \in stuck

\* A step that neither frees capacity nor ends a delivery.
LEMMA ReasonKept ==
    ASSUME NEW k \in Job, Reason(k),
           row'[k].kind = row[k].kind, Retained(k)' => Retained(k), ~Room => ~Room', Delivering(k) => Delivering(k)',
           stuck \subseteq stuck'
    PROVE  Reason(k)'
BY DEF Reason

\* A worker that stops delivering leaves a reason: the notice is gone, the inbox is full or
\* the storage failed.
LEMMA JobStepReason ==
    ASSUME JobsInv, NEW j \in Job, JobStep(j), NEW k \in Job, Reason(k)
    PROVE  Reason(k)'
<1>. /\ JobTypeOK /\ WorkerInv(j) /\ waiting \in 0..MaxPending /\ MaxPending \in Nat
     /\ task \in [Job -> Worker] /\ task[j] \in Worker
  BY JobLimitAssumption DEF JobsInv, JobInv, JobTypeOK
<1>1. releaser' = releaser
  BY CounterFrame
<1>2. stuck \subseteq stuck'
  BY DEF JobStep, WorkerStep, Proceeds, Cancel, Promote, Attach, Start, BodyEnds, Finalize, Reserve, RetainRefused,
         Enqueue,
         FlushFails, Commit, PersistCommit, SettleSilent, SettleAgent, DeliverPersist, DeliverAdmit, DeliverCleanup,
         Retry
<1>3. ~Room => ~Room'
  <2>1. waiting' = waiting \/ waiting' = waiting + 1
    BY DEF JobStep, WorkerStep, Proceeds, Cancel, Promote, Attach, Start, BodyEnds, Finalize, Reserve,
           RetainRefused, Enqueue,
           FlushFails, Commit, PersistCommit, SettleSilent, SettleAgent, DeliverPersist, DeliverAdmit, DeliverCleanup,
           AdmitIdentified, AdmitFails
  <2>. QED
    BY <2>1 DEF Room
<1>4. CASE k # j
  <2>1. row'[k] = row[k] /\ task'[k] = task[k] /\ outbox'[k] = outbox[k]
    BY <1>4, RowFrame, TaskFrame, OutboxFrame
  <2>2. (Retained(k)' <=> Retained(k)) /\ (Delivering(k)' <=> Delivering(k))
    BY <1>1, <2>1 DEF Retained, Delivering
  <2>. QED
    BY <1>2, <1>3, <2>1, <2>2, ReasonKept
<1>5. ASSUME k = j, row[j].kind = "agent", Retained(j)'
      PROVE  ~Room' \/ Delivering(j)' \/ j \in stuck'
  <2>0. ASSUME Retry(j) PROVE Delivering(j)' \/ j \in stuck'
    BY <2>0 DEF Retry, Delivering, Worker
  <2>1. CASE SettleAgent(j)
    <3>1. \/ task'[j].pc = "deliver"
          \/ Retry(j)
          \/ ~Retained(j) /\ outbox' = outbox
      BY <2>1 DEF SettleAgent, Worker
    <3>. QED
      BY <1>5, <2>0, <3>1 DEF Delivering, Retained
  <2>2. CASE DeliverPersist(j)
    <3>1. task'[j].pc = "admit" \/ Retry(j)
      BY <2>2 DEF DeliverPersist, Worker
    <3>. QED
      BY <2>0, <3>1 DEF Delivering
  <2>3. CASE DeliverAdmit(j)
    <3>1. task'[j].pc = "cleanup" \/ Retry(j) \/ (NoRoomFor(j) /\ waiting' = waiting)
      BY <2>3 DEF DeliverAdmit, Worker
    <3>. QED
      BY <2>0, <3>1 DEF Delivering, NoRoomFor, Room
  <2>4. CASE DeliverCleanup(j)
    <3>1. outbox' = Cleared(j) \/ Retry(j)
      BY <2>4 DEF DeliverCleanup
    <3>2. outbox' = Cleared(j) => ~Retained(j)'
      BY DEF Cleared, Retained, JobTypeOK
    <3>. QED
      BY <1>5, <2>0, <3>1, <3>2
  <2>5. CASE JobStep(j) /\ ~(SettleAgent(j) \/ DeliverPersist(j) \/ DeliverAdmit(j) \/ DeliverCleanup(j))
    <3>1. outbox' = outbox
      <4>1. ~RetainRefused(j)
        BY <1>5 DEF RetainRefused, WorkerInv
      <4>. QED
        BY <2>5, <4>1 DEF JobStep, WorkerStep, Proceeds, Cancel, Promote, Attach, Start, BodyEnds, Finalize,
               Reserve, Enqueue,
                          FlushFails, Commit, PersistCommit, SettleSilent
    <3>2. Retained(j)
      BY <1>5, <3>1 DEF Retained
    <3>3. task[j].pc \in {"settle", "deliver", "admit", "cleanup"} => task'[j].pc = task[j].pc
      BY <1>5, <2>5 DEF JobStep, WorkerStep, Proceeds, Cancel, Promote, Attach, Aborted, Start, BodyEnds, Finalize,
             Reserve,
                        Enqueue, RetainRefused, FlushFails, Commit, PersistCommit, SettleSilent, Worker
    <3>4. Delivering(j) => Delivering(j)'
      BY <1>1, <3>3 DEF Delivering
    <3>. QED
      BY <1>2, <1>3, <1>5, <3>2, <3>4 DEF Reason
  <2>. QED
    BY <2>1, <2>2, <2>3, <2>4, <2>5
<1>6. row'[j].kind = row[j].kind
  BY RowFrame
<1>. QED
  BY <1>4, <1>5, <1>6 DEF Reason

\* So does a pass.
LEMMA RecoverReason ==
    ASSUME JobsInv, NEW r \in Releaser, RecoverStep(r), NEW k \in Job, Reason(k)
    PROVE  Reason(k)'
<1>. /\ waiting \in 0..MaxPending /\ MaxPending \in Nat /\ releaser \in [Releaser -> Pass] /\ releaser[r] \in Pass
     /\ outbox \in [Job -> Notice \union {NoNotice}]
  BY JobLimitAssumption DEF JobsInv, JobTypeOK
<1>1. row' = row /\ task' = task
  BY DEF RecoverStep, RecoverPersist, RecoverAdmit, RecoverCleanup
<1>2. stuck \subseteq stuck'
  BY DEF RecoverStep, RecoverPersist, RecoverAdmit, RecoverCleanup
<1>3. ~Room => ~Room'
  <2>1. waiting' = waiting \/ waiting' = waiting + 1
    BY DEF RecoverStep, RecoverPersist, RecoverAdmit, RecoverCleanup, AdmitIdentified, AdmitFails
  <2>. QED
    BY <2>1 DEF Room
<1>4. \A q \in Releaser : q # r => releaser'[q] = releaser[q]
  BY DEF RecoverStep, RecoverPersist, RecoverAdmit, RecoverCleanup
<1>5. Retained(k)' => Retained(k)
  <2>1. outbox' = outbox \/ \E j \in Job : outbox' = Cleared(j)
    BY DEF RecoverStep, RecoverPersist, RecoverAdmit, RecoverCleanup
  <2>. QED
    BY <2>1 DEF Cleared, Retained
<1>6. CASE k \notin releaser[r].todo
  <2>1. Delivering(k) => Delivering(k)'
    BY <1>1, <1>4, <1>6 DEF Delivering
  <2>. QED
    BY <1>1, <1>2, <1>3, <1>5, <2>1, ReasonKept
<1>7. ASSUME k \in releaser[r].todo, Retained(k)'
      PROVE  ~Room' \/ Delivering(k)' \/ k \in stuck'
  <2>1. ASSUME releaser'[r].todo = releaser[r].todo PROVE Delivering(k)'
    BY <1>7, <2>1 DEF Delivering
  <2>2. CASE RecoverPersist(r)
    <3>1. releaser' = [releaser EXCEPT ![r].pc = "admit"] \/ stuck' = stuck \union releaser[r].todo
      BY <2>2 DEF RecoverPersist
    <3>2. releaser' = [releaser EXCEPT ![r].pc = "admit"] => releaser'[r].todo = releaser[r].todo
      BY DEF Pass
    <3>. QED
      BY <1>7, <2>1, <3>1, <3>2
  <2>3. CASE RecoverAdmit(r)
    <3>1. \/ releaser' = [releaser EXCEPT ![r].pc = "cleanup"]
          \/ stuck' = stuck \union releaser[r].todo
          \/ ~Room /\ waiting' = waiting
      BY <2>3 DEF RecoverAdmit, NoRoomFor
    <3>2. releaser' = [releaser EXCEPT ![r].pc = "cleanup"] => releaser'[r].todo = releaser[r].todo
      BY DEF Pass
    <3>. QED
      BY <1>3, <1>7, <2>1, <3>1, <3>2
  <2>4. CASE RecoverCleanup(r)
    <3>1. \/ stuck' = stuck \union releaser[r].todo
          \/ \E j \in Job : /\ outbox' = Cleared(j)
                            /\ releaser' = [releaser EXCEPT ![r] = Recovering(releaser[r].todo \ {j})]
      BY <2>4 DEF RecoverCleanup
    <3>2. ASSUME NEW j \in Job, outbox' = Cleared(j),
                 releaser' = [releaser EXCEPT ![r] = Recovering(releaser[r].todo \ {j})]
          PROVE  Delivering(k)'
      <4>1. k # j
        BY <1>7, <3>2 DEF Cleared, Retained
      <4>2. releaser[r].todo \ {j} \in SUBSET Job
        BY DEF Pass
      <4>3. releaser'[r].todo = releaser[r].todo \ {j}
        BY <3>2, <4>2, RecoveringType
      <4>. QED
        BY <1>7, <4>1, <4>3 DEF Delivering
    <3>. QED
      BY <1>7, <3>1, <3>2
  <2>. QED
    BY <2>2, <2>3, <2>4 DEF RecoverStep
<1>. QED
  BY <1>6, <1>7 DEF Reason

\* A step that frees capacity takes up everything that is retained, and the others keep the reason.
LEMMA ReasonStep ==
    JobsInv /\ JobsInv' /\ RetainedFits /\ RetainedFits' /\ (\A k \in Job : Reason(k)) /\ [Next]_vars
        => \A k \in Job : Reason(k)'
<1>. SUFFICES ASSUME JobsInv, JobsInv', RetainedFits, RetainedFits', NEW k \in Job, Reason(k), [Next]_vars
              PROVE  Reason(k)'
  OBVIOUS
<1>. JobTypeOK /\ waiting \in 0..MaxPending /\ MaxPending \in Nat /\ row \in [Job -> Row] /\ task \in [Job -> Worker]
  BY JobLimitAssumption DEF JobsInv, JobTypeOK
<1>1. ASSUME NEW j \in Job, WorkerStep(j) \/ Cancel(j) \/ Promote(j) PROVE Reason(k)'
  BY <1>1, JobStepReason DEF JobStep
<1>2. ASSUME NEW r \in Releaser, RecoverStep(r) PROVE Reason(k)'
  BY <1>2, RecoverReason
<1>3. ASSUME NEW r \in Releaser, Release(r) PROVE Reason(k)'
  <2>. DEFINE todo == Recoverable(outbox)
  <2>1. releaser' = [releaser EXCEPT ![r] = Recovering(todo)] /\ outbox' = outbox
    BY <1>3 DEF Release
  <2>2. todo \in SUBSET Job
    BY RecoverableFacts
  <2>3. Recovering(todo).todo = todo
    BY <2>2, RecoveringType
  <2>4. releaser'[r].todo = todo
    BY <2>1, <2>3 DEF JobTypeOK
  <2>5. Retained(k)' => k \in todo
    BY <2>1, RecoversAll DEF RetainedFits, Retained
  <2>. QED
    BY <2>4, <2>5 DEF Reason, Delivering
<1>4. ASSUME NEW r \in Releaser, Restart(r) PROVE Reason(k)'
  <2>. DEFINE todo == Recoverable(disk.outbox)
  <2>1. outbox' = disk.outbox /\ releaser'[r] = Recovering(todo)
    BY <1>4 DEF Restart
  <2>2. todo \in SUBSET Job
    BY RecoverableFacts
  <2>3. releaser'[r].todo = todo
    BY <2>1, <2>2, RecoveringType
  <2>4. Cardinality({j \in Job : disk.outbox[j] # NoNotice}) <= MaxPending
    BY <2>1 DEF RetainedFits, Retained
  <2>5. Retained(k)' => k \in todo
    BY <2>1, <2>4, RecoversAll DEF Retained
  <2>. QED
    BY <2>3, <2>5 DEF Reason, Delivering
<1>5. ASSUME NEW c, NEW w, Spawn(c, w) PROVE Reason(k)'
  <2>. DEFINE kept == Pruned(row, outbox, [j \in Job |-> task[j].handle = "none" \/ TaskOver(j)])
              new == [NoRow EXCEPT !.kind = c, !.wakes = w, !.state = "queued"]
  <2>1. outbox' = outbox /\ waiting' = waiting /\ stuck' = stuck /\ releaser' = releaser
    BY <1>5 DEF Spawn
  <2>2. row' = kept \/ row' = [kept EXCEPT ![nextId] = new]
    BY <1>5 DEF Spawn
  <2>3. task' = task \/ task' = [task EXCEPT ![nextId].pc = "queued"]
    BY <1>5 DEF Spawn
  <2>4. kept \in [Job -> Row] /\ (kept[k] = row[k] \/ kept[k] = Gone(row[k]))
    BY PrunedFacts
  <2>5. kept[k].kind = row[k].kind
    BY <2>4, GoneType
  <2>. HIDE DEF kept, new
  <2>6. CASE k = nextId
    <3>1. ~Retained(k)
      <4>1. FileInv(k) /\ disk.next <= nextId
        BY DEF JobsInv, JobInv
      <4>2. disk.next \in Nat /\ nextId \in Nat
        BY JobLimitAssumption DEF JobTypeOK, HistoryFile
      <4>. QED
        BY <2>6, <4>1, <4>2 DEF FileInv, Untouched
    <3>. QED
      BY <2>1, <3>1 DEF Reason, Retained
  <2>7. CASE k # nextId
    <3>1. row'[k].kind = row[k].kind /\ task'[k] = task[k]
      BY <2>2, <2>3, <2>4, <2>5, <2>7
    <3>2. (Delivering(k)' <=> Delivering(k)) /\ (Retained(k)' <=> Retained(k)) /\ (Room' <=> Room)
      BY <2>1, <3>1 DEF Delivering, Retained, Room
    <3>. QED
      BY <2>1, <3>1, <3>2 DEF Reason
  <2>. QED
    BY <2>6, <2>7
<1>6. CASE Dispose
  <2>1. outbox' = outbox /\ waiting' = waiting /\ stuck' = stuck /\ releaser' = releaser
    BY <1>6 DEF Dispose
  <2>2. row'[k].kind = row[k].kind
    <3>1. row'[k] = [Gone(row[k]) EXCEPT !.cancelled = TRUE] /\ Gone(row[k]) \in Row /\ Gone(row[k]).kind = row[k].kind
      BY <1>6, GoneType DEF Dispose
    <3>. QED
      BY <3>1 DEF Row
  <2>3. task[k].pc \in {"settle", "deliver", "admit", "cleanup"} => task'[k].pc = task[k].pc
    <3>1. task'[k] = task[k] \/ task'[k] = Aborted(task[k])
      BY <1>6 DEF Dispose
    <3>. QED
      BY <3>1, AbortedType
  <2>4. (Delivering(k) => Delivering(k)') /\ (Retained(k)' <=> Retained(k)) /\ (Room' <=> Room)
    BY <2>1, <2>3 DEF Delivering, Retained, Room
  <2>. QED
    BY <2>1, <2>2, <2>4 DEF Reason
<1>7. CASE Pause \/ Unpause \/ TurnSettles \/ MonitorEvent \/ OtherInput \/ UNCHANGED vars
  <2>1. row' = row /\ task' = task /\ outbox' = outbox /\ releaser' = releaser /\ stuck' = stuck
    BY <1>7 DEF Pause, Unpause, TurnSettles, MonitorEvent, OtherInput, vars
  <2>2. waiting' = waiting \/ waiting' = waiting + 1
    BY <1>7 DEF Pause, Unpause, TurnSettles, MonitorEvent, OtherInput, vars
  <2>3. ~Room => ~Room'
    BY <2>2 DEF Room
  <2>4. (Delivering(k)' <=> Delivering(k)) /\ (Retained(k)' <=> Retained(k))
    BY <2>1 DEF Delivering, Retained
  <2>. QED
    BY <2>1, <2>3, <2>4 DEF Reason
<1>. QED
  BY <1>1, <1>2, <1>3, <1>4, <1>5, <1>6, <1>7 DEF Next

\* As long as no more notices are retained than the inbox can hold, a retained notice of a
\* named agent is never left beside free capacity: the inbox is full, somebody delivers
\* it, or its delivery ended in a storage error.  With more of them the oldest go first
\* and the others wait for the next release.
THEOREM AgentNeverStranded == Spec /\ []RetainedFits => []AgentRetainedForAReason
<1>1. Init => \A k \in Job : Reason(k)
  BY DEF Init, Reason, Retained
<1>2. (\A k \in Job : Reason(k)) => AgentRetainedForAReason
  BY DEF Reason, AgentRetainedForAReason
<1>3. JobsInv /\ JobsInv' /\ RetainedFits /\ RetainedFits' /\ (\A k \in Job : Reason(k)) /\ [Next]_vars
        => (\A k \in Job : Reason(k))'
  BY ReasonStep
<1>. QED
  BY <1>1, <1>2, <1>3, JobsInvariant, PTL DEF Spec

=============================================================================
