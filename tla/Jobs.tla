-------------------------------- MODULE Jobs --------------------------------
(***************************************************************************)
(* The background-job registry and the durable delivery of what its jobs   *)
(* have to say.  A job's worker waits for a permit, runs, settles its row  *)
(* and puts a notice into the owner's bounded inbox.  A notice that finds  *)
(* the inbox full is retained in an outbox beside the rows, and every      *)
(* release of inbox capacity tries the outbox again.                       *)
(*                                                                         *)
(* The registry lock, the session lock and the two files (the history of   *)
(* jobs and the session log) are taken one after the other, never          *)
(* together, so a settlement is several steps that interleave with other   *)
(* workers, with two releasers of capacity, with cancellation, with a turn *)
(* that replenishes the wake budget, and with the end of the process.      *)
(***************************************************************************)
EXTENDS Integers, Sequences, FiniteSets

CONSTANTS
    MaxAdmissions,   \* JobLimits::max_admissions; bounds next_id
    MaxRunning, MaxQueued, MaxHistory,  \* the other JobLimits
    WakeCapacity,    \* wakes a turn pays for; 0 means unlimited
    MaxPending,      \* MAX_PENDING_INBOX_MESSAGES
    Kinds,           \* which kinds of job are spawned, a subset of Kind
    Wakes,           \* whether plain and agent jobs ask for a wake, a subset of BOOLEAN
    Retries,         \* storage retries of an agent settlement (3 in the code)
    Releaser,        \* threads that may release inbox capacity at the same time
    Host,            \* what else the host does: a subset of {"input", "pause", "dispose", "monitor"}
    TurnBudget, CancelBudget, FaultBudget, RestartBudget

\* plain: a tool or team job, settled by settle_job.  foreground: the result
\* also returns through the tool, settled by settle_foreground_job.  agent: a
\* named agent's run, settled through the outbox.  driver: the root inbox
\* driver, settled by settle_silent.
Kind == {"plain", "foreground", "agent", "driver"}

ASSUME JobLimitAssumption ==
    /\ MaxAdmissions \in Nat /\ MaxRunning \in Nat \ {0} /\ MaxQueued \in Nat
    /\ MaxHistory \in Nat \ {0} /\ WakeCapacity \in Nat /\ MaxPending \in Nat
    /\ Kinds \subseteq Kind /\ Wakes \subseteq BOOLEAN /\ Host \subseteq {"input", "pause", "dispose", "monitor"}
ASSUME JobBoundAssumption ==
    /\ Retries \in Nat /\ TurnBudget \in Nat
    /\ CancelBudget \in Nat /\ FaultBudget \in Nat /\ RestartBudget \in Nat

Job == 1..MaxAdmissions
Outcome == {"completed", "failed", "cancelled", "interrupted"}
Unsettled == {"queued", "running", "cancelling"}

VARIABLES
    row,        \* the registry's rows; state "absent" is no row
    nextId,     \* next_id
    outbox,     \* completions: NoNotice, or what is still to be delivered
    tokens,     \* wake_remaining
    paused,     \* workspace_paused
    closed,     \* shutdown is cancelled
    task,       \* each job's worker, with the settlement it carries out
    disk,       \* the history file
    waiting,    \* how many messages the inbox holds
    notices,    \* job notices the session log has ever inserted, per job
    announced,  \* jobs whose waking notice was published
    woken,      \* waking notices and monitor events that paid with a token
    turns,      \* how often a turn settled and replenished the budget
    releaser,   \* what each releaser of capacity is recovering
    stuck,      \* jobs whose delivery ended in a storage error
    spent       \* what the bounds have used up

vars == <<row, nextId, outbox, tokens, paused, closed, task, disk, waiting, notices, announced, woken, turns,
          releaser, stuck, spent>>

NoNotice == [outcome |-> "none", wakes |-> FALSE]
Notice == [outcome : Outcome, wakes : BOOLEAN]
NoRow == [kind |-> "plain", wakes |-> FALSE, state |-> "absent", settling |-> FALSE, cancelled |-> FALSE]
Gone(r) == [r EXCEPT !.state = "absent", !.settling = FALSE]
NoTask == [pc |-> "none", handle |-> "none", permit |-> FALSE, outcome |-> "none",
           wakes |-> FALSE, token |-> FALSE, tries |-> 0]
NothingUsed == [cancels |-> 0, faults |-> 0, restarts |-> 0]

\* queued: waiting for a permit.  running: the body.  settle: the body has its
\* result.  reserved, refused, enqueued, persisting: settle_job between its
\* locks.  deliver, admit, cleanup: deliver_agent_completion between its locks.
\* returned: the body is over.
Pc == {"none", "queued", "running", "settle", "reserved", "refused", "enqueued", "persisting",
       "deliver", "admit", "cleanup", "returned", "exited"}

State == {"absent"} \union Unsettled \union Outcome
Row == [kind : Kind, wakes : BOOLEAN, state : State, settling : BOOLEAN, cancelled : BOOLEAN]
Worker == [pc : Pc, handle : {"none", "attached", "late"}, permit : BOOLEAN, outcome : Outcome \union {"none"},
           wakes : BOOLEAN, token : BOOLEAN, tries : Nat]
HistoryFile == [state : [Job -> State], outbox : [Job -> Notice \union {NoNotice}], next : 1..(MaxAdmissions + 1)]
Pass == [pc : {"idle", "persist", "admit", "cleanup"}, todo : SUBSET Job]

JobTypeOK ==
    /\ row \in [Job -> Row]
    /\ nextId \in 1..(MaxAdmissions + 1)
    /\ outbox \in [Job -> Notice \union {NoNotice}]
    /\ tokens \in 0..WakeCapacity
    /\ paused \in BOOLEAN /\ closed \in BOOLEAN
    /\ task \in [Job -> Worker]
    /\ disk \in HistoryFile
    /\ waiting \in 0..MaxPending
    /\ notices \in [Job -> Seq(Notice)]
    /\ announced \subseteq Job /\ stuck \subseteq Job
    /\ woken \in Nat /\ turns \in Nat
    /\ releaser \in [Releaser -> Pass]
    /\ spent \in [cancels : Nat, faults : Nat, restarts : Nat]

-----------------------------------------------------------------------------
(* The registry                                                            *)

Coordinator(j) == row[j].kind \in {"agent", "driver"}
Live(j) == row[j].state \in Unsettled
Settled(j) == row[j].state \in Outcome
Retained(j) == outbox[j] # NoNotice
TaskOver(j) == task[j].pc \in {"none", "exited"}

\* What persist_locked writes for rows r and outbox b.
History(r, b, n) == [state |-> [j \in Job |-> r[j].state], outbox |-> b, next |-> n]

\* persist: the file is replaced by a synced rename.  A failure leaves the old
\* file or the new one, and the caller learns only that it failed.
PersistOk(r, b, n) == disk' = History(r, b, n) /\ UNCHANGED spent
PersistFails(r, b, n) ==
    /\ spent.faults < FaultBudget
    /\ spent' = [spent EXCEPT !.faults = @ + 1]
    /\ disk' \in {disk, History(r, b, n)}
\* let _ = self.persist()
PersistIgnored(r, b, n) == PersistOk(r, b, n) \/ PersistFails(r, b, n)

StorageFault == spent.faults < FaultBudget /\ spent' = [spent EXCEPT !.faults = @ + 1]

\* prune_locked: of the settled rows whose notice is delivered and whose handle
\* is finished or not stored yet, the oldest beyond max_history go.  Ids are
\* admission order.
Prunable(r, b, over) == {j \in Job : r[j].state \in Outcome /\ b[j] = NoNotice /\ over[j]}
Pruned(r, b, over) ==
    LET gone == {j \in Prunable(r, b, over) :
                    Cardinality({k \in Prunable(r, b, over) : k > j}) >= MaxHistory}
    IN [j \in Job |-> IF j \in gone THEN Gone(r[j]) ELSE r[j]]

\* spawn_class: a row, a history entry and a worker, or a refusal.
Spawn(k, w) ==
    /\ ~closed /\ ~paused /\ nextId <= MaxAdmissions
    /\ k \in {"agent", "driver"} \/
       Cardinality({j \in Job : Live(j) /\ ~Coordinator(j)}) < MaxRunning + MaxQueued
    /\ LET kept == Pruned(row, outbox, [j \in Job |-> task[j].handle = "none" \/ TaskOver(j)])
           added == [kept EXCEPT ![nextId] = [NoRow EXCEPT !.kind = k, !.wakes = w, !.state = "queued"]]
       IN \/ /\ PersistOk(added, outbox, nextId + 1)
             /\ row' = added
             /\ task' = [task EXCEPT ![nextId].pc = "queued"]
          \/ /\ PersistFails(added, outbox, nextId + 1)
             /\ row' = kept
             /\ UNCHANGED task
    /\ nextId' = nextId + 1
    /\ UNCHANGED <<outbox, tokens, paused, closed, waiting, notices, announced, woken, turns, releaser, stuck>>

\* JoinHandle::abort ends a task where it waits, not inside synchronous code.
Aborted(t) == IF t.pc \in {"queued", "running"} THEN NoTask ELSE [t EXCEPT !.handle = "attached"]

\* The spawner stores the worker's handle in the row after the worker has
\* started; a worker whose row is gone by then is aborted where it waits.
Attach(j) ==
    /\ task[j].pc # "none" /\ task[j].handle = "none"
    /\ \/ /\ row[j].state # "absent"
          /\ task' = [task EXCEPT ![j].handle = IF paused THEN "late" ELSE "attached"]
       \/ /\ row[j].state = "absent"
          /\ task' = [task EXCEPT ![j] = Aborted(task[j])]
    /\ UNCHANGED <<row, nextId, outbox, tokens, paused, closed, disk, waiting, notices, announced, woken, turns,
                   releaser, stuck, spent>>

Permits == Cardinality({j \in Job : task[j].permit})

\* Mutant: the wait for a permit does not watch the token.
StartPermitOnly(j) ==
    /\ task[j].pc = "queued"
    /\ Coordinator(j) \/ Permits < MaxRunning
    /\ task' = [task EXCEPT ![j].pc = "running", ![j].permit = ~Coordinator(j)]
    /\ row' = IF row[j].state = "queued" THEN [row EXCEPT ![j].state = "running"] ELSE row
    /\ PersistIgnored(row', outbox, nextId)
    /\ UNCHANGED <<nextId, outbox, tokens, paused, closed, waiting, notices, announced, woken, turns,
                   releaser, stuck>>

\* The worker leaves the permit queue: with a permit, or without one when it
\* is a coordinator or its token is cancelled.
Start(j) ==
    LET needs == ~Coordinator(j) /\ ~row[j].cancelled
        ran == IF row[j].state = "queued" THEN [row EXCEPT ![j].state = "running"] ELSE row
    IN /\ task[j].pc = "queued"
       /\ needs => Permits < MaxRunning
       /\ task' = [task EXCEPT ![j].pc = "running", ![j].permit = needs]
       /\ row' = ran
       /\ PersistIgnored(ran, outbox, nextId)
       /\ UNCHANGED <<nextId, outbox, tokens, paused, closed, waiting, notices, announced, woken, turns,
                      releaser, stuck>>

\* The body has a result to settle, or ends without one (a panic, an invalid
\* notice, a recipient that is gone).
BodyEnds(j) ==
    /\ task[j].pc = "running"
    /\ \/ \E o \in {"completed"} \union (IF row[j].cancelled THEN {"cancelled"} ELSE {}) :
            task' = [task EXCEPT ![j].pc = "settle", ![j].outcome = o]
       \/ task' = [task EXCEPT ![j].pc = "returned"]
    /\ UNCHANGED <<row, nextId, outbox, tokens, paused, closed, disk, waiting, notices, announced, woken, turns,
                   releaser, stuck, spent>>

\* What the finalizer leaves: a row its body did not settle becomes failed.
FinalRows(j) == IF Live(j) THEN [row EXCEPT ![j].state = "failed"] ELSE row

\* The end of the worker drops its permit and finalizes its row.
Finalize(j) ==
    LET final == FinalRows(j)
    IN /\ task[j].pc = "returned"
       /\ task' = [task EXCEPT ![j].pc = "exited", ![j].permit = FALSE]
       /\ row' = final
       /\ PersistIgnored(final, outbox, nextId)
       /\ UNCHANGED <<nextId, outbox, tokens, paused, closed, waiting, notices, announced, woken, turns,
                      releaser, stuck>>

\* cancel, and each step of cancel_all; the failure of its persist is ignored.
Cancel(j) ==
    /\ Live(j) /\ spent.cancels < CancelBudget
    /\ row' = [row EXCEPT ![j].cancelled = TRUE, ![j].state = "cancelling"]
    /\ \/ /\ disk' = History(row', outbox, nextId)
          /\ spent' = [spent EXCEPT !.cancels = @ + 1]
       \/ /\ spent.faults < FaultBudget
          /\ disk' \in {disk, History(row', outbox, nextId)}
          /\ spent' = [spent EXCEPT !.cancels = @ + 1, !.faults = @ + 1]
    /\ UNCHANGED <<nextId, outbox, tokens, paused, closed, task, waiting, notices, announced, woken, turns,
                   releaser, stuck>>

\* set_delivery on a foreground job the user moves to the background.
Promote(j) ==
    /\ row[j].kind = "foreground" /\ Live(j) /\ ~row[j].settling /\ ~row[j].wakes
    /\ row' = [row EXCEPT ![j].wakes = TRUE]
    /\ PersistOk(row', outbox, nextId)
    /\ UNCHANGED <<nextId, outbox, tokens, paused, closed, task, waiting, notices, announced, woken, turns,
                   releaser, stuck>>

\* No handle in the row, or a finished one.
HandleFinished(j) == row[j].state = "absent" \/ task[j].handle = "none" \/ TaskOver(j)

\* pause_workspace, and the drop of the pause it returns.
Pause ==
    /\ "pause" \in Host /\ ~paused
    /\ \A j \in Job : ~Live(j) /\ ~row[j].settling /\ HandleFinished(j)
    /\ paused' = TRUE
    /\ UNCHANGED <<row, nextId, outbox, tokens, closed, task, disk, waiting, notices, announced, woken, turns,
                   releaser, stuck, spent>>
Unpause ==
    /\ paused
    /\ paused' = FALSE
    /\ UNCHANGED <<row, nextId, outbox, tokens, closed, task, disk, waiting, notices, announced, woken, turns,
                   releaser, stuck, spent>>

-----------------------------------------------------------------------------
(* The wake budget                                                         *)

\* reserve_settlement: what a settlement of j may deliver and what it costs.
MayReserve(j) == Live(j) /\ ~row[j].settling
WakesAfter(j) == row[j].wakes /\ (WakeCapacity = 0 \/ tokens > 0)
TakesToken(j) == row[j].wakes /\ WakeCapacity > 0 /\ tokens > 0
Charged(j) == IF TakesToken(j) THEN tokens - 1 ELSE tokens

\* Mutant: a rollback gives back a token it never took.
RefundAlways(j) == IF tokens < WakeCapacity THEN tokens + 1 ELSE tokens

\* Mutant: the refund may exceed the capacity.
RefundUncapped(j) == IF task[j].token THEN tokens + 1 ELSE tokens

\* rollback_settlement: only a token that was taken, and never above capacity.
Refunded(j) == IF task[j].token /\ tokens < WakeCapacity THEN tokens + 1 ELSE tokens

\* replenish_wakes, when a turn settles.
TurnSettles ==
    /\ turns < TurnBudget
    /\ turns' = turns + 1
    /\ tokens' = WakeCapacity
    /\ UNCHANGED <<row, nextId, outbox, paused, closed, task, disk, waiting, notices, announced, woken,
                   releaser, stuck, spent>>

\* A monitor spends from the same budget: reserve_event_wake, then submit_inbox.
MonitorEvent ==
    /\ "monitor" \in Host /\ tokens > 0
    /\ tokens' = tokens - 1
    /\ woken' = woken + 1
    /\ waiting' = IF waiting < MaxPending THEN waiting + 1 ELSE waiting
    /\ UNCHANGED <<row, nextId, outbox, paused, closed, task, disk, notices, announced, turns, releaser, stuck,
                   spent>>

-----------------------------------------------------------------------------
(* settle_job and settle_foreground_job                                    *)

Inserted(j, n) == [notices EXCEPT ![j] = Append(@, n)]
Room == waiting < MaxPending
TaskNotice(j) == [outcome |-> task[j].outcome, wakes |-> task[j].wakes]

\* A foreground job nobody promoted only commits its row.
CommitsOnly(j) == row[j].kind = "foreground" /\ ~row[j].wakes

\* reserve_settlement.
Reserve(j) ==
    /\ task[j].pc = "settle" /\ row[j].kind \in {"plain", "foreground"}
    /\ \/ /\ MayReserve(j)
          /\ row' = [row EXCEPT ![j].settling = TRUE]
          /\ tokens' = Charged(j)
          /\ task' = [task EXCEPT ![j].wakes = WakesAfter(j), ![j].token = TakesToken(j),
                        ![j].pc = IF CommitsOnly(j) THEN "enqueued" ELSE "reserved"]
       \/ /\ ~MayReserve(j)
          /\ task' = [task EXCEPT ![j].pc = "returned"]
          /\ UNCHANGED <<row, tokens>>
    /\ UNCHANGED <<nextId, outbox, paused, closed, disk, waiting, notices, announced, woken, turns,
                   releaser, stuck, spent>>

\* The settlement is withdrawn: the row is left to the finalizer.
Rollback(j) ==
    /\ IF Live(j) /\ row[j].settling
       THEN row' = [row EXCEPT ![j].settling = FALSE] /\ tokens' = Refunded(j)
       ELSE UNCHANGED <<row, tokens>>
    /\ task' = [task EXCEPT ![j].pc = "returned", ![j].token = FALSE]

\* enqueue_inbox_with_source: admitted, refused for capacity, or failed.
Enqueue(j) ==
    /\ task[j].pc = "reserved"
    /\ \/ /\ Room
          /\ notices' = Inserted(j, TaskNotice(j))
          /\ waiting' = waiting + 1
          /\ task' = [task EXCEPT ![j].pc = "enqueued"]
          /\ UNCHANGED <<row, tokens, spent>>
       \/ /\ ~Room
          /\ task' = [task EXCEPT ![j].pc = "refused"]
          /\ UNCHANGED <<row, tokens, waiting, notices, spent>>
       \/ /\ StorageFault
          /\ Rollback(j)
          /\ UNCHANGED <<waiting, notices>>
    /\ UNCHANGED <<nextId, outbox, paused, closed, disk, announced, woken, turns, releaser, stuck>>

\* retain_completion after the inbox refused a plain notice.
RetainRefused(j) ==
    LET kept == [row EXCEPT ![j].state = task[j].outcome, ![j].settling = FALSE]
        held == [outbox EXCEPT ![j] = TaskNotice(j)]
    IN /\ task[j].pc = "refused"
       /\ \/ /\ row[j].state # "absent"
             /\ row' = kept /\ outbox' = held
             /\ PersistIgnored(kept, held, nextId)
             /\ woken' = IF task[j].token THEN woken + 1 ELSE woken
          \/ /\ row[j].state = "absent"
             /\ UNCHANGED <<row, outbox, disk, woken, spent>>
       /\ task' = [task EXCEPT ![j].pc = "returned", ![j].token = FALSE]
       /\ UNCHANGED <<nextId, tokens, paused, closed, waiting, notices, announced, turns, releaser, stuck>>

\* The flush after the append fails.
FlushFails(j) ==
    /\ task[j].pc = "enqueued" /\ notices[j] # << >>
    /\ StorageFault
    /\ Rollback(j)
    /\ UNCHANGED <<nextId, outbox, paused, closed, disk, waiting, notices, announced, woken, turns, releaser, stuck>>

\* commit_settlement under the registry lock.
Commit(j) ==
    /\ task[j].pc = "enqueued"
    /\ \/ /\ Live(j) /\ row[j].settling
          /\ row' = [row EXCEPT ![j].state = task[j].outcome, ![j].settling = FALSE]
          /\ task' = [task EXCEPT ![j].pc = "persisting", ![j].token = FALSE]
          /\ woken' = IF task[j].token THEN woken + 1 ELSE woken
       \/ /\ ~(Live(j) /\ row[j].settling)
          /\ task' = [task EXCEPT ![j].pc = "returned", ![j].token = FALSE]
          /\ UNCHANGED <<row, woken>>
    /\ UNCHANGED <<nextId, outbox, tokens, paused, closed, disk, waiting, notices, announced, turns,
                   releaser, stuck, spent>>

\* commit_settlement after it: a failed persist returns before the publication.
PersistCommit(j) ==
    /\ task[j].pc = "persisting"
    /\ \/ /\ PersistOk(row, outbox, nextId)
          /\ announced' = IF notices[j] # << >> THEN announced \union {j} ELSE announced
       \/ /\ PersistFails(row, outbox, nextId)
          /\ UNCHANGED announced
    /\ task' = [task EXCEPT ![j].pc = "returned"]
    /\ UNCHANGED <<row, nextId, outbox, tokens, paused, closed, waiting, notices, woken, turns, releaser, stuck>>

\* settle_silent: set_delivery(Inject), reserve and commit, without a notice.
SettleSilent(j) ==
    LET done == [row EXCEPT ![j].wakes = FALSE, ![j].state = task[j].outcome]
    IN /\ task[j].pc = "settle" /\ row[j].kind = "driver"
       /\ \/ /\ MayReserve(j)
             /\ row' = done
             /\ PersistOk(done, outbox, nextId)
          \/ /\ MayReserve(j)
             /\ PersistFails([row EXCEPT ![j].wakes = FALSE], outbox, nextId)
             /\ UNCHANGED row
          \/ /\ ~MayReserve(j)
             /\ UNCHANGED <<row, disk, spent>>
       /\ task' = [task EXCEPT ![j].pc = "returned"]
       /\ UNCHANGED <<nextId, outbox, tokens, paused, closed, waiting, notices, announced, woken, turns,
                      releaser, stuck>>

-----------------------------------------------------------------------------
(* settle_agent_job and the outbox                                         *)

\* Mutant: the log is not searched for the occurrence before it is inserted.
AdmitAgain(j, n) ==
    \/ Room /\ notices' = Inserted(j, n) /\ waiting' = waiting + 1
    \/ notices[j] # << >> /\ UNCHANGED <<waiting, notices>>

\* Mutant: a full inbox is taken for an admission.
AdmitUnchecked(j, n) ==
    IF notices[j] = << >> /\ Room
    THEN notices' = Inserted(j, n) /\ waiting' = waiting + 1
    ELSE UNCHANGED <<waiting, notices>>

\* enqueue_identified_inbox: an occurrence the log has ever inserted is not
\* inserted again, whether it is still queued, claimed or cancelled.
AdmitIdentified(j, n) ==
    \/ notices[j] # << >> /\ UNCHANGED <<waiting, notices>>
    \/ notices[j] = << >> /\ Room /\ notices' = Inserted(j, n) /\ waiting' = waiting + 1
NoRoomFor(j) == notices[j] = << >> /\ ~Room

\* An append or flush that fails: the occurrence may be in the log or not.
AdmitFails(j, n) ==
    /\ StorageFault
    /\ AdmitIdentified(j, n) \/ UNCHANGED <<waiting, notices>>

\* settle_agent_job_with_retry: a storage error is retried unless the job was
\* cancelled; everything that is retained stays retained.
Retry(j) ==
    IF task[j].tries < Retries /\ ~row[j].cancelled
    THEN task' = [task EXCEPT ![j].pc = "settle", ![j].tries = @ + 1] /\ UNCHANGED stuck
    ELSE task' = [task EXCEPT ![j].pc = "returned"] /\ stuck' = stuck \union {j}

\* settle_agent_job: a settlement that is retained or logged already is
\* delivered again; a new one is reserved and retained before anything else.
SettleAgent(j) ==
    LET n == [outcome |-> task[j].outcome, wakes |-> WakesAfter(j)]
        kept == [row EXCEPT ![j].state = task[j].outcome]
        held == [outbox EXCEPT ![j] = n]
    IN /\ task[j].pc = "settle" /\ row[j].kind = "agent"
       /\ \/ /\ Retained(j)
             /\ task' = [task EXCEPT ![j].pc = "deliver"]
             /\ UNCHANGED <<row, outbox, tokens, woken, announced, disk, stuck, spent>>
          \/ /\ ~Retained(j) /\ notices[j] # << >>
             /\ task' = [task EXCEPT ![j].pc = "returned"]
             /\ announced' = announced \union {j}
             /\ UNCHANGED <<row, outbox, tokens, woken, disk, stuck, spent>>
          \/ /\ ~Retained(j) /\ notices[j] = << >> /\ ~MayReserve(j)
             /\ task' = [task EXCEPT ![j].pc = "returned"]
             /\ UNCHANGED <<row, outbox, tokens, woken, announced, disk, stuck, spent>>
          \/ /\ ~Retained(j) /\ notices[j] = << >> /\ MayReserve(j)
             /\ row' = kept /\ outbox' = held /\ tokens' = Charged(j)
             /\ woken' = IF TakesToken(j) THEN woken + 1 ELSE woken
             /\ \/ /\ PersistOk(kept, held, nextId)
                   /\ task' = [task EXCEPT ![j].pc = "deliver"]
                   /\ UNCHANGED stuck
                \/ /\ PersistFails(kept, held, nextId)
                   /\ Retry(j)
             /\ UNCHANGED announced
       /\ UNCHANGED <<nextId, paused, closed, waiting, notices, turns, releaser>>

\* deliver_agent_completion by the settler: the outbox is made durable first.
DeliverPersist(j) ==
    /\ task[j].pc = "deliver"
    /\ \/ /\ PersistOk(row, outbox, nextId)
          /\ task' = [task EXCEPT ![j].pc = "admit"]
          /\ UNCHANGED stuck
       \/ /\ PersistFails(row, outbox, nextId)
          /\ Retry(j)
    /\ UNCHANGED <<row, nextId, outbox, tokens, paused, closed, waiting, notices, announced, woken, turns, releaser>>

\* A full inbox is no storage error: the settler leaves the notice retained.
DeliverAdmit(j) ==
    LET n == [outcome |-> task[j].outcome, wakes |-> outbox[j].wakes]
    IN /\ task[j].pc = "admit"
       /\ \/ /\ AdmitIdentified(j, n)
             /\ task' = [task EXCEPT ![j].pc = "cleanup"]
             /\ UNCHANGED <<stuck, spent>>
          \/ /\ NoRoomFor(j)
             /\ task' = [task EXCEPT ![j].pc = "returned"]
             /\ UNCHANGED <<waiting, notices, stuck, spent>>
          \/ /\ AdmitFails(j, n)
             /\ Retry(j)
       /\ UNCHANGED <<row, nextId, outbox, tokens, paused, closed, disk, announced, woken, turns, releaser>>

\* The outbox entry goes once the notice is in the log, and comes back when
\* that could not be written; the wake is published either way.
Cleared(j) == [outbox EXCEPT ![j] = NoNotice]
DeliverCleanup(j) ==
    /\ task[j].pc = "cleanup"
    /\ announced' = announced \union {j}
    /\ \/ /\ PersistOk(row, Cleared(j), nextId)
          /\ outbox' = Cleared(j)
          /\ task' = [task EXCEPT ![j].pc = "returned"]
          /\ UNCHANGED stuck
       \/ /\ PersistFails(row, Cleared(j), nextId)
          /\ UNCHANGED outbox
          /\ Retry(j)
    /\ UNCHANGED <<row, nextId, tokens, paused, closed, waiting, notices, woken, turns, releaser>>

-----------------------------------------------------------------------------
(* Capacity releases and recovery                                          *)

\* Input that is not a job's: it only takes room.
OtherInput ==
    /\ "input" \in Host /\ Room
    /\ waiting' = waiting + 1
    /\ UNCHANGED <<row, nextId, outbox, tokens, paused, closed, task, disk, notices, announced, woken, turns,
                   releaser, stuck, spent>>

\* Mutant: a release of capacity takes up nothing.
RecoverNothing(b) == {}

\* What recover_agent_completions takes up: the oldest retained notices, at
\* most as many as the inbox can hold.
Recoverable(b) ==
    LET all == {j \in Job : b[j] # NoNotice}
    IN {j \in all : Cardinality({k \in all : k < j}) < MaxPending}
Recovering(todo) == [pc |-> IF todo = {} THEN "idle" ELSE "persist", todo |-> todo]
\* The notice a pass is at: the oldest it has not delivered.
Current(r, j) == j \in releaser[r].todo /\ \A k \in releaser[r].todo : j <= k

\* A claim, a cancellation or a recall frees capacity and then calls
\* reconcile_completion_capacity.
Release(r) ==
    /\ releaser[r].pc = "idle" /\ waiting > 0
    /\ waiting' \in {waiting - 1, 0}
    /\ releaser' = [releaser EXCEPT ![r] = Recovering(Recoverable(outbox))]
    /\ UNCHANGED <<row, nextId, outbox, tokens, paused, closed, task, disk, notices, announced, woken, turns,
                   stuck, spent>>

\* The steps of deliver_agent_completion by a releaser.  A refusal for
\* capacity or a storage error ends the pass.
RecoverPersist(r) ==
    /\ releaser[r].pc = "persist"
    /\ \/ /\ PersistOk(row, outbox, nextId)
          /\ releaser' = [releaser EXCEPT ![r].pc = "admit"]
          /\ UNCHANGED stuck
       \/ /\ PersistFails(row, outbox, nextId)
          /\ releaser' = [releaser EXCEPT ![r] = Recovering({})]
          /\ stuck' = stuck \union releaser[r].todo
    /\ UNCHANGED <<row, nextId, outbox, tokens, paused, closed, task, waiting, notices, announced, woken, turns>>

RecoverAdmit(r) ==
    /\ releaser[r].pc = "admit"
    /\ \E j \in Job :
       /\ Current(r, j)
       /\ \/ /\ AdmitIdentified(j, outbox[j])
             /\ releaser' = [releaser EXCEPT ![r].pc = "cleanup"]
             /\ UNCHANGED <<stuck, spent>>
          \/ /\ NoRoomFor(j)
             /\ releaser' = [releaser EXCEPT ![r] = Recovering({})]
             /\ UNCHANGED <<waiting, notices, stuck, spent>>
          \/ /\ AdmitFails(j, outbox[j])
             /\ releaser' = [releaser EXCEPT ![r] = Recovering({})]
             /\ stuck' = stuck \union releaser[r].todo
    /\ UNCHANGED <<row, nextId, outbox, tokens, paused, closed, task, disk, announced, woken, turns>>

RecoverCleanup(r) ==
    /\ releaser[r].pc = "cleanup"
    /\ \E j \in Job :
       /\ Current(r, j)
       /\ announced' = announced \union {j}
       /\ \/ /\ PersistOk(row, Cleared(j), nextId)
             /\ outbox' = Cleared(j)
             /\ releaser' = [releaser EXCEPT ![r] = Recovering(@.todo \ {j})]
             /\ UNCHANGED stuck
          \/ /\ PersistFails(row, Cleared(j), nextId)
             /\ UNCHANGED outbox
             /\ releaser' = [releaser EXCEPT ![r] = Recovering({})]
             /\ stuck' = stuck \union releaser[r].todo
    /\ UNCHANGED <<row, nextId, tokens, paused, closed, task, waiting, notices, woken, turns>>

-----------------------------------------------------------------------------
(* The end of a process and the next one                                   *)

\* dispose: rows go, workers are aborted where they wait.  A settlement is
\* synchronous, so one that has begun goes on against the emptied registry.
Dispose ==
    /\ "dispose" \in Host /\ ~closed
    /\ closed' = TRUE
    /\ row' = [j \in Job |-> [Gone(row[j]) EXCEPT !.cancelled = TRUE]]
    /\ task' = [j \in Job |-> IF task[j].handle = "none" THEN task[j] ELSE Aborted(task[j])]
    /\ UNCHANGED <<nextId, outbox, tokens, paused, disk, waiting, notices, announced, woken, turns,
                   releaser, stuck, spent>>

\* A crash, or the exit after dispose, and attach_history of the next process:
\* a row whose job was not settled is interrupted.  install_jobs then recovers.
Restart(first) ==
    LET read == [j \in Job |-> [Gone(row[j]) EXCEPT !.cancelled = FALSE,
                    !.state = IF disk.state[j] \in Unsettled THEN "interrupted" ELSE disk.state[j]]]
        kept == Pruned(read, disk.outbox, [j \in Job |-> TRUE])
    IN /\ spent.restarts < RestartBudget
       /\ row' = kept
       /\ outbox' = disk.outbox
       /\ nextId' = disk.next
       /\ disk' = History(kept, disk.outbox, disk.next)
       /\ tokens' = WakeCapacity
       /\ turns' = turns + 1
       /\ paused' = FALSE /\ closed' = FALSE
       /\ task' = [j \in Job |-> NoTask]
       /\ releaser' = [r \in Releaser |-> Recovering(IF r = first THEN Recoverable(disk.outbox) ELSE {})]
       /\ spent' = [spent EXCEPT !.restarts = @ + 1]
       /\ UNCHANGED <<waiting, notices, announced, woken, stuck>>

Init ==
    /\ row = [j \in Job |-> NoRow]
    /\ nextId = 1
    /\ outbox = [j \in Job |-> NoNotice]
    /\ tokens = WakeCapacity
    /\ paused = FALSE /\ closed = FALSE
    /\ task = [j \in Job |-> NoTask]
    /\ disk = History(row, outbox, 1)
    /\ waiting \in 0..MaxPending
    /\ notices = [j \in Job |-> << >>]
    /\ announced = {} /\ stuck = {}
    /\ woken = 0 /\ turns = 0
    /\ releaser = [r \in Releaser |-> Recovering({})]
    /\ spent = NothingUsed

\* What a worker does besides running its body.
Proceeds(j) ==
    \/ Attach(j) \/ Start(j) \/ Finalize(j)
    \/ Reserve(j) \/ Enqueue(j) \/ RetainRefused(j) \/ FlushFails(j) \/ Commit(j) \/ PersistCommit(j)
    \/ SettleSilent(j)
    \/ SettleAgent(j) \/ DeliverPersist(j) \/ DeliverAdmit(j) \/ DeliverCleanup(j)
WorkerStep(j) == Proceeds(j) \/ BodyEnds(j)
RecoverStep(r) == RecoverPersist(r) \/ RecoverAdmit(r) \/ RecoverCleanup(r)

Next ==
    \/ \E k \in Kinds \ {"foreground"}, w \in Wakes : Spawn(k, w)
    \/ "foreground" \in Kinds /\ Spawn("foreground", FALSE)
    \/ \E j \in Job : WorkerStep(j) \/ Cancel(j) \/ Promote(j)
    \/ \E r \in Releaser : Release(r) \/ RecoverStep(r)
    \/ \E r \in Releaser : Restart(r)
    \/ Pause \/ Unpause \/ TurnSettles \/ MonitorEvent \/ OtherInput \/ Dispose

\* tokio runs every spawned worker, and a releaser's pass is synchronous code
\* that runs to its end.  A body may go on for ever; one whose token is
\* cancelled returns.
Spec == /\ Init /\ [][Next]_vars
        /\ \A j \in Job : WF_vars(Proceeds(j)) /\ WF_vars(row[j].cancelled /\ BodyEnds(j))
        /\ \A r \in Releaser : WF_vars(RecoverStep(r))

-----------------------------------------------------------------------------
(* Properties                                                              *)

\* Each settled run reaches its owner at most once (the occurrence identity of
\* enqueue_identified_inbox), however often settlers, capacity releases,
\* storage retries and restarts deliver it.
NoticeOnce == \A j \in Job : Len(notices[j]) <= 1

Notifies(j) == row[j].kind \in {"plain", "agent"} \/ (row[j].kind = "foreground" /\ row[j].wakes)

\* A result is never dropped between the registry and the inbox: a row that
\* says completed, in memory or in the file the next process will read, has
\* its notice in the session log or still in the outbox beside that row.
ResultKept ==
    \A j \in Job : Notifies(j) =>
        /\ row[j].state = "completed" => notices[j] # << >> \/ Retained(j)
        /\ disk.state[j] = "completed" => notices[j] # << >> \/ disk.outbox[j] # NoNotice

\* A named agent's notice never contradicts its row: whatever process reads
\* the history, a logged completion finds its own outcome there, unless the
\* row was pruned or cleared (a plain job has no such guarantee: its notice is
\* logged before its row is written).
AgentNoticeBacked ==
    \A j \in Job : row[j].kind = "agent" /\ notices[j] # << >> =>
        /\ row[j].state \in {notices[j][1].outcome, "absent"}
        /\ disk.state[j] \in {notices[j][1].outcome, "absent"}

Holding == Cardinality({j \in Job : task[j].token})

\* Wake tokens are conserved: background work never wakes its owner more often
\* than the settled turns (and process starts) have paid for, even when
\* settlements roll back after a turn has replenished the budget.
WakeTokensConserved == tokens + Holding + woken <= WakeCapacity * (turns + 1)

Delivering(j) ==
    \/ task[j].pc \in {"settle", "deliver", "admit", "cleanup"}
    \/ \E r \in Releaser : j \in releaser[r].todo

\* A completed agent run is retained only for a reason: the inbox is full,
\* somebody is delivering it, or the storage failed.  It is never left behind
\* next to free capacity by a release that ran at the wrong moment.
AgentRetainedForAReason ==
    \A j \in Job : row[j].kind = "agent" /\ Retained(j) => ~Room \/ Delivering(j) \/ j \in stuck

\* The same of every job: "full_inbox_retains_generic_job_notice_until_human_
\* recall_frees_capacity" (jobs.rs:2033).
RetainedForAReason ==
    \A j \in Job : Retained(j) => ~Room \/ Delivering(j) \/ j \in stuck

Bodies == {j \in Job : task[j].pc = "running"}

\* A live job that no body is entitled to keep: it was cancelled, or its body has
\* ended, or it waits for a permit that no body holds.
DueToMove(j) ==
    /\ Live(j)
    /\ \/ row[j].cancelled
       \/ task[j].pc \notin {"queued", "running"}
       \/ task[j].pc = "queued" /\ Cardinality(Bodies) < MaxRunning

\* Nothing but a body that goes on keeps a job.  A job that was cancelled, in the
\* queue or in its body, and one whose body has ended settles or loses its row,
\* through full inboxes, storage errors and retries; and a queued one is started
\* unless as many bodies as there are permits still run.
StoppedJobSettles == \A j \in Job : DueToMove(j) ~> ~DueToMove(j)
=============================================================================
