-------------------------- MODULE AgentInboxProofs --------------------------
(***************************************************************************)
(* What holds of the inbox, its turns and its driver, for any messages,    *)
(* deliveries, capacity and bounds.                                        *)
(***************************************************************************)
EXTENDS AgentInbox, TLAPS, FiniteSetTheorems, WellFoundedInduction

-----------------------------------------------------------------------------
(* Queues                                                                  *)

\* A set of naturals has a least element.
LEMMA Least ==
    ASSUME NEW T \in SUBSET Nat, NEW x \in T
    PROVE  \E n \in T : \A m \in T : n <= m
<1>. DEFINE R == {p \in Nat \X Nat : p[1] < p[2]}
<1>1. IsWellFoundedOn(R, Nat)
  BY NatLessThanWellFounded DEF OpToRel
<1>2. \A m, n : <<m, n>> \in R <=> m \in Nat /\ n \in Nat /\ m < n
  OBVIOUS
<1>. HIDE DEF R
<1>3. PICK n \in T : \A m \in T : ~(<<m, n>> \in R)
  BY <1>1, WFMin
<1>4. \A m \in T : n <= m
  <2>. TAKE m \in T
  <2>1. m \in Nat /\ n \in Nat
    OBVIOUS
  <2>2. ~(m < n)
    BY <1>2, <1>3, <2>1
  <2>. QED
    BY <2>1, <2>2
<1>. QED
  BY <1>4

\* The k-th element of a finite set of positions.
LEMMA RankHit ==
    ASSUME NEW n \in Nat, NEW K \in SUBSET (1..n), NEW j \in 1..Cardinality(K)
    PROVE  \E i \in K : Rank(K, i) = j
<1>. DEFINE Low(i) == {k \in K : k <= i}
<1>0. \A k \in K : k \in Nat /\ 1 <= k /\ k <= n
  OBVIOUS
<1>1. IsFiniteSet(K) /\ Cardinality(K) \in Nat
  <2>1. IsFiniteSet(1..n)
    BY FS_Interval
  <2>. QED
    BY <2>1, FS_Subset, FS_CardinalityType
<1>2. \A i \in Nat : IsFiniteSet(Low(i)) /\ Rank(K, i) \in Nat /\ Rank(K, i) = Cardinality(Low(i))
  <2>. TAKE i \in Nat
  <2>1. Low(i) \in SUBSET K
    OBVIOUS
  <2>2. Rank(K, i) = Cardinality(Low(i))
    BY DEF Rank
  <2>. QED
    BY <1>1, <2>1, <2>2, FS_Subset, FS_CardinalityType
<1>3. Rank(K, n) = Cardinality(K) /\ Rank(K, 0) = 0
  <2>1. Low(n) = K
    BY <1>0
  <2>2. Low(0) = {}
    <3>1. \A k \in K : ~(k <= 0)
      BY <1>0
    <3>. QED
      BY <3>1
  <2>. QED
    BY <1>2, <2>1, <2>2, FS_EmptySet
<1>4. ASSUME NEW i \in Nat, i # 0
      PROVE  Rank(K, i) = IF i \in K THEN Rank(K, i - 1) + 1 ELSE Rank(K, i - 1)
  <2>1. i - 1 \in Nat /\ i \notin Low(i - 1)
    BY <1>4
  <2>2. \A k \in K : k <= i <=> k <= i - 1 \/ k = i
    BY <1>0, <1>4
  <2>3. CASE i \in K
    <3>1. Low(i) = Low(i - 1) \union {i}
      BY <2>2, <2>3
    <3>2. Cardinality(Low(i - 1) \union {i}) = Cardinality(Low(i - 1)) + 1
      BY <1>2, <2>1, FS_AddElement
    <3>. QED
      BY <1>2, <2>1, <2>3, <3>1, <3>2
  <2>4. CASE i \notin K
    <3>1. Low(i) = Low(i - 1)
      BY <2>2, <2>4
    <3>. QED
      BY <1>2, <2>1, <2>4, <3>1
  <2>. QED
    BY <2>3, <2>4
<1>. HIDE DEF Low
<1>5. j \in Nat /\ 1 <= j /\ j <= Cardinality(K)
  BY <1>1
<1>. DEFINE T == {i \in Nat : Rank(K, i) >= j}
<1>6. T \in SUBSET Nat /\ n \in T
  BY <1>1, <1>3, <1>5
<1>7. PICK i \in T : \A m \in T : i <= m
  BY <1>6, Least
<1>8. i \in Nat /\ i # 0 /\ Rank(K, i) >= j
  BY <1>3, <1>5, <1>7
<1>9. i - 1 \in Nat /\ ~(Rank(K, i - 1) >= j)
  <2>1. i - 1 \in Nat /\ ~(i <= i - 1)
    BY <1>8
  <2>. QED
    BY <1>7, <2>1
<1>10. i \in K /\ Rank(K, i) = j
  <2>1. Rank(K, i) \in Nat /\ Rank(K, i - 1) \in Nat
    BY <1>2, <1>8, <1>9
  <2>2. Rank(K, i) = IF i \in K THEN Rank(K, i - 1) + 1 ELSE Rank(K, i - 1)
    BY <1>4, <1>8
  <2>. QED
    BY <1>5, <1>8, <1>9, <2>1, <2>2
<1>. QED
  BY <1>10

\* No two elements have the same rank.
LEMMA RankInjective ==
    ASSUME NEW n \in Nat, NEW K \in SUBSET (1..n), NEW i \in K, NEW k \in K, Rank(K, i) = Rank(K, k)
    PROVE  i = k
<1>. DEFINE Low(x) == {y \in K : y <= x}
<1>1. \A x \in K : x \in Nat
  OBVIOUS
<1>2. \A x \in K : IsFiniteSet(Low(x)) /\ Cardinality(Low(x)) \in Nat /\ Rank(K, x) = Cardinality(Low(x))
  <2>. TAKE x \in K
  <2>1. IsFiniteSet(1..n)
    BY FS_Interval
  <2>2. Low(x) \in SUBSET (1..n)
    OBVIOUS
  <2>. QED
    BY <2>1, <2>2, FS_Subset, FS_CardinalityType DEF Rank
<1>3. ASSUME NEW x \in K, NEW y \in K, x < y
      PROVE  Cardinality(Low(x)) < Cardinality(Low(y))
  <2>0. x \in Nat /\ y \in Nat /\ y <= y /\ ~(y <= x) /\ \A z \in K : z <= x => z <= y
    BY <1>1, <1>3
  <2>1. y \notin Low(x) /\ Low(x) \union {y} \subseteq Low(y)
    BY <2>0
  <2>2. IsFiniteSet(Low(x)) /\ IsFiniteSet(Low(y)) /\ Cardinality(Low(x)) \in Nat /\ Cardinality(Low(y)) \in Nat
    BY <1>2
  <2>. HIDE DEF Low
  <2>3. IsFiniteSet(Low(x) \union {y}) /\ Cardinality(Low(x) \union {y}) = Cardinality(Low(x)) + 1
    BY <2>1, <2>2, FS_AddElement
  <2>4. Cardinality(Low(x) \union {y}) <= Cardinality(Low(y))
    BY <2>1, <2>2, FS_Subset
  <2>. QED
    BY <2>2, <2>3, <2>4
<1>. HIDE DEF Low
<1>. QED
  BY <1>1, <1>2, <1>3

\* A queue without some occurrences is a queue of exactly the others.
LEMMA WithoutType ==
    ASSUME NEW q \in Seq(Message), NEW S
    PROVE  /\ Without(q, S) \in Seq(Message)
           /\ Elems(Without(q, S)) = Elems(q) \ S
<1>. DEFINE K == Kept(q, S)
            c == Cardinality(K)
            r == Without(q, S)
<1>1. Len(q) \in Nat /\ K \in SUBSET (1..Len(q))
  BY DEF Kept
<1>2. IsFiniteSet(K) /\ c \in Nat
  <2>1. IsFiniteSet(1..Len(q))
    BY <1>1, FS_Interval
  <2>. QED
    BY <1>1, <2>1, FS_Subset, FS_CardinalityType
<1>3. r = [j \in 1..c |-> q[CHOOSE i \in K : Rank(K, i) = j]]
  BY DEF Without
<1>4. \A j \in 1..c : r[j] \in Elems(q) \ S /\ r[j] \in Message
  <2>. TAKE j \in 1..c
  <2>. DEFINE i == CHOOSE i \in K : Rank(K, i) = j
  <2>1. i \in K
    BY <1>1, RankHit
  <2>2. r[j] = q[i]
    BY <1>3
  <2>. HIDE DEF i
  <2>. QED
    BY <2>1, <2>2 DEF Kept, Elems
<1>5. r \in Seq(Message) /\ Len(r) = c
  <2>. HIDE DEF c, K
  <2>1. r \in [1..c -> Message]
    BY <1>3, <1>4
  <2>. HIDE DEF r
  <2>. QED
    BY <1>2, <2>1
<1>6. ASSUME NEW i \in K
      PROVE  \E j \in 1..c : r[j] = q[i]
  <2>. DEFINE j == Rank(K, i)
              x == CHOOSE y \in K : Rank(K, y) = j
  <2>1. j \in 1..c
    <3>. DEFINE L == {y \in K : y <= i}
    <3>1. L \in SUBSET K /\ {i} \in SUBSET L
      BY <1>1
    <3>2. j = Cardinality(L)
      BY DEF Rank
    <3>. HIDE DEF L, j, K
    <3>3. IsFiniteSet(L) /\ Cardinality(L) \in Nat /\ Cardinality(L) <= Cardinality(K)
      BY <1>2, <3>1, FS_Subset, FS_CardinalityType
    <3>4. Cardinality({i}) <= Cardinality(L) /\ Cardinality({i}) = 1
      BY <3>1, <3>3, FS_Subset, FS_Singleton
    <3>. QED
      BY <1>2, <3>2, <3>3, <3>4
  <2>2. x \in K /\ Rank(K, x) = Rank(K, i)
    OBVIOUS
  <2>3. r[j] = q[x]
    BY <1>3, <2>1
  <2>. HIDE DEF x, j, r, K, c
  <2>4. x = i
    BY <1>1, <1>6, <2>2, RankInjective
  <2>. QED
    BY <2>1, <2>3, <2>4
<1>7. Elems(q) \ S = {q[i] : i \in K}
  BY DEF Elems, Kept
<1>8. Elems(r) = {r[j] : j \in 1..c}
  BY <1>5 DEF Elems
<1>. HIDE DEF r, K, c
<1>9. Elems(r) = Elems(q) \ S
  BY <1>4, <1>6, <1>7, <1>8
<1>. QED
  BY <1>5, <1>9 DEF r

\* A queue with one occurrence more.
LEMMA AppendElems ==
    ASSUME NEW q \in Seq(Message), NEW m \in Message
    PROVE  Append(q, m) \in Seq(Message) /\ Elems(Append(q, m)) = Elems(q) \union {m}
<1>1. Append(q, m) \in Seq(Message) /\ Len(Append(q, m)) = Len(q) + 1
  OBVIOUS
<1>2. \A i \in 1..Len(q) : Append(q, m)[i] = q[i]
  OBVIOUS
<1>3. Append(q, m)[Len(q) + 1] = m
  OBVIOUS
<1>4. Len(q) \in Nat /\ 1..(Len(q) + 1) = 1..Len(q) \union {Len(q) + 1}
  OBVIOUS
<1>. QED
  BY <1>1, <1>2, <1>3, <1>4 DEF Elems

-----------------------------------------------------------------------------
(* The inductive invariant                                                 *)

\* Every occurrence goes one way: it is submitted, inserted once, and then pending,
\* admitted or cancelled, one of the three at a time.
MessageInv(m) ==
    /\ sub[m] \in {"new", "sawBusy", "sawIdle"} => m \notin inserted
    /\ m \in Pending \/ claimed[m] # 0 \/ m \in canceled <=> m \in inserted
    /\ claimed[m] <= 1
    /\ m \in Pending => claimed[m] = 0 /\ m \notin canceled
    /\ claimed[m] = 1 => m \notin canceled

\* The gate has an owner who is inside a turn, and the barrier is held exactly as long
\* as a foreground prompt is on its way.
OwnerInv ==
    /\ deferred = IF Foreground /\ user # "idle" THEN 1 ELSE 0
    /\ user = "joining" => Foreground
    /\ turn.phase = "idle" => turn.gate = "none"
    /\ turn.phase # "idle" => \/ turn.gate = "user" /\ user = "turn"
                              \/ turn.gate = "driver" /\ driver.pc = "turn"

\* What is open in the log at each phase of a turn, and what an aborted turn leaves.
PhaseInv ==
    /\ turn.step => turn.phase \in {"draining", "request"}
    /\ turn.open => turn.phase \in {"boundary", "draining", "request", "redraining"}
    /\ turn.result = "aborted" => paused

InboxInv == TypeOK /\ (\A m \in Message : MessageInv(m)) /\ OwnerInv /\ PhaseInv

-----------------------------------------------------------------------------
(* The queues                                                              *)

\* Whom the queues hold are messages.
LEMMA PendingType ==
    ASSUME TypeOK
    PROVE  Pending \subseteq Message
BY DEF TypeOK, Pending, Elems

\* What next_wakeable_message returns for two queues, and whether it returns anything.
WakeableOf(a, b) ==
    CASE a # << >> -> Head(a)
      [] a = << >> /\ (\E m \in Elems(b) : Delivery[m] = "steer") -> Head(b)
      [] OTHER -> NoMessage

Waits(a, b) == a # << >> \/ \E m \in Elems(b) : Delivery[m] = "steer"

\* It finds something exactly when a follow-up or a steer waits, and what it finds is in one
\* of the queues.
LEMMA WakeableOfQueues ==
    ASSUME NEW a \in Seq(Message), NEW b \in Seq(Message)
    PROVE  /\ WakeableOf(a, b) \in Message \union {NoMessage}
           /\ WakeableOf(a, b) # NoMessage <=> Waits(a, b)
           /\ WakeableOf(a, b) # NoMessage => WakeableOf(a, b) \in Elems(a) \union Elems(b)
<1>1. \A q \in Seq(Message) : q # << >> => Head(q) \in Message /\ Head(q) \in Elems(q)
  <2>. TAKE q \in Seq(Message)
  <2>1. q # << >> => Len(q) \in Nat /\ Len(q) >= 1 /\ Head(q) = q[1] /\ Head(q) \in Message
    OBVIOUS
  <2>. QED
    BY <2>1 DEF Elems
<1>2. (\E m \in Elems(b) : Delivery[m] = "steer") => b # << >>
  BY DEF Elems
<1>3. CASE a # << >>
  BY <1>1, <1>3, MessageAssumption DEF WakeableOf, Waits
<1>4. CASE a = << >> /\ \E m \in Elems(b) : Delivery[m] = "steer"
  BY <1>1, <1>2, <1>4, MessageAssumption DEF WakeableOf, Waits
<1>5. CASE a = << >> /\ ~\E m \in Elems(b) : Delivery[m] = "steer"
  BY <1>5 DEF WakeableOf, Waits
<1>. QED
  BY <1>3, <1>4, <1>5

\* The same of the inbox.
LEMMA Wakeable ==
    ASSUME TypeOK
    PROVE  /\ NextWakeable \in Message \union {NoMessage}
           /\ NextWakeable # NoMessage <=> Waits(nextTurn, nextStep)
<1>1. NextWakeable = WakeableOf(nextTurn, nextStep)
  BY DEF NextWakeable, WakeableOf
<1>. QED
  BY <1>1, WakeableOfQueues DEF TypeOK

\* What a step may do to the queues.
QueueStep ==
    \/ \E m \in Message : Insert(m) /\ m \notin inserted
    \/ \E m \in Pending : Claim(m)
    \/ \E S \in SUBSET Pending : Remove(S)
    \/ UNCHANGED queues

\* Every step does one of these.
LEMMA QueueSteps ==
    ASSUME InboxInv, Next
    PROVE  QueueStep
<1>0. TypeOK /\ \A m \in Message : MessageInv(m)
  BY DEF InboxInv
<1>1. ASSUME NEW m \in Message, Enqueue(m) \/ DeliverTeamMail(m)
      PROVE  QueueStep
  BY <1>0, <1>1 DEF Enqueue, DeliverTeamMail, MessageInv, QueueStep
<1>2. CASE Submission
  BY <1>1, <1>2 DEF Submission, ReadActive, RefuseFull, PublishWake, PublishTeamMail, QueueStep
<1>3. CASE DrainOne
  <2>1. nextStep \in Seq(Message) /\ nextStep # << >>
    BY <1>0, <1>3 DEF DrainOne, TypeOK
  <2>2. Head(nextStep) = nextStep[1] /\ 1 \in 1..Len(nextStep)
    BY <2>1
  <2>3. Head(nextStep) \in Pending
    BY <2>2 DEF Pending, Elems
  <2>. QED
    BY <1>3, <2>3 DEF DrainOne, QueueStep
<1>4. CASE AdmitOpening
  BY <1>4 DEF AdmitOpening, FreshAdmitted, QueueStep
<1>5. CASE TurnStep /\ ~DrainOne /\ ~AdmitOpening
  BY <1>5 DEF TurnStep, ReadOpening, TurnStart, StepStart, DrainedBoundary, RequestContinues, RequestFinishes, Abort,
              Settle, AnnounceSettled, ReleaseLease, ReturnToDriver, ReturnToUser, QueueStep
<1>6. CASE DriverStep
  BY <1>6 DEF DriverStep, BeginAutomatic, StopWaiting, DriverPick, DriverRelease, DriverRecheck, QueueStep
<1>7. ASSUME NEW m \in Message, CancelInbox(m)
      PROVE  QueueStep
  BY <1>7 DEF CancelInbox, QueueStep
<1>8. CASE RecallHumanMessages
  BY <1>8 DEF RecallHumanMessages, QueueStep
<1>9. CASE \/ Prompt \/ BeginFresh \/ DropBarrier \/ RefuseOpening \/ FailRequest \/ CancelTurn \/ CancelDriver
           \/ CrashAndResume
  BY <1>9 DEF Prompt, BeginFresh, DropBarrier, RefuseOpening, FailRequest, CancelTurn, CancelDriver, CrashAndResume,
              QueueStep
<1>. QED
  BY <1>2, <1>3, <1>4, <1>5, <1>6, <1>7, <1>8, <1>9 DEF Next

\* The queues stay queues; only an insertion adds to them, and only what it inserts.
LEMMA QueueType ==
    ASSUME TypeOK, QueueStep
    PROVE  /\ nextTurn' \in Seq(Message) /\ nextStep' \in Seq(Message)
           /\ inserted' \subseteq Message /\ canceled' \subseteq Message
           /\ claimed' \in [Message -> Nat]
<1>0. /\ nextTurn \in Seq(Message) /\ nextStep \in Seq(Message) /\ inserted \subseteq Message
      /\ canceled \subseteq Message /\ claimed \in [Message -> Nat] /\ Pending \subseteq Message
  BY PendingType DEF TypeOK
<1>1. ASSUME NEW m \in Message, Insert(m)
      PROVE  /\ nextTurn' \in Seq(Message) /\ nextStep' \in Seq(Message)
             /\ inserted' \subseteq Message /\ canceled' \subseteq Message
             /\ claimed' \in [Message -> Nat]
  BY <1>0, <1>1, AppendElems DEF Insert
<1>2. ASSUME NEW m \in Pending, Claim(m)
      PROVE  /\ nextTurn' \in Seq(Message) /\ nextStep' \in Seq(Message)
             /\ inserted' \subseteq Message /\ canceled' \subseteq Message
             /\ claimed' \in [Message -> Nat]
  BY <1>0, <1>2, WithoutType DEF Claim
<1>3. ASSUME NEW S \in SUBSET Pending, Remove(S)
      PROVE  /\ nextTurn' \in Seq(Message) /\ nextStep' \in Seq(Message)
             /\ inserted' \subseteq Message /\ canceled' \subseteq Message
             /\ claimed' \in [Message -> Nat]
  BY <1>0, <1>3, WithoutType DEF Remove
<1>. QED
  BY <1>0, <1>1, <1>2, <1>3 DEF QueueStep, queues

\* What becomes of one occurrence.
LEMMA QueueMoves ==
    ASSUME TypeOK, QueueStep, NEW m \in Message
    PROVE  \/ /\ m \notin inserted /\ inserted' = inserted \union {m} /\ m \in Pending'
              /\ claimed'[m] = claimed[m] /\ (m \in canceled') = (m \in canceled)
           \/ /\ m \in Pending /\ m \notin Pending' /\ inserted' = inserted
              /\ claimed'[m] = claimed[m] + 1 /\ (m \in canceled') = (m \in canceled)
           \/ /\ m \in Pending /\ m \notin Pending' /\ inserted' = inserted
              /\ claimed'[m] = claimed[m] /\ m \in canceled'
           \/ /\ (m \in Pending') = (m \in Pending)
              /\ (m \in inserted') = (m \in inserted)
              /\ claimed'[m] = claimed[m] /\ (m \in canceled') = (m \in canceled)
<1>0. /\ nextTurn \in Seq(Message) /\ nextStep \in Seq(Message) /\ claimed \in [Message -> Nat]
      /\ Pending \subseteq Message
  BY PendingType DEF TypeOK
<1>1. ASSUME NEW k \in Message, Insert(k), k \notin inserted
      PROVE  /\ claimed' = claimed /\ canceled' = canceled /\ inserted' = inserted \union {k}
             /\ Pending' = Pending \union {k}
  <2>1. CASE Delivery[k] = "follow_up"
    BY <1>0, <1>1, <2>1, AppendElems DEF Insert, Pending
  <2>2. CASE Delivery[k] # "follow_up"
    BY <1>0, <1>1, <2>2, AppendElems DEF Insert, Pending
  <2>. QED
    BY <1>1, <2>1, <2>2 DEF Insert
<1>2. ASSUME NEW k \in Pending, Claim(k)
      PROVE  /\ canceled' = canceled /\ inserted' = inserted /\ Pending' = Pending \ {k}
             /\ claimed'[m] = IF m = k THEN claimed[m] + 1 ELSE claimed[m]
  BY <1>0, <1>2, WithoutType DEF Claim, Pending
<1>3. ASSUME NEW S \in SUBSET Pending, Remove(S)
      PROVE  /\ canceled' = canceled \union S /\ inserted' = inserted /\ claimed' = claimed
             /\ Pending' = Pending \ S
  BY <1>0, <1>3, WithoutType DEF Remove, Pending
<1>4. CASE UNCHANGED queues
  BY <1>4 DEF queues, Pending
<1>5. CASE \E k \in Message : Insert(k) /\ k \notin inserted
  BY <1>1, <1>5
<1>6. CASE \E k \in Pending : Claim(k)
  BY <1>2, <1>6
<1>7. CASE \E S \in SUBSET Pending : Remove(S)
  BY <1>3, <1>7
<1>. QED
  BY <1>4, <1>5, <1>6, <1>7 DEF QueueStep

\* A submission that has not inserted its message has not; whoever inserts moves on.
LEMMA SubmissionMoves ==
    ASSUME InboxInv, Next
    PROVE  /\ sub' \in [Message -> {"new", "sawBusy", "sawIdle", "waking", "mailed", "done"}]
           /\ \A m \in Message : sub'[m] \in {"new", "sawBusy", "sawIdle"} => m \notin inserted'
<1>0. /\ sub \in [Message -> {"new", "sawBusy", "sawIdle", "waking", "mailed", "done"}]
      /\ \A m \in Message : sub[m] \in {"new", "sawBusy", "sawIdle"} => m \notin inserted
  BY DEF InboxInv, TypeOK, MessageInv
<1>1. CASE UNCHANGED <<sub, inserted>>
  BY <1>0, <1>1
<1>2. ASSUME NEW m \in Message, Enqueue(m) \/ DeliverTeamMail(m)
      PROVE  /\ sub' \in [Message -> {"new", "sawBusy", "sawIdle", "waking", "mailed", "done"}]
             /\ \A k \in Message : sub'[k] \in {"new", "sawBusy", "sawIdle"} => k \notin inserted'
  <2>1. inserted' = inserted \union {m} /\ \E x \in {"waking", "done", "mailed"} : sub' = [sub EXCEPT ![m] = x]
    BY <1>2 DEF Enqueue, DeliverTeamMail, Insert
  <2>. QED
    BY <1>0, <2>1
<1>3. ASSUME NEW m \in Message, ReadActive(m) \/ RefuseFull(m) \/ PublishWake(m) \/ PublishTeamMail(m)
      PROVE  /\ sub' \in [Message -> {"new", "sawBusy", "sawIdle", "waking", "mailed", "done"}]
             /\ \A k \in Message : sub'[k] \in {"new", "sawBusy", "sawIdle"} => k \notin inserted'
  <2>1. /\ inserted' = inserted
        /\ \/ /\ sub[m] \in {"new", "sawBusy", "sawIdle"}
              /\ \E x \in {"new", "sawBusy", "sawIdle"} : sub' = [sub EXCEPT ![m] = x]
           \/ sub' = [sub EXCEPT ![m] = "done"]
    BY <1>3 DEF ReadActive, RefuseFull, PublishWake, PublishTeamMail, queues
  <2>. QED
    BY <1>0, <2>1
<1>4. CASE CrashAndResume
  BY <1>4 DEF CrashAndResume, queues
<1>5. CASE TurnStep
  <2>1. UNCHANGED <<sub, inserted>>
    BY <1>5 DEF TurnStep, ReadOpening, AdmitOpening, FreshAdmitted, TurnStart, StepStart, DrainOne,
           DrainedBoundary, RequestContinues,
              RequestFinishes, Abort, Settle, AnnounceSettled, ReleaseLease, ReturnToDriver, ReturnToUser, Claim,
              queues
  <2>. QED
    BY <1>1, <2>1
<1>6. CASE DriverStep
  BY <1>1, <1>6 DEF DriverStep, BeginAutomatic, StopWaiting, DriverPick, DriverRelease, DriverRecheck, queues
<1>7. CASE (\E m \in Message : CancelInbox(m)) \/ RecallHumanMessages
  BY <1>1, <1>7 DEF CancelInbox, RecallHumanMessages, Remove
<1>8. CASE Prompt \/ BeginFresh \/ DropBarrier \/ RefuseOpening \/ FailRequest \/ CancelTurn \/ CancelDriver
  BY <1>1, <1>8 DEF Prompt, BeginFresh, DropBarrier, RefuseOpening, FailRequest, CancelTurn, CancelDriver, queues
<1>. QED
  BY <1>2, <1>3, <1>4, <1>5, <1>6, <1>7, <1>8 DEF Next, Submission

\* Every step keeps every occurrence on its way.
LEMMA MessageInvStep ==
    ASSUME InboxInv, Next, NEW m \in Message
    PROVE  MessageInv(m)'
<1>0. TypeOK /\ MessageInv(m) /\ QueueStep /\ claimed[m] \in Nat
  BY QueueSteps DEF InboxInv, TypeOK
<1>1. sub'[m] \in {"new", "sawBusy", "sawIdle"} => m \notin inserted'
  BY SubmissionMoves
<1>. QED
  BY <1>0, <1>1, QueueMoves DEF MessageInv

-----------------------------------------------------------------------------
(* Typing                                                                  *)

\* The turn stays a turn.
LEMMA TurnType ==
    ASSUME TypeOK, Next
    PROVE  turn' \in Turn
<1>0. turn \in Turn /\ nextStep \in Seq(Message) /\ driver.id \in Message \union {NoMessage} /\ Len(nextStep) \in Nat
  BY DEF TypeOK, Driver
<1>1. NoTurn \in Turn
  BY DEF NoTurn, Turn, Phase
<1>2. CASE UNCHANGED turn
  BY <1>0, <1>2
<1>3. \A who \in {"user", "driver"}, id \in Message \union {NoMessage} : BeginTurn(who, id) \in Turn
  BY <1>1 DEF BeginTurn, Turn, Phase
<1>4. CASE BeginFresh
  BY <1>3, <1>4 DEF BeginFresh
<1>5. CASE DriverStep
  BY <1>0, <1>2, <1>3, <1>5 DEF DriverStep, BeginAutomatic, StopWaiting, DriverPick, DriverRelease, DriverRecheck
<1>6. CASE ReadOpening \/ AdmitOpening \/ TurnStart \/ DrainedBoundary
  <2>1. CASE ReadOpening
    <3>1. \/ turn' = [turn EXCEPT !.phase = "hook"]
          \/ turn' = [turn EXCEPT !.phase = "leaving", !.result = "empty"]
          \/ turn' = [turn EXCEPT !.phase = "leaving", !.result = "error"]
      BY <2>1 DEF ReadOpening
    <3>. QED
      BY <1>0, <3>1 DEF Turn, Phase
  <2>2. CASE AdmitOpening
    <3>1. \/ turn' = [turn EXCEPT !.phase = "admitted"]
          \/ turn' = [turn EXCEPT !.phase = "leaving", !.result = "empty"]
          \/ turn' = [turn EXCEPT !.phase = "leaving", !.result = "error"]
      BY <2>2 DEF AdmitOpening, FreshAdmitted
    <3>. QED
      BY <1>0, <3>1 DEF Turn, Phase
  <2>3. CASE TurnStart \/ DrainedBoundary
    BY <1>0, <2>3 DEF TurnStart, DrainedBoundary, Turn, Phase
  <2>. QED
    BY <1>6, <2>1, <2>2, <2>3
<1>7. CASE StepStart \/ DrainOne \/ RequestFinishes
  <2>. DEFINE n == Len(nextStep)
  <2>1. n \in Nat /\ turn.steps + 1 \in Nat /\ (turn.left > 0 => turn.left - 1 \in Nat)
    BY <1>0 DEF Turn
  <2>2. \/ turn' = [turn EXCEPT !.phase = "draining", !.step = TRUE, !.steps = turn.steps + 1, !.left = n,
                                !.drained = FALSE]
        \/ turn' = [turn EXCEPT !.phase = "redraining", !.step = FALSE, !.left = n, !.drained = FALSE]
        \/ turn.left > 0 /\ turn' = [turn EXCEPT !.left = turn.left - 1, !.drained = TRUE]
    BY <1>7 DEF StepStart, DrainOne, RequestFinishes
  <2>. HIDE DEF n
  <2>. QED
    BY <1>0, <2>1, <2>2 DEF Turn, Phase
<1>8. CASE RequestContinues \/ Abort \/ Settle \/ AnnounceSettled \/ ReleaseLease
  <2>1. CASE RequestContinues \/ Abort
    <3>1. \/ turn' = [turn EXCEPT !.phase = "boundary", !.step = FALSE]
          \/ turn' = [turn EXCEPT !.phase = "leaving", !.step = FALSE, !.open = FALSE, !.result = "aborted"]
      BY <2>1 DEF RequestContinues, Abort
    <3>. QED
      BY <1>0, <3>1 DEF Turn, Phase
  <2>2. CASE Settle
    BY <1>0, <2>2 DEF Settle, Turn, Phase
  <2>3. CASE AnnounceSettled \/ ReleaseLease
    BY <1>0, <2>3 DEF AnnounceSettled, ReleaseLease, Turn, Phase
  <2>. QED
    BY <1>8, <2>1, <2>2, <2>3
<1>9. CASE ReturnToDriver \/ ReturnToUser
  BY <1>0, <1>1, <1>9 DEF ReturnToDriver, ReturnToUser, Turn, Phase
<1>10. CASE RefuseOpening \/ CancelTurn
  BY <1>0, <1>10 DEF RefuseOpening, CancelTurn, Turn, Phase
<1>11. CASE FailRequest
  <2>. DEFINE b == turn.step /\ turn.phase \notin {"draining", "request"}
  <2>1. b \in BOOLEAN
    OBVIOUS
  <2>2. turn' = [turn EXCEPT !.phase = "leaving", !.open = FALSE, !.result = "error", !.step = b]
    BY <1>11 DEF FailRequest
  <2>. HIDE DEF b
  <2>. QED
    BY <1>0, <2>1, <2>2 DEF Turn, Phase
<1>12. CASE CrashAndResume
  BY <1>1, <1>12 DEF CrashAndResume
<1>13. CASE \/ Submission \/ (\E m \in Message : CancelInbox(m)) \/ RecallHumanMessages \/ Prompt \/ DropBarrier
            \/ CancelDriver
  BY <1>2, <1>13 DEF CancelDriver, Submission, ReadActive, Enqueue, RefuseFull, PublishWake, DeliverTeamMail,
         PublishTeamMail,
                     CancelInbox, RecallHumanMessages, Prompt, DropBarrier
<1>. QED
  BY <1>4, <1>5, <1>6, <1>7, <1>8, <1>9, <1>10, <1>11, <1>12, <1>13 DEF Next, TurnStep

\* The driver stays a driver.
LEMMA DriverType ==
    ASSUME TypeOK, Next
    PROVE  driver' \in Driver
<1>0. driver \in Driver /\ NextWakeable \in Message \union {NoMessage}
  BY Wakeable DEF TypeOK
<1>1. /\ NoDriver \in Driver /\ [NoDriver EXCEPT !.pc = "picking"] \in Driver
      /\ GaveUp \in Driver
  BY DEF NoDriver, Driver, GaveUp
<1>2. CASE UNCHANGED driver
  BY <1>0, <1>2
<1>3. ASSUME NEW n, WakeDriver(n)
      PROVE  driver' \in Driver
  BY <1>0, <1>1, <1>3 DEF WakeDriver
<1>4. CASE BeginAutomatic \/ StopWaiting \/ CancelDriver
  <2>1. \/ driver' = [driver EXCEPT !.pc = "releasing", !.ok = FALSE]
        \/ driver' = [driver EXCEPT !.pc = "turn"]
        \/ driver' = [driver EXCEPT !.cancelled = TRUE]
    BY <1>4 DEF BeginAutomatic, StopWaiting, CancelDriver
  <2>. QED
    BY <1>0, <2>1 DEF Driver
<1>5. CASE DriverPick
  BY <1>0, <1>5 DEF DriverPick, Driver
<1>6. CASE DriverRelease
  BY <1>1, <1>6 DEF DriverRelease
<1>7. CASE DriverRecheck \/ AnnounceSettled \/ DropBarrier
  BY <1>3, <1>7 DEF DriverRecheck, AnnounceSettled, DropBarrier
<1>8. CASE ReturnToDriver
  <2>1. driver.turns + 1 \in Nat
    BY <1>0 DEF Driver
  <2>2. \/ driver' = [driver EXCEPT !.pc = "picking", !.turns = driver.turns + 1]
        \/ driver' = [driver EXCEPT !.pc = "releasing", !.ok = FALSE]
    BY <1>8 DEF ReturnToDriver
  <2>. QED
    BY <1>0, <2>1, <2>2 DEF Driver
<1>9. CASE CrashAndResume
  BY <1>1, <1>9 DEF CrashAndResume
<1>10. CASE Submission
  BY <1>2, <1>3, <1>10 DEF Submission, ReadActive, Enqueue, RefuseFull, PublishWake, DeliverTeamMail, PublishTeamMail
<1>11. CASE TurnStep /\ ~AnnounceSettled /\ ~ReturnToDriver
  BY <1>2, <1>11 DEF TurnStep, ReadOpening, AdmitOpening, FreshAdmitted, TurnStart, StepStart, DrainOne,
         DrainedBoundary,
                     RequestContinues, RequestFinishes, Abort, Settle, ReleaseLease, ReturnToUser
<1>12. CASE Prompt \/ BeginFresh \/ RefuseOpening \/ FailRequest \/ CancelTurn
            \/ (\E m \in Message : CancelInbox(m)) \/ RecallHumanMessages
  BY <1>2, <1>12 DEF Prompt, BeginFresh, RefuseOpening, FailRequest, CancelTurn, CancelInbox, RecallHumanMessages
<1>. QED
  BY <1>4, <1>5, <1>6, <1>7, <1>8, <1>9, <1>10, <1>11, <1>12 DEF Next, DriverStep

\* So do the pause, the barrier, the rechecks, the host and the bounds.
LEMMA HostType ==
    ASSUME InboxInv, Next
    PROVE  /\ paused' \in BOOLEAN /\ deferred' \in Nat /\ recheck' \in Nat
           /\ user' \in {"idle", "waiting", "turn", "joining"} /\ spent' \in Spending
<1>0. /\ paused \in BOOLEAN /\ deferred \in Nat /\ recheck \in Nat
      /\ user \in {"idle", "waiting", "turn", "joining"} /\ spent \in Spending
      /\ user = "joining" => deferred = 1
  BY DEF InboxInv, TypeOK, OwnerInv
<1>1. CASE UNCHANGED <<paused, deferred, recheck, user, spent>>
  BY <1>0, <1>1
<1>w. ASSUME NEW n, WakeDriver(n)
      PROVE  spent' \in Spending
  <2>1. spent' = spent \/ spent' = [spent EXCEPT !.fails = @ + 1]
    BY <1>w DEF WakeDriver
  <2>. QED
    BY <1>0, <2>1 DEF Spending
<1>2. CASE Submission
  <2>1. PICK k \in Message : ReadActive(k) \/ Enqueue(k) \/ RefuseFull(k) \/ PublishWake(k)
                             \/ DeliverTeamMail(k) \/ PublishTeamMail(k)
    BY <1>2 DEF Submission
  <2>2. UNCHANGED <<paused, deferred, recheck, user>> /\ (spent' = spent \/ WakeDriver(deferred))
    BY <2>1 DEF ReadActive, Enqueue, RefuseFull, PublishWake, DeliverTeamMail, PublishTeamMail
  <2>. QED
    BY <1>0, <1>w, <2>2
<1>3. CASE TurnStep
  BY <1>0, <1>w, <1>3 DEF TurnStep, ReadOpening, AdmitOpening, FreshAdmitted, TurnStart, StepStart, DrainOne,
         DrainedBoundary,
                    RequestContinues, RequestFinishes, Abort, Settle, AnnounceSettled, ReleaseLease,
                    ReturnToDriver, ReturnToUser
<1>4. CASE DriverStep
  <2>1. /\ UNCHANGED <<paused, deferred, user>> /\ recheck' \in Nat
        /\ spent' = spent \/ WakeDriver(deferred)
    BY <1>0, <1>4 DEF DriverStep, BeginAutomatic, StopWaiting, DriverPick, DriverRelease, DriverRecheck
  <2>. QED
    BY <1>0, <1>w, <2>1
<1>5. CASE Prompt \/ CrashAndResume
  <2>1. CASE Prompt
    <3>1. spent' = [spent EXCEPT !.prompts = @ + 1] /\ deferred' \in {deferred, deferred + 1} /\ user' = "waiting"
          /\ UNCHANGED <<paused, recheck>>
      BY <2>1 DEF Prompt
    <3>2. spent' \in Spending
      BY <1>0, <3>1 DEF Spending
    <3>. QED
      BY <1>0, <3>1, <3>2
  <2>2. CASE CrashAndResume
    <3>1. /\ \/ spent' = [spent EXCEPT !.crashes = @ + 1]
             \/ spent' = [spent EXCEPT !.crashes = @ + 1, !.fails = @ + 1]
          /\ deferred' = 0 /\ user' = "idle" /\ paused' = FALSE /\ recheck' = 0
      BY <2>2 DEF CrashAndResume
    <3>2. spent.crashes + 1 \in Nat /\ spent.fails + 1 \in Nat
      BY <1>0 DEF Spending
    <3>3. \/ spent' = [spent EXCEPT !.crashes = spent.crashes + 1]
          \/ spent' = [spent EXCEPT !.crashes = spent.crashes + 1, !.fails = spent.fails + 1]
      BY <3>1
    <3>4. spent' \in Spending
      BY <1>0, <3>2, <3>3 DEF Spending
    <3>. QED
      BY <3>1, <3>4
  <2>. QED
    BY <1>5, <2>1, <2>2
<1>6. CASE DropBarrier \/ BeginFresh
  <2>1. CASE DropBarrier
    <3>1. deferred = 1 /\ deferred' = deferred - 1 /\ UNCHANGED <<paused, recheck>> /\ user' = "idle"
      BY <1>0, <2>1 DEF DropBarrier
    <3>2. spent' \in Spending
      BY <1>w, <2>1 DEF DropBarrier
    <3>. QED
      BY <1>0, <3>1, <3>2
  <2>2. CASE BeginFresh
    BY <1>0, <2>2 DEF BeginFresh
  <2>. QED
    BY <1>6, <2>1, <2>2
<1>7. CASE \/ RefuseOpening \/ FailRequest \/ CancelTurn \/ CancelDriver \/ (\E m \in Message : CancelInbox(m))
           \/ RecallHumanMessages
  <2>1. /\ UNCHANGED <<paused, deferred, recheck, user>>
        /\ \/ spent' = spent \/ spent' = [spent EXCEPT !.fails = @ + 1]
           \/ spent' = [spent EXCEPT !.cancels = @ + 1]
    BY <1>7 DEF RefuseOpening, FailRequest, CancelTurn, CancelDriver, CancelInbox, RecallHumanMessages
  <2>. QED
    BY <1>0, <2>1 DEF Spending
<1>. QED
  BY <1>2, <1>3, <1>4, <1>5, <1>6, <1>7 DEF Next

\* Every step keeps the state well formed.
LEMMA TypeStep ==
    ASSUME InboxInv, Next
    PROVE  TypeOK'
<1>1. TypeOK
  BY DEF InboxInv
<1>. QED
  BY <1>1, QueueSteps, QueueType, SubmissionMoves, TurnType, DriverType, HostType DEF TypeOK

-----------------------------------------------------------------------------
(* The gate, the barrier and the phases of a turn                          *)

\* The gate keeps its owner, and the barrier its holder.
LEMMA OwnerInvStep ==
    ASSUME InboxInv, Next
    PROVE  OwnerInv'
<1>0. TypeOK /\ OwnerInv /\ turn \in Turn /\ driver \in Driver
  BY DEF InboxInv, TypeOK
<1>1. CASE UNCHANGED <<turn, deferred, user>> /\ (driver.pc = "turn" => driver'.pc = "turn")
  BY <1>0, <1>1 DEF OwnerInv
<1>2. ASSUME NEW n, WakeDriver(n)
      PROVE  driver.pc = "turn" => driver' = driver
  BY <1>2 DEF WakeDriver, MayDrive
<1>3. CASE Submission
  BY <1>1, <1>2, <1>3 DEF Submission, ReadActive, Enqueue, RefuseFull, PublishWake, DeliverTeamMail, PublishTeamMail
<1>4. CASE TurnStep /\ ~AnnounceSettled /\ ~ReturnToDriver /\ ~ReturnToUser
  <2>1. UNCHANGED <<deferred, user, driver>> /\ turn'.gate = turn.gate /\ turn.phase # "idle" /\ turn'.phase # "idle"
    BY <1>0, <1>4 DEF TurnStep, ReadOpening, AdmitOpening, FreshAdmitted, TurnStart, StepStart, DrainOne,
           DrainedBoundary,
                      RequestContinues, RequestFinishes, Abort, Settle, ReleaseLease, Turn
  <2>. QED
    BY <1>0, <2>1 DEF OwnerInv
<1>5. CASE AnnounceSettled
  <2>1. UNCHANGED <<deferred, user>> /\ turn'.gate = turn.gate /\ turn.phase # "idle" /\ turn'.phase # "idle"
    BY <1>0, <1>5 DEF AnnounceSettled, Turn
  <2>2. driver.pc = "turn" => driver' = driver
    BY <1>2, <1>5 DEF AnnounceSettled
  <2>. QED
    BY <1>0, <2>1, <2>2 DEF OwnerInv
<1>6. CASE ReturnToDriver \/ ReturnToUser
  <2>1. turn'.phase = "idle" /\ turn'.gate = "none" /\ deferred' = deferred
    BY <1>6 DEF ReturnToDriver, ReturnToUser, NoTurn
  <2>2. user' = user \/ (user = "turn" /\ user' = IF Foreground THEN "joining" ELSE "idle")
    BY <1>0, <1>6 DEF ReturnToDriver, ReturnToUser, OwnerInv
  <2>. QED
    BY <1>0, <2>1, <2>2 DEF OwnerInv
<1>7. CASE BeginAutomatic
  <2>1. CASE paused
    <3>1. UNCHANGED <<turn, deferred, user>> /\ driver.pc # "turn"
      BY <1>7, <2>1 DEF BeginAutomatic
    <3>. QED
      BY <1>1, <3>1
  <2>2. CASE ~paused
    <3>1. UNCHANGED <<deferred, user>> /\ driver'.pc = "turn" /\ turn' = BeginTurn("driver", driver.id)
      BY <1>0, <1>7, <2>2 DEF BeginAutomatic, Driver
    <3>2. turn'.phase = "opening" /\ turn'.gate = "driver"
      BY <3>1 DEF BeginTurn, NoTurn
    <3>. QED
      BY <1>0, <3>1, <3>2 DEF OwnerInv
  <2>. QED
    BY <2>1, <2>2
<1>8. CASE StopWaiting \/ DriverPick \/ DriverRelease \/ DriverRecheck \/ CancelDriver
  <2>1. UNCHANGED <<turn, deferred, user>> /\ (driver.pc = "turn" => driver'.pc = "turn")
    <3>1. CASE CancelDriver
      BY <1>0, <3>1 DEF CancelDriver, Driver
    <3>2. CASE ~CancelDriver
      BY <1>2, <1>8, <3>2 DEF StopWaiting, DriverPick, DriverRelease, DriverRecheck
    <3>. QED
      BY <3>1, <3>2
  <2>. QED
    BY <1>1, <2>1
<1>9. CASE Prompt
  <2>1. UNCHANGED <<turn, driver>> /\ user = "idle" /\ user' = "waiting"
        /\ deferred' = IF Foreground THEN deferred + 1 ELSE deferred
    BY <1>9 DEF Prompt
  <2>2. deferred = 0
    BY <1>0, <2>1 DEF OwnerInv
  <2>. QED
    BY <1>0, <2>1, <2>2 DEF OwnerInv
<1>10. CASE BeginFresh
  <2>1. UNCHANGED <<deferred, driver>> /\ user = "waiting" /\ user' = "turn" /\ turn' = BeginTurn("user", NoMessage)
    BY <1>10 DEF BeginFresh
  <2>2. turn'.phase = "opening" /\ turn'.gate = "user"
    BY <2>1 DEF BeginTurn, NoTurn
  <2>. QED
    BY <1>0, <2>1, <2>2 DEF OwnerInv
<1>11. CASE DropBarrier
  <2>1. UNCHANGED turn /\ user = "joining" /\ user' = "idle" /\ deferred' = deferred - 1
    BY <1>11 DEF DropBarrier
  <2>2. driver.pc = "turn" => driver' = driver
    BY <1>2, <1>11 DEF DropBarrier
  <2>3. deferred = 1
    BY <1>0, <2>1 DEF OwnerInv
  <2>. QED
    BY <1>0, <2>1, <2>2, <2>3 DEF OwnerInv
<1>12. CASE RefuseOpening \/ FailRequest
  <2>1. UNCHANGED <<deferred, user, driver>> /\ turn'.gate = turn.gate /\ turn.phase # "idle" /\ turn'.phase # "idle"
    BY <1>0, <1>12 DEF RefuseOpening, FailRequest, Turn
  <2>. QED
    BY <1>0, <2>1 DEF OwnerInv
<1>13. CASE CancelTurn
  <2>1. UNCHANGED <<deferred, user, driver>> /\ turn'.gate = turn.gate /\ turn'.phase = turn.phase
    BY <1>0, <1>13 DEF CancelTurn, Turn
  <2>. QED
    BY <1>0, <2>1 DEF OwnerInv
<1>14. CASE (\E m \in Message : CancelInbox(m)) \/ RecallHumanMessages
  BY <1>1, <1>14 DEF CancelInbox, RecallHumanMessages
<1>15. CASE CrashAndResume
  BY <1>15 DEF CrashAndResume, OwnerInv, NoTurn
<1>. QED
  BY <1>3, <1>4, <1>5, <1>6, <1>7, <1>8, <1>9, <1>10, <1>11, <1>12, <1>13, <1>14, <1>15 DEF Next, TurnStep, DriverStep

\* What is open, and the pause an abort leaves.
LEMMA PhaseInvStep ==
    ASSUME InboxInv, Next
    PROVE  PhaseInv'
<1>0. PhaseInv /\ turn \in Turn
  BY DEF InboxInv, TypeOK
<1>1. CASE UNCHANGED <<turn, paused>>
  BY <1>0, <1>1 DEF PhaseInv
<1>2. CASE Submission
  BY <1>1, <1>2 DEF Submission, ReadActive, Enqueue, RefuseFull, PublishWake, DeliverTeamMail, PublishTeamMail
<1>3. CASE ReadOpening \/ AdmitOpening \/ TurnStart \/ StepStart \/ DrainOne \/ DrainedBoundary
  BY <1>0, <1>3 DEF CallerCancelled, ReadOpening, AdmitOpening, FreshAdmitted, TurnStart, StepStart, DrainOne,
         DrainedBoundary, Turn, PhaseInv
<1>4. CASE RequestContinues \/ RequestFinishes \/ Abort \/ Settle \/ AnnounceSettled \/ ReleaseLease
  BY <1>0, <1>4 DEF RequestContinues, RequestFinishes, Abort, Settle, AnnounceSettled, ReleaseLease, Turn, PhaseInv
<1>5. CASE ReturnToDriver \/ ReturnToUser
  BY <1>0, <1>5 DEF ReturnToDriver, ReturnToUser, NoTurn, PhaseInv
<1>6. \A who, id : LET t == BeginTurn(who, id) IN ~t.step /\ ~t.open /\ t.result = "none"
  BY DEF BeginTurn, NoTurn
<1>7. CASE DriverStep
  BY <1>0, <1>1, <1>6, <1>7 DEF DriverStep, BeginAutomatic, StopWaiting, DriverPick, DriverRelease, DriverRecheck,
         PhaseInv
<1>8. CASE BeginFresh
  BY <1>6, <1>8 DEF BeginFresh, PhaseInv
<1>9. CASE RefuseOpening \/ CancelTurn
  BY <1>0, <1>9 DEF RefuseOpening, CancelTurn, Turn, PhaseInv
<1>10. CASE FailRequest
  BY <1>0, <1>10 DEF FailRequest, Turn, PhaseInv
<1>11. CASE Prompt \/ DropBarrier \/ CancelDriver \/ (\E m \in Message : CancelInbox(m)) \/ RecallHumanMessages
  BY <1>1, <1>11 DEF Prompt, DropBarrier, CancelDriver, CancelInbox, RecallHumanMessages
<1>12. CASE CrashAndResume
  BY <1>12 DEF CrashAndResume, NoTurn, PhaseInv
<1>. QED
  BY <1>2, <1>3, <1>4, <1>5, <1>7, <1>8, <1>9, <1>10, <1>11, <1>12 DEF Next, TurnStep

-----------------------------------------------------------------------------
(* What holds of every behaviour                                           *)

\* An inbox that was just created satisfies the invariant.
LEMMA InboxInvInit == Init => InboxInv
<1>. SUFFICES ASSUME Init PROVE InboxInv
  OBVIOUS
<1>1. Pending = {}
  BY DEF Init, Pending, Elems
<1>2. NoTurn \in Turn /\ NoDriver \in Driver /\ NothingSpent \in Spending
  BY DEF NoTurn, Turn, Phase, NoDriver, Driver, NothingSpent, Spending
<1>3. TypeOK
  <2>1. nextTurn \in Seq(Message) /\ nextStep \in Seq(Message)
    BY DEF Init
  <2>2. inserted \subseteq Message /\ canceled \subseteq Message /\ claimed \in [Message -> Nat]
    BY DEF Init
  <2>3. sub \in [Message -> {"new", "sawBusy", "sawIdle", "waking", "mailed", "done"}]
    BY DEF Init
  <2>4. turn \in Turn /\ driver \in Driver /\ spent \in Spending
    BY <1>2 DEF Init
  <2>5. paused \in BOOLEAN /\ deferred \in Nat /\ recheck \in Nat /\ user \in {"idle", "waiting", "turn", "joining"}
    BY DEF Init
  <2>. QED
    BY <2>1, <2>2, <2>3, <2>4, <2>5 DEF TypeOK
<1>4. ASSUME NEW m \in Message
      PROVE  MessageInv(m)
  <2>1. claimed[m] = 0 /\ inserted = {} /\ canceled = {}
    BY DEF Init
  <2>. QED
    BY <1>1, <2>1 DEF MessageInv
<1>5. OwnerInv /\ PhaseInv
  BY DEF Init, OwnerInv, PhaseInv, NoTurn
<1>. QED
  BY <1>3, <1>4, <1>5 DEF InboxInv

\* Every step, and every stuttering step, preserves it.
LEMMA InboxInvStep == InboxInv /\ [Next]_vars => InboxInv'
<1>1. ASSUME InboxInv, Next
      PROVE  InboxInv'
  BY <1>1, TypeStep, MessageInvStep, OwnerInvStep, PhaseInvStep DEF InboxInv
<1>2. ASSUME InboxInv, UNCHANGED vars
      PROVE  InboxInv'
  <2>1. TypeOK /\ TypeOK'
    BY <1>2 DEF InboxInv, TypeOK, vars
  <2>2. OwnerInv' /\ PhaseInv'
    BY <1>2 DEF InboxInv, OwnerInv, PhaseInv, vars
  <2>3. Pending' = Pending
    BY <1>2 DEF Pending, vars
  <2>4. ASSUME NEW m \in Message
        PROVE  MessageInv(m)'
    BY <1>2, <2>3 DEF InboxInv, MessageInv, vars
  <2>. QED
    BY <2>1, <2>2, <2>4 DEF InboxInv
<1>. QED
  BY <1>1, <1>2

\* The invariant holds in every reachable state of the inbox.
THEOREM InboxInvariant == Spec => []InboxInv
  BY InboxInvInit, InboxInvStep, PTL DEF Spec

\* Every variable keeps its type: the two queues hold messages only, whatever was spliced
\* out of their middle, and the barrier count of InboxWakeBarrier never drops below zero.
THEOREM InboxTypeCorrect == Spec => []TypeOK
<1>1. InboxInv => TypeOK
  BY DEF InboxInv
<1>. QED
  BY <1>1, InboxInvariant, PTL

\* Exactly once: whatever deliver_team_mail redelivers, cancel_inbox or
\* recall_human_messages removes, drain_next_step claims and a crash replays, an occurrence
\* is admitted to the model at most once and never both admitted and cancelled.
THEOREM AlwaysAdmittedOnce == Spec => []AdmittedOnce
<1>1. InboxInv => AdmittedOnce
  BY DEF InboxInv, MessageInv, AdmittedOnce
<1>. QED
  BY <1>1, InboxInvariant, PTL

\* Whichever exit run_turn takes, the log has no turn and no step open once the lease is
\* gone.
THEOREM NothingLeftOpen == Spec => []NothingOpenWhenIdle
<1>1. InboxInv => NothingOpenWhenIdle
  BY DEF InboxInv, PhaseInv, NothingOpenWhenIdle, Active
<1>. QED
  BY <1>1, InboxInvariant, PTL

\* An inbox turn admits the occurrence its user-prompt hooks saw and no other, although the
\* queue may have changed while the hooks ran.
THEOREM OpensWhatHooksSaw == Spec => HooksSawWhatOpens
<1>1. ASSUME InboxInv, Next, turn.phase = "hook", turn'.phase = "admitted"
      PROVE  \A m \in Message : claimed'[m] # claimed[m] => m = turn.id
  <2>0. turn \in Turn /\ claimed \in [Message -> Nat] /\ driver \in Driver
    BY <1>1 DEF InboxInv, TypeOK
  <2>1. CASE AdmitOpening
    <3>1. UNCHANGED queues \/ Claim(turn.id)
      BY <2>1 DEF AdmitOpening, FreshAdmitted
    <3>. QED
      BY <2>0, <3>1 DEF queues, Claim
  <2>2. CASE UNCHANGED turn
    BY <1>1, <2>2
  <2>3. ~(TurnStep /\ ~AdmitOpening)
    BY <1>1, <2>0 DEF TurnStep, ReadOpening, TurnStart, StepStart, DrainOne, DrainedBoundary, RequestContinues,
              RequestFinishes, Abort, Settle, AnnounceSettled, ReleaseLease, ReturnToDriver, ReturnToUser, Turn
  <2>4. ~BeginFresh /\ ~(BeginAutomatic /\ ~paused)
    BY <1>1 DEF BeginFresh, BeginAutomatic, BeginTurn, NoTurn
  <2>5. ~RefuseOpening /\ ~FailRequest /\ ~CancelTurn /\ ~CrashAndResume
    <3>1. ~RefuseOpening /\ ~FailRequest
      BY <1>1, <2>0 DEF RefuseOpening, FailRequest, Turn
    <3>2. ~CancelTurn
      BY <1>1, <2>0 DEF CancelTurn, Turn
    <3>3. ~CrashAndResume
      BY <1>1 DEF CrashAndResume, NoTurn
    <3>. QED
      BY <3>1, <3>2, <3>3
  <2>6. CASE Submission
    BY <2>2, <2>6 DEF Submission, ReadActive, Enqueue, RefuseFull, PublishWake, DeliverTeamMail, PublishTeamMail
  <2>7. CASE DriverStep
    BY <2>2, <2>4, <2>7 DEF DriverStep, BeginAutomatic, StopWaiting, DriverPick, DriverRelease, DriverRecheck
  <2>8. CASE Prompt \/ DropBarrier \/ CancelDriver \/ (\E m \in Message : CancelInbox(m)) \/ RecallHumanMessages
    BY <2>2, <2>8 DEF Prompt, DropBarrier, CancelDriver, CancelInbox, RecallHumanMessages
  <2>. QED
    BY <1>1, <2>1, <2>3, <2>4, <2>5, <2>6, <2>7, <2>8 DEF Next
<1>2. InboxInv /\ [Next]_vars =>
        [turn.phase = "hook" /\ turn'.phase = "admitted" =>
            \A m \in Message : claimed'[m] # claimed[m] => m = turn.id]_vars
  BY <1>1
<1>. QED
  BY <1>2, InboxInvariant, PTL DEF Spec, HooksSawWhatOpens

\* How a turn starts: by a fresh prompt, or by the driver with delivery neither paused nor
\* deferred.
LEMMA TurnStarts ==
    ASSUME InboxInv, Next, turn.phase = "idle", turn'.phase # "idle"
    PROVE  BeginFresh \/ (BeginAutomatic /\ ~paused)
<1>0. turn \in Turn
  BY DEF InboxInv, TypeOK
<1>1. CASE UNCHANGED turn
  BY <1>1
<1>2. ~TurnStep
  BY DEF TurnStep, ReadOpening, AdmitOpening, FreshAdmitted, TurnStart, StepStart, DrainOne, DrainedBoundary,
         RequestContinues,
         RequestFinishes, Abort, Settle, AnnounceSettled, ReleaseLease, ReturnToDriver, ReturnToUser
<1>3. ~RefuseOpening /\ ~FailRequest /\ ~CancelTurn /\ ~CrashAndResume
  BY DEF RefuseOpening, FailRequest, CancelTurn, Active, CrashAndResume, NoTurn
<1>4. CASE Submission
  BY <1>1, <1>4 DEF Submission, ReadActive, Enqueue, RefuseFull, PublishWake, DeliverTeamMail, PublishTeamMail
<1>5. CASE DriverStep /\ ~(BeginAutomatic /\ ~paused)
  BY <1>1, <1>5 DEF DriverStep, BeginAutomatic, StopWaiting, DriverPick, DriverRelease, DriverRecheck
<1>6. CASE Prompt \/ DropBarrier \/ CancelDriver \/ (\E m \in Message : CancelInbox(m)) \/ RecallHumanMessages
  BY <1>1, <1>6 DEF Prompt, DropBarrier, CancelDriver, CancelInbox, RecallHumanMessages
<1>. QED
  BY <1>2, <1>3, <1>4, <1>5, <1>6 DEF Next

\* A user's cancellation stops automation: after an aborted turn the next turn of this
\* process is one the user asked for, since only run_turn of a fresh prompt lifts the pause.
THEOREM AbortAlwaysHolds == Spec => AbortHoldsAutomation
<1>1. ASSUME InboxInv, Next, turn.phase = "idle", turn.result = "aborted", turn'.phase = "opening"
      PROVE  turn'.gate = "user"
  <2>1. paused
    BY <1>1 DEF InboxInv, PhaseInv
  <2>2. BeginFresh
    BY <1>1, <2>1, TurnStarts
  <2>. QED
    BY <2>2 DEF BeginFresh, BeginTurn, NoTurn
<1>2. InboxInv /\ [Next]_vars =>
        [turn.phase = "idle" /\ turn.result = "aborted" /\ turn'.phase = "opening" => turn'.gate = "user"]_vars
  BY <1>1
<1>. QED
  BY <1>2, InboxInvariant, PTL DEF Spec, AbortHoldsAutomation

-----------------------------------------------------------------------------
(* Nothing is stranded                                                     *)

\* Somebody will still look at the queue, or the last driver has given up.
Attended ==
    \/ paused \/ driver.pc # "off" \/ recheck > 0 \/ user # "idle"
    \/ \E m \in Message : sub[m] \in {"waking", "mailed"}

\* Whatever can be woken for is attended, and who counts on a running turn has one.
WakeInv ==
    /\ NextWakeable # NoMessage => Attended
    /\ \A m \in Message : sub[m] = "sawBusy" => Active

\* A turn has an owner who attends.
LEMMA ActiveAttended ==
    ASSUME OwnerInv, Active
    PROVE  user = "turn" \/ driver.pc = "turn"
BY DEF OwnerInv, Active

\* wake_native_parent either starts a driver or somebody else attends: the queue is paused,
\* a cancelled turn or another driver is running, or a barrier is held.
LEMMA WakeAttends ==
    ASSUME InboxInv, NextWakeable # NoMessage, NEW n, WakeDriver(n)
    PROVE  paused \/ driver'.pc # "off" \/ n # 0 \/ user = "turn"
<1>0. OwnerInv /\ driver \in Driver
  BY DEF InboxInv, TypeOK
<1>1. CASE MayDrive(n)
  BY <1>1 DEF WakeDriver, NoDriver, GaveUp
<1>2. CASE ~MayDrive(n)
  <2>1. driver' = driver
    BY <1>2 DEF WakeDriver
  <2>2. paused \/ Active \/ n # 0 \/ driver.pc \notin {"off", "failed"}
    BY <1>2 DEF MayDrive
  <2>. QED
    BY <1>0, <2>1, <2>2, ActiveAttended
<1>. QED
  BY <1>1, <1>2

\* What waits when something is wakeable after a step.
LEMMA WakeableNext ==
    ASSUME TypeOK, QueueStep, NextWakeable' # NoMessage
    PROVE  Waits(nextTurn', nextStep')
<1>1. nextTurn' \in Seq(Message) /\ nextStep' \in Seq(Message)
  BY QueueType
<1>2. NextWakeable' = WakeableOf(nextTurn', nextStep')
  BY DEF NextWakeable, WakeableOf
<1>. QED
  BY <1>1, <1>2, WakeableOfQueues

\* Cancelling and recalling make nothing wakeable.
LEMMA RemoveWakesNothing ==
    ASSUME TypeOK, NEW S \in SUBSET Pending, Remove(S), NextWakeable' # NoMessage
    PROVE  NextWakeable # NoMessage
<1>0. nextTurn \in Seq(Message) /\ nextStep \in Seq(Message) /\ QueueStep
  BY DEF TypeOK, QueueStep
<1>1. Waits(nextTurn', nextStep')
  BY <1>0, WakeableNext
<1>2. /\ nextTurn' \in Seq(Message)
      /\ Elems(nextTurn') \subseteq Elems(nextTurn) /\ Elems(nextStep') \subseteq Elems(nextStep)
  BY <1>0, WithoutType DEF Remove
<1>3. nextTurn' # << >> => nextTurn # << >>
  <2>1. nextTurn' # << >> => 1 \in 1..Len(nextTurn')
    BY <1>2
  <2>2. nextTurn = << >> => Elems(nextTurn) = {}
    BY DEF Elems
  <2>. QED
    BY <1>2, <2>1, <2>2 DEF Elems
<1>. QED
  BY <1>1, <1>2, <1>3, Wakeable DEF Waits

\* Nor does an injected message.
LEMMA InjectWakesNothing ==
    ASSUME TypeOK, NEW m \in Message, Insert(m), m \notin inserted, Delivery[m] = "inject",
           NextWakeable' # NoMessage
    PROVE  NextWakeable # NoMessage
<1>0. nextTurn \in Seq(Message) /\ nextStep \in Seq(Message) /\ QueueStep
  BY DEF TypeOK, QueueStep
<1>1. Waits(nextTurn', nextStep')
  BY <1>0, WakeableNext
<1>2. nextStep' = Append(nextStep, m) /\ nextTurn' = nextTurn
  BY DEF Insert
<1>3. Elems(nextStep') = Elems(nextStep) \union {m}
  BY <1>0, <1>2, AppendElems
<1>. QED
  BY <1>1, <1>2, <1>3, Wakeable DEF Waits

\* A submission that saw a turn still has it when it queues.
LEMMA BusyStep ==
    ASSUME InboxInv, WakeInv, Next, ~Straddling, NEW m \in Message, sub'[m] = "sawBusy"
    PROVE  Active'
<1>0. turn \in Turn /\ sub \in [Message -> {"new", "sawBusy", "sawIdle", "waking", "mailed", "done"}]
  BY DEF InboxInv, TypeOK
<1>1. ASSUME Active, UNCHANGED turn
      PROVE  Active'
  BY <1>1 DEF Active
<1>2. CASE Submission
  <2>1. UNCHANGED turn
    BY <1>2 DEF Submission, ReadActive, Enqueue, RefuseFull, PublishWake, DeliverTeamMail, PublishTeamMail
  <2>2. PICK k \in Message : ReadActive(k) \/ Enqueue(k) \/ RefuseFull(k) \/ PublishWake(k)
                             \/ DeliverTeamMail(k) \/ PublishTeamMail(k)
    BY <1>2 DEF Submission
  <2>3. sub[m] = "sawBusy" \/ Active
    BY <1>0, <2>2 DEF ReadActive, Enqueue, RefuseFull, PublishWake, DeliverTeamMail, PublishTeamMail
  <2>. QED
    BY <1>1, <2>1, <2>3 DEF WakeInv
<1>3. ~CrashAndResume
  BY DEF CrashAndResume
<1>4. CASE ~Submission /\ ~CrashAndResume
  <2>1. sub' = sub
    BY <1>4 DEF Next, TurnStep, ReadOpening, AdmitOpening, FreshAdmitted, TurnStart, StepStart, DrainOne,
           DrainedBoundary,
              RequestContinues, RequestFinishes, Abort, Settle, AnnounceSettled, ReleaseLease, ReturnToDriver,
              ReturnToUser, DriverStep, BeginAutomatic, StopWaiting, DriverPick, DriverRelease, DriverRecheck,
              Prompt, BeginFresh,
              DropBarrier, RefuseOpening, FailRequest, CancelTurn, CancelDriver, CancelInbox, RecallHumanMessages
  <2>2. sub[m] = "sawBusy" /\ Active
    BY <2>1 DEF WakeInv
  <2>3. ~ReleaseLease
    <3>1. ReleaseLease => turn.phase = "leaving" /\ turn'.phase = "released"
      BY <1>0 DEF ReleaseLease, Turn
    <3>. QED
      BY <2>2, <3>1 DEF Straddling
  <2>4. ~ReturnToDriver /\ ~ReturnToUser
    BY <2>2 DEF ReturnToDriver, ReturnToUser, Active
  <2>5. CASE TurnStep
    BY <1>0, <2>2, <2>3, <2>4, <2>5 DEF TurnStep, ReadOpening, AdmitOpening, FreshAdmitted, TurnStart, StepStart,
           DrainOne,
              DrainedBoundary, RequestContinues, RequestFinishes, Abort, Settle, AnnounceSettled, Turn, Active
  <2>6. CASE RefuseOpening \/ FailRequest
    BY <1>0, <2>6 DEF RefuseOpening, FailRequest, Turn, Active
  <2>7. CASE CancelTurn
    <3>1. turn'.phase = turn.phase
      BY <1>0, <2>7 DEF CancelTurn, Turn
    <3>. QED
      BY <2>2, <3>1 DEF Active
  <2>8. CASE BeginFresh \/ BeginAutomatic
    BY <1>1, <2>2, <2>8 DEF BeginFresh, BeginAutomatic, BeginTurn, NoTurn, Active
  <2>9. CASE UNCHANGED turn
    BY <1>1, <2>2, <2>9
  <2>10. CASE \/ StopWaiting \/ DriverPick \/ DriverRelease \/ DriverRecheck \/ Prompt \/ DropBarrier \/ CancelDriver
              \/ (\E k \in Message : CancelInbox(k)) \/ RecallHumanMessages
    BY <2>9, <2>10 DEF StopWaiting, DriverPick, DriverRelease, DriverRecheck, Prompt, DropBarrier, CancelDriver,
                       CancelInbox, RecallHumanMessages
  <2>. QED
    BY <1>4, <2>5, <2>6, <2>7, <2>8, <2>10 DEF Next, DriverStep
<1>. QED
  BY <1>2, <1>3, <1>4

\* Whatever the next state can be woken for is attended there.
LEMMA AttendedStep ==
    ASSUME Foreground, InboxInv, WakeInv, Next, NextWakeable' # NoMessage
    PROVE  Attended'
<1>0. /\ TypeOK /\ OwnerInv /\ QueueStep /\ recheck \in Nat /\ deferred \in Nat /\ driver \in Driver
      /\ sub \in [Message -> {"new", "sawBusy", "sawIdle", "waking", "mailed", "done"}]
  BY QueueSteps DEF InboxInv, TypeOK
<1>1. NextWakeable # NoMessage => Attended
  BY DEF WakeInv
<1>2. ASSUME Attended, UNCHANGED <<paused, driver, recheck, user>>,
             \A m \in Message : sub[m] \in {"waking", "mailed"} => sub'[m] \in {"waking", "mailed"}
      PROVE  Attended'
  BY <1>2 DEF Attended
<1>3. UNCHANGED queues => NextWakeable # NoMessage
  BY DEF queues, NextWakeable
<1>4. CASE Submission
  <2>1. PICK k \in Message : ReadActive(k) \/ Enqueue(k) \/ RefuseFull(k) \/ PublishWake(k)
                             \/ DeliverTeamMail(k) \/ PublishTeamMail(k)
    BY <1>4 DEF Submission
  <2>2. CASE ReadActive(k) \/ RefuseFull(k)
    <3>1. UNCHANGED queues /\ UNCHANGED <<paused, driver, recheck, user>>
      BY <2>2 DEF ReadActive, RefuseFull
    <3>2. \A m \in Message : sub[m] \in {"waking", "mailed"} => sub'[m] \in {"waking", "mailed"}
      BY <1>0, <2>2 DEF ReadActive, RefuseFull
    <3>. QED
      BY <1>1, <1>2, <1>3, <3>1, <3>2
  <2>3. CASE Enqueue(k)
    <3>1. UNCHANGED <<paused, driver, recheck, user>> /\ Insert(k)
      BY <2>3 DEF Enqueue
    <3>2. CASE sub[k] = "sawBusy"
      <4>1. user = "turn" \/ driver.pc = "turn"
        BY <1>0, <3>2, ActiveAttended DEF WakeInv
      <4>. QED
        BY <3>1, <4>1 DEF Attended
    <3>3. CASE sub[k] # "sawBusy" /\ Delivery[k] # "inject"
      <4>1. sub'[k] = "waking"
        BY <1>0, <2>3, <3>3 DEF Enqueue
      <4>. QED
        BY <4>1 DEF Attended
    <3>4. CASE Delivery[k] = "inject"
      <4>1. Attended
        <5>1. k \notin inserted
          BY <2>3 DEF Enqueue, InboxInv, MessageInv
        <5>. QED
          BY <1>0, <1>1, <3>1, <3>4, <5>1, InjectWakesNothing
      <4>2. \A m \in Message : sub[m] \in {"waking", "mailed"} => sub'[m] \in {"waking", "mailed"}
        BY <1>0, <2>3 DEF Enqueue
      <4>. QED
        BY <1>2, <3>1, <4>1, <4>2
    <3>. QED
      BY <3>2, <3>3, <3>4
  <2>4. CASE DeliverTeamMail(k)
    <3>1. sub'[k] = "mailed"
      BY <1>0, <2>4 DEF DeliverTeamMail
    <3>. QED
      BY <3>1 DEF Attended
  <2>5. CASE PublishWake(k) \/ PublishTeamMail(k)
    <3>1. UNCHANGED queues /\ UNCHANGED <<paused, user>> /\ (WakeDriver(deferred) \/ (Active /\ driver' = driver))
      BY <2>5 DEF PublishWake, PublishTeamMail
    <3>2. NextWakeable # NoMessage
      BY <1>3, <3>1
    <3>3. CASE WakeDriver(deferred)
      <4>1. paused \/ driver'.pc # "off" \/ deferred # 0 \/ user = "turn"
        BY <3>2, <3>3, WakeAttends
      <4>2. deferred # 0 => user # "idle"
        BY <1>0 DEF OwnerInv
      <4>. QED
        BY <3>1, <4>1, <4>2 DEF Attended
    <3>4. CASE Active /\ driver' = driver
      <4>1. user = "turn" \/ driver.pc = "turn"
        BY <1>0, <3>4, ActiveAttended
      <4>. QED
        BY <3>1, <3>4, <4>1 DEF Attended
    <3>. QED
      BY <3>1, <3>3, <3>4
  <2>. QED
    BY <2>1, <2>2, <2>3, <2>4, <2>5
<1>5. CASE TurnStep /\ ~AnnounceSettled /\ ~ReturnToDriver /\ ~ReturnToUser
  <2>1. turn.phase # "idle" /\ UNCHANGED <<user, driver>>
    BY <1>5 DEF TurnStep, ReadOpening, AdmitOpening, FreshAdmitted, TurnStart, StepStart, DrainOne,
           DrainedBoundary, RequestContinues,
                RequestFinishes, Abort, Settle, ReleaseLease
  <2>. QED
    BY <1>0, <2>1 DEF OwnerInv, Attended
<1>6. CASE AnnounceSettled
  <2>1. turn.phase # "idle" /\ user' = user /\ WakeDriver(deferred)
    BY <1>6 DEF AnnounceSettled
  <2>2. driver.pc = "turn" => driver' = driver
    BY <2>1 DEF WakeDriver, MayDrive
  <2>. QED
    BY <1>0, <2>1, <2>2 DEF OwnerInv, Attended
<1>7. CASE ReturnToDriver
  <2>1. driver'.pc \in {"picking", "releasing"}
    BY <1>0, <1>7 DEF ReturnToDriver, Driver
  <2>. QED
    BY <2>1 DEF Attended
<1>8. CASE ReturnToUser
  BY <1>8 DEF ReturnToUser, Attended
<1>9. CASE BeginAutomatic \/ StopWaiting \/ DriverPick
  <2>1. driver'.pc \in {"releasing", "turn", "waiting"}
    <3>1. CASE BeginAutomatic \/ StopWaiting
      BY <1>0, <3>1 DEF BeginAutomatic, StopWaiting, Driver
    <3>2. CASE DriverPick
      <4>1. \/ driver' = [driver EXCEPT !.pc = "releasing", !.ok = TRUE]
            \/ driver' = [driver EXCEPT !.pc = "releasing", !.ok = FALSE]
            \/ driver' = [driver EXCEPT !.pc = "waiting", !.id = NextWakeable]
        BY <3>2 DEF DriverPick
      <4>. QED
        BY <1>0, <4>1 DEF Driver
    <3>. QED
      BY <1>9, <3>1, <3>2
  <2>. QED
    BY <2>1 DEF Attended
<1>10. CASE DriverRelease
  <2>1. CASE driver.ok /\ ~driver.cancelled
    <3>1. recheck' > 0
      BY <1>0, <1>10, <2>1 DEF DriverRelease
    <3>. QED
      BY <3>1 DEF Attended
  <2>2. CASE ~(driver.ok /\ ~driver.cancelled)
    BY <1>10, <2>2 DEF DriverRelease, GaveUp, NoDriver, Attended
  <2>. QED
    BY <2>1, <2>2
<1>11. CASE DriverRecheck
  <2>1. UNCHANGED queues /\ UNCHANGED <<paused, user>> /\ WakeDriver(deferred)
    BY <1>11 DEF DriverRecheck
  <2>2. paused \/ driver'.pc # "off" \/ deferred # 0 \/ user = "turn"
    BY <1>3, <2>1, WakeAttends
  <2>3. deferred # 0 => user # "idle"
    BY <1>0 DEF OwnerInv
  <2>. QED
    BY <2>1, <2>2, <2>3 DEF Attended
<1>12. CASE Prompt \/ BeginFresh
  BY <1>12 DEF Prompt, BeginFresh, Attended
<1>13. CASE DropBarrier
  <2>1. UNCHANGED queues /\ paused' = paused /\ user = "joining" /\ WakeDriver(deferred - 1)
    BY <1>13 DEF DropBarrier
  <2>2. deferred - 1 = 0
    BY <1>0, <2>1 DEF OwnerInv
  <2>3. WakeDriver(0)
    BY <2>1, <2>2
  <2>4. paused \/ driver'.pc # "off" \/ user = "turn"
    BY <1>3, <2>1, <2>3, WakeAttends
  <2>. QED
    BY <2>1, <2>4 DEF Attended
<1>14. CASE RefuseOpening \/ FailRequest \/ CancelTurn \/ (\E m \in Message : CancelInbox(m)) \/ RecallHumanMessages
  <2>1. UNCHANGED <<paused, driver, recheck, user, sub>>
    BY <1>14 DEF RefuseOpening, FailRequest, CancelTurn, CancelInbox, RecallHumanMessages
  <2>2. NextWakeable # NoMessage
    <3>1. CASE UNCHANGED queues
      BY <1>3, <3>1
    <3>2. CASE \E S \in SUBSET Pending : Remove(S)
      BY <1>0, <3>2, RemoveWakesNothing
    <3>3. UNCHANGED queues \/ \E S \in SUBSET Pending : Remove(S)
      BY <1>14 DEF RefuseOpening, FailRequest, CancelTurn, CancelInbox, RecallHumanMessages
    <3>. QED
      BY <3>1, <3>2, <3>3
  <2>. QED
    BY <1>1, <1>2, <2>1, <2>2
<1>15. CASE CrashAndResume
  <2>1. driver' = [NoDriver EXCEPT !.pc = "picking"] \/ driver' = GaveUp
    BY <1>3, <1>15 DEF CrashAndResume
  <2>. QED
    BY <2>1 DEF NoDriver, GaveUp, Attended
<1>16. CASE CancelDriver
  <2>1. driver'.pc = driver.pc /\ driver.pc # "off"
    BY <1>0, <1>16 DEF CancelDriver, Driver
  <2>. QED
    BY <2>1 DEF Attended
<1>. QED
  BY <1>4, <1>5, <1>6, <1>7, <1>8, <1>9, <1>10, <1>11, <1>12, <1>13, <1>14, <1>15, <1>16 DEF Next, TurnStep,
         DriverStep

\* Every step that does not straddle preserves both invariants.
LEMMA WakeInvStep ==
    ASSUME Foreground
    PROVE  InboxInv /\ WakeInv /\ [Next /\ ~Straddling]_vars => InboxInv' /\ WakeInv'
<1>1. ASSUME InboxInv, WakeInv, Next, ~Straddling
      PROVE  InboxInv' /\ WakeInv'
  BY <1>1, InboxInvStep, AttendedStep, BusyStep DEF WakeInv
<1>2. ASSUME InboxInv, WakeInv, UNCHANGED vars
      PROVE  InboxInv' /\ WakeInv'
  <2>1. InboxInv'
    BY <1>2, InboxInvStep
  <2>2. NextWakeable' = NextWakeable /\ Attended' = Attended /\ Active' = Active /\ sub' = sub
    BY <1>2 DEF vars, NextWakeable, Attended, Active
  <2>. QED
    BY <1>2, <2>1, <2>2 DEF WakeInv
<1>. QED
  BY <1>1, <1>2

\* No message is left behind: where the prompting host holds an InboxWakeBarrier and no
\* submission that saw a turn straddles its end, everything at rest means that nothing
\* wakeable is queued.  Neither hypothesis can be dropped.
THEOREM NothingEverStranded ==
    ASSUME Foreground
    PROVE  PromptSpec => []NothingStranded
<1>1. Init => InboxInv /\ WakeInv
  <2>1. Init => InboxInv
    BY InboxInvInit
  <2>2. ASSUME Init PROVE WakeInv
    BY <2>2 DEF Init, WakeInv, NextWakeable, Elems
  <2>. QED
    BY <2>1, <2>2
<1>2. InboxInv /\ WakeInv /\ [Next /\ ~Straddling]_vars => InboxInv' /\ WakeInv'
  BY WakeInvStep
<1>3. InboxInv /\ WakeInv => NothingStranded
  <2>. SUFFICES ASSUME InboxInv, WakeInv, AtRest, NextWakeable # NoMessage
                PROVE  FALSE
    BY DEF NothingStranded
  <2>1. Attended
    BY DEF WakeInv
  <2>. QED
    BY <2>1 DEF AtRest, Attended
<1>. QED
  BY <1>1, <1>2, <1>3, PTL DEF PromptSpec

-----------------------------------------------------------------------------
(* The inbox is a mailbox                                                  *)

\* Every step is one of a mailbox, or none.
LEMMA MailStep ==
    ASSUME InboxInv, [Next]_vars
    PROVE  [Mail!Next]_Fate
<1>0. /\ TypeOK /\ (\A m \in Message : MessageInv(m)) /\ Pending \subseteq Message
      /\ nextTurn \in Seq(Message) /\ nextStep \in Seq(Message) /\ claimed \in [Message -> Nat]
  BY PendingType DEF InboxInv, TypeOK
<1>. DEFINE F == Fate
            G == Fate'
<1>1. \A m \in Message : F[m] = CASE m \in Pending -> "pending"
                                  [] m \notin Pending /\ claimed[m] > 0 -> "admitted"
                                  [] m \notin Pending /\ claimed[m] = 0 /\ m \in canceled -> "withdrawn"
                                  [] OTHER -> IF m \in inserted THEN "lost" ELSE "absent"
  BY DEF Fate
<1>2. \A m \in Message : G[m] = CASE m \in Pending' -> "pending"
                                  [] m \notin Pending' /\ claimed'[m] > 0 -> "admitted"
                                  [] m \notin Pending' /\ claimed'[m] = 0 /\ m \in canceled' -> "withdrawn"
                                  [] OTHER -> IF m \in inserted' THEN "lost" ELSE "absent"
  BY DEF Fate
<1>3. F = [m \in Message |-> F[m]] /\ G = [m \in Message |-> G[m]]
  BY DEF Fate
<1>. HIDE DEF F, G
<1>4. \A m \in Message : /\ m \in Pending <=> F[m] = "pending"
                         /\ m \notin inserted => F[m] = "absent"
  BY <1>0, <1>1 DEF MessageInv
<1>5. ASSUME NEW k \in Message, Insert(k), k \notin inserted
      PROVE  Mail!Submit(k)
  <2>1. /\ claimed' = claimed /\ canceled' = canceled /\ inserted' = inserted \union {k}
        /\ Pending' = Pending \union {k}
    <3>1. CASE Delivery[k] = "follow_up"
      BY <1>0, <1>5, <3>1, AppendElems DEF Insert, Pending
    <3>2. CASE Delivery[k] # "follow_up"
      BY <1>0, <1>5, <3>2, AppendElems DEF Insert, Pending
    <3>. QED
      BY <1>5, <3>1, <3>2 DEF Insert
  <2>2. G[k] = "pending"
    BY <1>2, <2>1
  <2>3. \A m \in Message : m # k => G[m] = F[m]
    BY <1>1, <1>2, <2>1
  <2>4. G = [F EXCEPT ![k] = "pending"]
    BY <1>3, <2>2, <2>3
  <2>5. F[k] = "absent"
    BY <1>4, <1>5
  <2>. QED
    BY <2>4, <2>5 DEF Mail!Submit, F, G
<1>6. ASSUME NEW k \in Pending, Claim(k)
      PROVE  k \in Message /\ Mail!Admit(k)
  <2>1. /\ canceled' = canceled /\ inserted' = inserted /\ Pending' = Pending \ {k}
        /\ claimed' = [claimed EXCEPT ![k] = @ + 1]
    BY <1>0, <1>6, WithoutType DEF Claim, Pending
  <2>2. k \in Message /\ claimed[k] \in Nat /\ claimed'[k] = claimed[k] + 1 /\ claimed'[k] > 0
    BY <1>0, <2>1
  <2>3. G[k] = "admitted"
    BY <1>2, <2>1, <2>2
  <2>4. ASSUME NEW m \in Message, m # k
        PROVE  G[m] = F[m]
    <3>1. claimed'[m] = claimed[m]
      BY <1>0, <2>1, <2>4
    <3>2. /\ m \in Pending' <=> m \in Pending
          /\ m \in canceled' <=> m \in canceled
          /\ m \in inserted' <=> m \in inserted
      BY <2>1, <2>4
    <3>. QED
      BY <1>1, <1>2, <3>1, <3>2
  <2>5. G = [F EXCEPT ![k] = "admitted"]
    BY <1>3, <2>2, <2>3, <2>4
  <2>6. F[k] = "pending"
    BY <1>4, <2>2
  <2>. QED
    BY <2>2, <2>5, <2>6 DEF Mail!Admit, Mail!Waiting, F, G
<1>7. ASSUME NEW S \in SUBSET Pending, Remove(S)
      PROVE  S \in SUBSET Message /\ Mail!Withdraw(S)
  <2>1. /\ canceled' = canceled \union S /\ inserted' = inserted /\ claimed' = claimed
        /\ Pending' = Pending \ S
    BY <1>0, <1>7, WithoutType DEF Remove, Pending
  <2>2. \A m \in S : m \in Message /\ claimed[m] = 0 /\ F[m] = "pending"
    BY <1>0, <1>4 DEF MessageInv
  <2>3. \A m \in Message : G[m] = IF m \in S THEN "withdrawn" ELSE F[m]
    BY <1>1, <1>2, <2>1, <2>2
  <2>4. G = [m \in Message |-> IF m \in S THEN "withdrawn" ELSE F[m]]
    BY <1>3, <2>3
  <2>. QED
    BY <2>2, <2>4 DEF Mail!Withdraw, Mail!Waiting, F, G
<1>8. ASSUME UNCHANGED queues
      PROVE  UNCHANGED Fate
  BY <1>8 DEF queues, Fate, Pending
<1>9. CASE Next
  <2>1. QueueStep
    BY <1>9, QueueSteps
  <2>. QED
    BY <1>5, <1>6, <1>7, <1>8, <2>1 DEF QueueStep, Mail!Next
<1>10. CASE UNCHANGED vars
  BY <1>8, <1>10 DEF vars, queues
<1>. QED
  BY <1>9, <1>10

\* The durable inbox implements the mailbox: what the log accepted is queued until it is
\* admitted or withdrawn, once and for good, through every splice of append_inbox_claim,
\* cancel_inbox, recall_human_messages and drain_next_step and every replay.
THEOREM InboxIsMailbox == Spec => ImplementsMailbox
<1>1. Init => Mail!Init
  <2>. SUFFICES ASSUME Init PROVE Mail!Init
    OBVIOUS
  <2>1. Pending = {} /\ inserted = {} /\ canceled = {} /\ claimed = [m \in Message |-> 0]
    BY DEF Init, Pending, Elems
  <2>2. \A m \in Message : claimed[m] = 0
    BY <2>1
  <2>. QED
    BY <2>1, <2>2 DEF Fate, Mail!Init
<1>2. InboxInv /\ [Next]_vars => [Mail!Next]_Fate
  BY MailStep
<1>. QED
  BY <1>1, <1>2, InboxInvariant, PTL DEF Spec, ImplementsMailbox, Mail!Spec
=============================================================================
