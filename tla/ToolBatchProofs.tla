--------------------------- MODULE ToolBatchProofs ---------------------------
(***************************************************************************)
(* Proofs about ToolBatch for every number of calls, every ceiling and any *)
(* number of failed appends and registry changes.                          *)
(***************************************************************************)
EXTENDS ToolBatch, TLAPS, FiniteSetTheorems

-----------------------------------------------------------------------------
(* The log and the executing set                                           *)

\* One line is added at the end of the log.
LogGrows(l) ==
    /\ log' \in Seq(LogLine)
    /\ Len(log') = Len(log) + 1
    /\ \A k \in 1..Len(log) : log'[k] = log[k]
    /\ log'[Len(log) + 1] = l

\* Appending to the session adds one line and changes no earlier one.
LEMMA AppendLine ==
    ASSUME NEW l \in LogLine, TypeOK, log' = Append(log, l)
    PROVE  LogGrows(l)
BY DEF TypeOK, LogGrows

\* A tool/call line keeps the shape of the log.
LEMMA CallLogged ==
    ASSUME BatchInv, NEW x, LogGrows(CallLine(x)), announced' = announced + 1, committed' = committed,
           InLoop' => InLoop
    PROVE  LogInv'
<1>1. Len(log') = announced' + committed'
  BY DEF BatchInv, TypeOK, LogInv, LogGrows
<1>2. ASSUME NEW k \in 1..Len(log')
      PROVE  /\ log'[k].what # "call" => log'[k].call <= committed'
             /\ InLoop' => log'[k].what # "notstarted"
  <2>1. CASE k = Len(log) + 1
    BY <2>1 DEF LogGrows, CallLine
  <2>2. CASE k \in 1..Len(log)
    <3>1. log'[k] = log[k]
      BY <2>2 DEF LogGrows
    <3> QED BY <2>2, <3>1 DEF BatchInv, LogInv
  <2> QED BY <2>1, <2>2 DEF LogGrows, BatchInv, TypeOK
<1> QED BY <1>1, <1>2 DEF LogInv

\* Only declared calls execute, so they can be counted.
LEMMA ExecutingFinite ==
    ASSUME TypeOK
    PROVE  IsFiniteSet(executing) /\ Cardinality(executing) \in Nat
<1>1. IsFiniteSet(1..N)
  BY NAssumption, FS_Interval
<1>2. IsFiniteSet(executing)
  BY <1>1, FS_Subset DEF TypeOK, Call
<1> QED BY <1>2, FS_CardinalityType

-----------------------------------------------------------------------------
(* The invariant holds at first and is kept by every action                *)

\* A fresh batch: nothing begun, nothing logged.
LEMMA InitInv == Init => BatchInv
<1> SUFFICES ASSUME Init PROVE BatchInv
  OBVIOUS
<1>1. TypeOK
  <2>1. slots \in [Call -> Outcome \union {"none"}] /\ log \in Seq(LogLine)
    BY DEF Init
  <2>2. withdrawn \in BOOLEAN /\ barrier \in BOOLEAN /\ cancelled \in BOOLEAN /\ failed \in BOOLEAN
    BY DEF Init
  <2> QED BY <2>1, <2>2, NAssumption DEF Init, TypeOK, Pc
<1>2. CeilingInv
  BY FS_EmptySet, MaxParallelAssumption DEF Init, CeilingInv
<1>3. LogInv /\ HonestResults
  BY DEF Init, LogInv, HonestResults
<1>4. CursorInv /\ SlotInv /\ AdmissionInv /\ DecidedInv
  BY <1>1, NAssumption DEF Init, TypeOK, CursorInv, SlotInv, AdmissionInv, DecidedInv, HeadKnown, Call
<1>5. BarrierInv /\ CancelInv /\ ClosingInv
  BY DEF Init, BarrierInv, CancelInv, ClosingInv, Closing
<1> QED BY <1>1, <1>2, <1>3, <1>4, <1>5 DEF BatchInv

\* A call begins.
LEMMA StartStep ==
    ASSUME BatchInv, Start
    PROVE  BatchInv'
<1>0. \/ /\ announced = committed
         /\ announced' = announced + 1
         /\ LogGrows(CallLine(announced + 1))
      \/ announced # committed /\ UNCHANGED <<announced, log>>
  <2>1. CASE announced = committed
    <3>1. CallLine(announced + 1) \in LogLine
      BY <2>1, NAssumption DEF BatchInv, TypeOK, CursorInv, InLoop, Start, MayStart, CallLine, LogLine, Call
    <3> QED BY <2>1, <3>1, AppendLine DEF BatchInv, Start
  <2>2. CASE announced # committed
    BY <2>2 DEF Start
  <2> QED BY <2>1, <2>2
<1>1. TypeOK'
  <2>1. withdrawn' \in BOOLEAN
    BY DEF Start
  <2>2. log' \in Seq(LogLine)
    BY <1>0 DEF BatchInv, TypeOK, LogGrows
  <2>3. started' \in 0..N /\ announced' \in 0..N /\ announced' \in {committed', committed' + 1}
    BY <1>0, NAssumption DEF BatchInv, TypeOK, CursorInv, InLoop, Start, MayStart
  <2>4. admitting' \in 0..N /\ pc' \in Pc
    BY NAssumption DEF BatchInv, TypeOK, Pc, Start, MayStart
  <2> QED BY <2>1, <2>2, <2>3, <2>4 DEF BatchInv, TypeOK, Start
<1>2. CursorInv'
  BY NAssumption DEF BatchInv, TypeOK, Call, CursorInv, InLoop, HeadKnown, Start, MayStart
<1>3. SlotInv'
  BY NAssumption DEF BatchInv, TypeOK, Call, SlotInv, InLoop, Start, MayStart
<1>4. AdmissionInv'
  BY NAssumption DEF BatchInv, TypeOK, Call, AdmissionInv, Start, MayStart, SlotInv,
    CursorInv, InLoop
<1>5. DecidedInv'
  BY NAssumption DEF BatchInv, TypeOK, Call, DecidedInv, InLoop, Start, MayStart, SlotInv,
    AdmissionInv
<1>6. LogInv'
  <2>1. committed' = committed /\ (InLoop' => InLoop)
    BY DEF Start, InLoop
  <2>2. CASE UNCHANGED <<announced, log>>
    BY <2>1, <2>2 DEF BatchInv, LogInv
  <2> QED BY <1>0, <2>1, <2>2, CallLogged
<1>7. BarrierInv'
  BY NAssumption DEF BatchInv, TypeOK, Call, BarrierInv, Start, MayStart, SlotInv,
    AdmissionInv, CursorInv, InLoop
<1>8. CancelInv'
  BY NAssumption DEF BatchInv, TypeOK, Call, CancelInv, Start, MayStart
<1>9. CeilingInv'
  BY NAssumption DEF BatchInv, TypeOK, Call, CeilingInv, Start, MayStart
<1>10. ClosingInv'
  BY NAssumption DEF BatchInv, TypeOK, Call, ClosingInv, Closing, Start, MayStart
<1>11. HonestResults'
    BY <1>0, NAssumption DEF BatchInv, TypeOK, HonestResults, Start, LogGrows, CallLine
<1> QED BY <1>1, <1>2, <1>3, <1>4, <1>5, <1>6, <1>7, <1>8, <1>9, <1>10, <1>11 DEF BatchInv

\* A call begins and its tool/call cannot be appended.
LEMMA StartFailsStep ==
    ASSUME BatchInv, StartFails
    PROVE  BatchInv'
<1>1. TypeOK'
  BY NAssumption DEF BatchInv, TypeOK, Call, Pc, StartFails, MayStart, RecordFailure,
    Withdraw, CancelAll
<1>2. CursorInv'
  BY NAssumption DEF BatchInv, TypeOK, Call, CursorInv, InLoop, HeadKnown, StartFails,
    MayStart, RecordFailure, Withdraw, CancelAll
<1>3. SlotInv'
  BY NAssumption DEF BatchInv, TypeOK, Call, SlotInv, InLoop, StartFails, MayStart,
    RecordFailure, Withdraw, CancelAll
<1>4. AdmissionInv'
  BY NAssumption DEF BatchInv, TypeOK, Call, AdmissionInv, StartFails, MayStart,
    RecordFailure, Withdraw, CancelAll
<1>5. DecidedInv'
  BY NAssumption DEF BatchInv, TypeOK, Call, DecidedInv, InLoop, StartFails, MayStart,
    RecordFailure, Withdraw, CancelAll
<1>6. LogInv'
  BY NAssumption DEF BatchInv, TypeOK, Call, LogInv, InLoop, StartFails, MayStart,
    RecordFailure, Withdraw, CancelAll
<1>7. BarrierInv'
  BY NAssumption DEF BatchInv, TypeOK, Call, BarrierInv, StartFails, MayStart, RecordFailure,
    Withdraw, CancelAll
<1>8. CancelInv'
  BY NAssumption DEF BatchInv, TypeOK, Call, CancelInv, StartFails, MayStart, RecordFailure,
    Withdraw, CancelAll
<1>9. CeilingInv'
  BY NAssumption DEF BatchInv, TypeOK, Call, CeilingInv, StartFails, MayStart, RecordFailure,
    Withdraw, CancelAll
<1>10. ClosingInv'
  BY NAssumption DEF BatchInv, TypeOK, Call, ClosingInv, Closing, StartFails, MayStart,
    RecordFailure, Withdraw, CancelAll
<1>11. HonestResults'
  BY NAssumption DEF BatchInv, TypeOK, Call, HonestResults, StartFails, MayStart,
    RecordFailure, Withdraw, CancelAll
<1> QED BY <1>1, <1>2, <1>3, <1>4, <1>5, <1>6, <1>7, <1>8, <1>9, <1>10, <1>11 DEF BatchInv

\* Nothing can begin: the loop waits, or ends with nothing in flight.
LEMMA WaitStep ==
    ASSUME BatchInv, Wait
    PROVE  BatchInv'
<1>1. TypeOK'
  BY NAssumption DEF BatchInv, TypeOK, Call, Pc, Wait, MayStart, cursor, work
<1>2. CursorInv'
  BY NAssumption DEF BatchInv, TypeOK, Call, CursorInv, InLoop, HeadKnown, Wait, MayStart,
    cursor, work
<1>3. SlotInv'
  BY NAssumption DEF BatchInv, TypeOK, Call, SlotInv, InLoop, Wait, MayStart, cursor, work
<1>4. AdmissionInv'
  BY NAssumption DEF BatchInv, TypeOK, Call, AdmissionInv, Wait, MayStart, cursor, work
<1>5. DecidedInv'
  BY NAssumption DEF BatchInv, TypeOK, Call, DecidedInv, InLoop, Wait, MayStart, cursor, work
<1>6. LogInv'
  BY NAssumption DEF BatchInv, TypeOK, Call, LogInv, InLoop, Wait, MayStart, cursor, work
<1>7. BarrierInv'
  BY NAssumption DEF BatchInv, TypeOK, Call, BarrierInv, Wait, MayStart, cursor, work
<1>8. CancelInv'
  BY NAssumption DEF BatchInv, TypeOK, Call, CancelInv, Wait, MayStart, cursor, work
<1>9. CeilingInv'
  BY NAssumption DEF BatchInv, TypeOK, Call, CeilingInv, Wait, MayStart, cursor, work
<1>10. ClosingInv'
  <2>1. CASE pc' = "select"
    BY <2>1 DEF ClosingInv, Closing
  <2>2. CASE pc' = "error"
    BY <2>2 DEF Wait, ClosingInv, Closing, work
  <2>3. CASE pc' = "fill"
    <3>1. executing = {} /\ admitting = 0 /\ ~failed /\ ~MayStart /\ pc = "top"
      BY <2>3 DEF Wait
    <3>2. Cardinality(executing) < MaxParallel
      BY <3>1, FS_EmptySet, MaxParallelAssumption
    <3>3. (~cancelled /\ reloads = 0) => ~barrier
      BY <3>1 DEF BatchInv, BarrierInv
    <3>4. ~cancelled => committed = started
      <4> SUFFICES ASSUME ~cancelled, committed < started PROVE FALSE
        BY NAssumption DEF BatchInv, TypeOK, CursorInv, InLoop, Wait
      <4>1. committed + 1 \in Call /\ slots[committed + 1] = "none"
        BY <3>1, NAssumption DEF BatchInv, TypeOK, CursorInv, HeadKnown, Call
      <4> QED BY <3>1, <4>1, NAssumption DEF BatchInv, TypeOK, DecidedInv, InLoop
    <3>5. cancelled \/ reloads > 0 \/ committed = N
      BY <3>1, <3>2, <3>3, <3>4, NAssumption DEF MayStart, BatchInv, TypeOK
    <3> QED BY <2>3, <3>1, <3>5 DEF Wait, ClosingInv, Closing, cursor, work
  <2> QED BY <2>1, <2>2, <2>3 DEF Wait
<1>11. HonestResults'
  BY NAssumption DEF BatchInv, TypeOK, Call, HonestResults, Wait, MayStart, cursor, work
<1> QED BY <1>1, <1>2, <1>3, <1>4, <1>5, <1>6, <1>7, <1>8, <1>9, <1>10, <1>11 DEF BatchInv

\* The driver learns of the cancellation and tells everyone.
LEMMA SeeCancellationStep ==
    ASSUME BatchInv, SeeCancellation
    PROVE  BatchInv'
<1>1. TypeOK'
  BY NAssumption DEF BatchInv, TypeOK, Call, Pc, SeeCancellation, Unseen, Withdraw, CancelAll,
    cursor
<1>2. CursorInv'
  BY NAssumption DEF BatchInv, TypeOK, Call, CursorInv, InLoop, HeadKnown, SeeCancellation,
    Unseen, Withdraw, CancelAll, cursor
<1>3. SlotInv'
  BY NAssumption DEF BatchInv, TypeOK, Call, SlotInv, InLoop, SeeCancellation, Unseen,
    Withdraw, CancelAll, cursor
<1>4. AdmissionInv'
  BY NAssumption DEF BatchInv, TypeOK, Call, AdmissionInv, SeeCancellation, Unseen, Withdraw,
    CancelAll, cursor
<1>5. DecidedInv'
  BY NAssumption DEF BatchInv, TypeOK, Call, DecidedInv, InLoop, SeeCancellation, Unseen,
    Withdraw, CancelAll, cursor
<1>6. LogInv'
  BY NAssumption DEF BatchInv, TypeOK, Call, LogInv, InLoop, SeeCancellation, Unseen,
    Withdraw, CancelAll, cursor
<1>7. BarrierInv'
  BY NAssumption DEF BatchInv, TypeOK, Call, BarrierInv, SeeCancellation, Unseen, Withdraw,
    CancelAll, cursor
<1>8. CancelInv'
  BY NAssumption DEF BatchInv, TypeOK, Call, CancelInv, SeeCancellation, Unseen, Withdraw,
    CancelAll, cursor
<1>9. CeilingInv'
  BY NAssumption DEF BatchInv, TypeOK, Call, CeilingInv, SeeCancellation, Unseen, Withdraw,
    CancelAll, cursor
<1>10. ClosingInv'
  BY NAssumption DEF BatchInv, TypeOK, Call, ClosingInv, Closing, SeeCancellation, Unseen,
    Withdraw, CancelAll, cursor
<1>11. HonestResults'
  BY NAssumption DEF BatchInv, TypeOK, Call, HonestResults, SeeCancellation, Unseen, Withdraw,
    CancelAll, cursor
<1> QED BY <1>1, <1>2, <1>3, <1>4, <1>5, <1>6, <1>7, <1>8, <1>9, <1>10, <1>11 DEF BatchInv

\* A verdict arrives after the cancellation.
LEMMA AdmissionDiscardedStep ==
    ASSUME BatchInv, AdmissionDiscarded
    PROVE  BatchInv'
<1>1. TypeOK'
  <2>1. withdrawn' \in BOOLEAN
    BY DEF AdmissionDiscarded, AdmissionEnds
  <2>2. admitting \in Call
    BY NAssumption DEF BatchInv, TypeOK, Call, AdmissionDiscarded, AdmissionEnds
  <2> QED BY <2>1, <2>2, NAssumption DEF BatchInv, TypeOK, Outcome, Pc, AdmissionDiscarded, AdmissionEnds
<1>2. CursorInv'
  BY NAssumption DEF BatchInv, TypeOK, Call, CursorInv, InLoop, HeadKnown, AdmissionDiscarded,
    AdmissionEnds
<1>3. SlotInv'
  BY NAssumption DEF BatchInv, TypeOK, Call, SlotInv, InLoop, AdmissionDiscarded,
    AdmissionEnds
<1>4. AdmissionInv'
  BY NAssumption DEF BatchInv, TypeOK, Call, AdmissionInv, AdmissionDiscarded, AdmissionEnds
<1>5. DecidedInv'
  BY NAssumption DEF BatchInv, TypeOK, Call, DecidedInv, InLoop, AdmissionDiscarded,
    AdmissionEnds
<1>6. LogInv'
  BY NAssumption DEF BatchInv, TypeOK, Call, LogInv, InLoop, AdmissionDiscarded, AdmissionEnds
<1>7. BarrierInv'
  BY NAssumption DEF BatchInv, TypeOK, Call, BarrierInv, AdmissionDiscarded, AdmissionEnds
<1>8. CancelInv'
  BY NAssumption DEF BatchInv, TypeOK, Call, CancelInv, AdmissionDiscarded, AdmissionEnds
<1>9. CeilingInv'
  BY NAssumption DEF BatchInv, TypeOK, Call, CeilingInv, AdmissionDiscarded, AdmissionEnds
<1>10. ClosingInv'
  BY NAssumption DEF BatchInv, TypeOK, Call, ClosingInv, Closing, AdmissionDiscarded,
    AdmissionEnds
<1>11. HonestResults'
  BY NAssumption DEF BatchInv, TypeOK, Call, HonestResults, AdmissionDiscarded, AdmissionEnds
<1> QED BY <1>1, <1>2, <1>3, <1>4, <1>5, <1>6, <1>7, <1>8, <1>9, <1>10, <1>11 DEF BatchInv

\* A call is refused.
LEMMA RefusedStep ==
    ASSUME BatchInv, Refused
    PROVE  BatchInv'
<1>1. TypeOK'
  <2>1. withdrawn' \in BOOLEAN
    BY DEF Refused, AdmissionEnds
  <2>2. admitting \in Call
    BY NAssumption DEF BatchInv, TypeOK, Call, Refused, AdmissionEnds
  <2> QED BY <2>1, <2>2, NAssumption DEF BatchInv, TypeOK, Outcome, Pc, Refused, AdmissionEnds
<1>2. CursorInv'
  BY NAssumption DEF BatchInv, TypeOK, Call, CursorInv, InLoop, HeadKnown, Refused,
    AdmissionEnds
<1>3. SlotInv'
  BY NAssumption DEF BatchInv, TypeOK, Call, SlotInv, InLoop, Refused, AdmissionEnds,
    AdmissionInv
<1>4. AdmissionInv'
  BY NAssumption DEF BatchInv, TypeOK, Call, AdmissionInv, Refused, AdmissionEnds
<1>5. DecidedInv'
  BY NAssumption DEF BatchInv, TypeOK, Call, DecidedInv, InLoop, Refused, AdmissionEnds
<1>6. LogInv'
  BY NAssumption DEF BatchInv, TypeOK, Call, LogInv, InLoop, Refused, AdmissionEnds
<1>7. BarrierInv'
  BY NAssumption DEF BatchInv, TypeOK, Call, BarrierInv, Refused, AdmissionEnds
<1>8. CancelInv'
  BY NAssumption DEF BatchInv, TypeOK, Call, CancelInv, Refused, AdmissionEnds
<1>9. CeilingInv'
  BY NAssumption DEF BatchInv, TypeOK, Call, CeilingInv, Refused, AdmissionEnds
<1>10. ClosingInv'
  BY NAssumption DEF BatchInv, TypeOK, Call, ClosingInv, Closing, Refused, AdmissionEnds
<1>11. HonestResults'
  BY NAssumption DEF BatchInv, TypeOK, Call, HonestResults, Refused, AdmissionEnds
<1> QED BY <1>1, <1>2, <1>3, <1>4, <1>5, <1>6, <1>7, <1>8, <1>9, <1>10, <1>11 DEF BatchInv

\* A call is approved and launched.
LEMMA ApprovedStep ==
    ASSUME BatchInv, Approved
    PROVE  BatchInv'
<1>1. TypeOK'
  <2>1. withdrawn' \in BOOLEAN /\ barrier' \in BOOLEAN
    BY Zenon DEF Approved, AdmissionEnds
  <2>2. admitting \in Call
    BY NAssumption DEF BatchInv, TypeOK, Call, Approved, AdmissionEnds
  <2> QED BY <2>1, <2>2, NAssumption DEF BatchInv, TypeOK, Pc, Approved, AdmissionEnds
<1>2. CursorInv'
  BY NAssumption DEF BatchInv, TypeOK, Call, CursorInv, InLoop, HeadKnown, Approved,
    AdmissionEnds
<1>3. SlotInv'
  BY NAssumption DEF BatchInv, TypeOK, Call, SlotInv, InLoop, Approved, AdmissionEnds,
    AdmissionInv
<1>4. AdmissionInv'
  BY NAssumption DEF BatchInv, TypeOK, Call, AdmissionInv, Approved, AdmissionEnds
<1>5. DecidedInv'
  BY NAssumption DEF BatchInv, TypeOK, Call, DecidedInv, InLoop, Approved, AdmissionEnds
<1>6. LogInv'
  BY NAssumption DEF BatchInv, TypeOK, Call, LogInv, InLoop, Approved, AdmissionEnds
<1>7. BarrierInv'
  <2>1. CASE admitting \in safe
    <3>1. reloads = 0 => executing \ safe = {}
      BY DEF BatchInv, TypeOK, BarrierInv, AdmissionInv, SlotInv, Approved, AdmissionEnds
    <3> QED BY <2>1, <3>1 DEF BarrierInv, Approved, AdmissionEnds
  <2>2. CASE admitting \notin safe
    <3>1. admitting' = 0 /\ safe' = safe /\ committed' = committed /\ started' = started
      /\ barrier' /\ executing' = executing \union {admitting} /\ admitting # 0 /\ reloads' = reloads
      BY <2>2 DEF Approved, AdmissionEnds
    <3>2. ASSUME reloads = 0
          PROVE  executing' = {admitting} /\ committed = admitting - 1 /\ started = admitting
      BY <2>2, <3>1, <3>2 DEF BatchInv, BarrierInv, AdmissionInv
    <3>3. ASSUME reloads = 0 PROVE \A i \in executing' \ safe' : executing' = {i} /\ committed' = i - 1 /\ started' = i
      BY <3>1, <3>2, <3>3
    <3>4. ASSUME reloads = 0 PROVE executing' \ safe' # {}
      BY <2>2, <3>1, <3>2, <3>4
    <3> QED BY <3>1, <3>3, <3>4 DEF BarrierInv
  <2> QED BY <2>1, <2>2
<1>8. CancelInv'
  BY NAssumption DEF BatchInv, TypeOK, Call, CancelInv, Approved, AdmissionEnds
<1>9. CeilingInv'
  <2>1. /\ Cardinality(executing \union {admitting}) <= Cardinality(executing) + 1
        /\ Cardinality(executing \union {admitting}) \in Nat
    <3>1. TypeOK
      BY DEF BatchInv
    <3>2. IsFiniteSet(executing) /\ Cardinality(executing) \in Nat
      BY <3>1, ExecutingFinite
    <3>3. CASE admitting \in executing
      <4>1. executing \union {admitting} = executing
        BY <3>3
      <4> QED BY <4>1, <3>2
    <3>4. CASE admitting \notin executing
      <4>1. Cardinality(executing \union {admitting}) = Cardinality(executing) + 1
        BY <3>2, <3>4, FS_AddElement
      <4> QED BY <4>1, <3>2
    <3> QED BY <3>3, <3>4
  <2> QED BY <2>1, ExecutingFinite, MaxParallelAssumption DEF BatchInv, CeilingInv, Approved, AdmissionEnds
<1>10. ClosingInv'
  BY NAssumption DEF BatchInv, TypeOK, Call, ClosingInv, Closing, Approved, AdmissionEnds
<1>11. HonestResults'
  BY NAssumption DEF BatchInv, TypeOK, Call, HonestResults, Approved, AdmissionEnds, LogInv,
    AdmissionInv
<1> QED BY <1>1, <1>2, <1>3, <1>4, <1>5, <1>6, <1>7, <1>8, <1>9, <1>10, <1>11 DEF BatchInv

\* A tool finishes.
LEMMA CompletedStep ==
    ASSUME NEW i \in Call, BatchInv, Completed(i)
    PROVE  BatchInv'
<1>1. TypeOK'
  BY NAssumption DEF BatchInv, TypeOK, Call, Pc, Completed, Unseen, Outcome
<1>2. CursorInv'
  BY NAssumption DEF BatchInv, TypeOK, Call, CursorInv, InLoop, HeadKnown, Completed, Unseen
<1>3. SlotInv'
  BY NAssumption DEF BatchInv, TypeOK, Call, SlotInv, InLoop, Completed, Unseen
<1>4. AdmissionInv'
  BY NAssumption DEF BatchInv, TypeOK, Call, AdmissionInv, Completed, Unseen, SlotInv
<1>5. DecidedInv'
  BY NAssumption DEF BatchInv, TypeOK, Call, DecidedInv, InLoop, Completed, Unseen
<1>6. LogInv'
  BY NAssumption DEF BatchInv, TypeOK, Call, LogInv, InLoop, Completed, Unseen
<1>7. BarrierInv'
  BY NAssumption DEF BatchInv, TypeOK, Call, BarrierInv, Completed, Unseen
<1>8. CancelInv'
  BY NAssumption DEF BatchInv, TypeOK, Call, CancelInv, Completed, Unseen
<1>9. CeilingInv'
  <2>1. Cardinality(executing \ {i}) <= Cardinality(executing) /\ Cardinality(executing \ {i}) \in Nat
    BY ExecutingFinite, FS_RemoveElement, FS_CardinalityType, FS_Subset DEF BatchInv
  <2> QED BY <2>1, ExecutingFinite, MaxParallelAssumption DEF BatchInv, CeilingInv, Completed
<1>10. ClosingInv'
  BY NAssumption DEF BatchInv, TypeOK, Call, ClosingInv, Closing, Completed, Unseen
<1>11. HonestResults'
  BY NAssumption DEF BatchInv, TypeOK, Call, HonestResults, Completed, Unseen
<1> QED BY <1>1, <1>2, <1>3, <1>4, <1>5, <1>6, <1>7, <1>8, <1>9, <1>10, <1>11 DEF BatchInv

\* The cursor announces a head that never started.
LEMMA DrainAnnounceStep ==
    ASSUME BatchInv, DrainAnnounce
    PROVE  BatchInv'
<1>0. announced' = announced + 1 /\ LogGrows(CallLine(announced + 1))
  <2>1. CallLine(announced + 1) \in LogLine
    BY NAssumption DEF BatchInv, TypeOK, DrainAnnounce, HeadKnown, CallLine, LogLine, Call
  <2> QED BY <2>1, AppendLine DEF BatchInv, DrainAnnounce
<1>1. TypeOK'
    BY <1>0, NAssumption DEF BatchInv, TypeOK, DrainAnnounce, HeadKnown, LogGrows, work
<1>2. CursorInv'
  BY NAssumption DEF BatchInv, TypeOK, Call, CursorInv, InLoop, HeadKnown, DrainAnnounce,
    InDrain, work, SlotInv
<1>3. SlotInv'
  BY NAssumption DEF BatchInv, TypeOK, Call, SlotInv, InLoop, DrainAnnounce, InDrain,
    HeadKnown, work
<1>4. AdmissionInv'
  BY NAssumption DEF BatchInv, TypeOK, Call, AdmissionInv, DrainAnnounce, InDrain, HeadKnown,
    work
<1>5. DecidedInv'
  BY NAssumption DEF BatchInv, TypeOK, Call, DecidedInv, InLoop, DrainAnnounce, InDrain,
    HeadKnown, work
<1>6. LogInv'
  <2>1. committed' = committed /\ (InLoop' => InLoop)
    BY DEF DrainAnnounce, InLoop
  <2> QED BY <1>0, <2>1, CallLogged
<1>7. BarrierInv'
  BY NAssumption DEF BatchInv, TypeOK, Call, BarrierInv, DrainAnnounce, InDrain, HeadKnown,
    work
<1>8. CancelInv'
  BY NAssumption DEF BatchInv, TypeOK, Call, CancelInv, DrainAnnounce, InDrain, HeadKnown,
    work
<1>9. CeilingInv'
  BY NAssumption DEF BatchInv, TypeOK, Call, CeilingInv, DrainAnnounce, InDrain, HeadKnown,
    work
<1>10. ClosingInv'
  <2>1. committed > 0 => log'[2 * committed] = log[2 * committed]
    BY <1>0 DEF BatchInv, TypeOK, LogInv, LogGrows, DrainAnnounce
  <2> QED BY <2>1 DEF BatchInv, TypeOK, ClosingInv, Closing, DrainAnnounce, InDrain, work
<1>11. HonestResults'
    BY <1>0, NAssumption DEF BatchInv, TypeOK, HonestResults, DrainAnnounce, LogGrows, CallLine, work
<1> QED BY <1>1, <1>2, <1>3, <1>4, <1>5, <1>6, <1>7, <1>8, <1>9, <1>10, <1>11 DEF BatchInv

\* The cursor commits the head.
LEMMA DrainCommitStep ==
    ASSUME BatchInv, DrainCommit
    PROVE  BatchInv'
<1> DEFINE head == committed + 1
<1>0. /\ head \in Call
      /\ slots[head] \in Outcome
      /\ committed' = head
      /\ announced = head
      /\ LogGrows(ResultLine(head, slots[head]))
  <2>1. head \in Call /\ slots[head] \in Outcome /\ committed' = head /\ announced = head
    BY NAssumption DEF BatchInv, TypeOK, DrainCommit, HeadKnown, Call
  <2>2. ResultLine(head, slots[head]) \in LogLine
    BY <2>1 DEF ResultLine, LogLine
  <2> QED BY <2>1, <2>2, AppendLine DEF BatchInv, DrainCommit
<1>1. TypeOK'
  BY NAssumption DEF BatchInv, TypeOK, Call, Pc, DrainCommit, InDrain, HeadKnown, work,
    Outcome, LogLine, ResultLine
<1>2. CursorInv'
  BY NAssumption DEF BatchInv, TypeOK, Call, CursorInv, InLoop, HeadKnown, DrainCommit,
    InDrain, work
<1>3. SlotInv'
  BY NAssumption DEF BatchInv, TypeOK, Call, SlotInv, InLoop, DrainCommit, InDrain, HeadKnown,
    work
<1>4. AdmissionInv'
  BY NAssumption DEF BatchInv, TypeOK, Call, AdmissionInv, DrainCommit, InDrain, HeadKnown,
    work
<1>5. DecidedInv'
  BY NAssumption DEF BatchInv, TypeOK, Call, DecidedInv, InLoop, DrainCommit, InDrain,
    HeadKnown, work
<1>6. LogInv'
  <2>1. Len(log') = announced' + committed'
    BY <1>0 DEF BatchInv, TypeOK, LogInv, LogGrows, DrainCommit
  <2>2. InLoop' => (InLoop /\ slots[head] # "notstarted")
    BY <1>0 DEF BatchInv, SlotInv, InLoop, DrainCommit, InDrain
  <2>3. log'[Len(log) + 1].call = head /\ log'[Len(log) + 1].what = slots[head]
    BY <1>0 DEF LogGrows, ResultLine
  <2>4. ASSUME NEW k \in 1..Len(log'), log'[k].what # "call" PROVE log'[k].call <= committed'
    <3>1. CASE k = Len(log) + 1
      BY <3>1, <2>3, <1>0 DEF Call
    <3>2. CASE k \in 1..Len(log)
      <4>1. log'[k] = log[k] /\ log[k] \in LogLine
        BY <3>2, <1>0 DEF LogGrows, BatchInv, TypeOK
      <4>2. log[k].call <= committed /\ log[k].call \in 1..N
        BY <2>4, <3>2, <4>1 DEF BatchInv, LogInv, LogLine, Call
      <4> QED BY <4>1, <4>2, <1>0, NAssumption DEF BatchInv, TypeOK
    <3> QED BY <3>1, <3>2, <1>0 DEF LogGrows, BatchInv, TypeOK
  <2>5. ASSUME InLoop', NEW k \in 1..Len(log') PROVE log'[k].what # "notstarted"
    <3>1. CASE k = Len(log) + 1
      BY <3>1, <2>2, <2>3, <2>5
    <3>2. CASE k \in 1..Len(log)
      <4>1. log'[k] = log[k]
        BY <3>2, <1>0 DEF LogGrows
      <4> QED BY <2>2, <2>5, <3>2, <4>1 DEF BatchInv, LogInv
    <3> QED BY <3>1, <3>2, <1>0 DEF LogGrows, BatchInv, TypeOK
  <2> QED BY <2>1, <2>4, <2>5 DEF LogInv
<1>7. BarrierInv'
  BY NAssumption DEF BatchInv, TypeOK, Call, BarrierInv, DrainCommit, InDrain, HeadKnown,
    work, SlotInv, AdmissionInv
<1>8. CancelInv'
  BY NAssumption DEF BatchInv, TypeOK, Call, CancelInv, DrainCommit, InDrain, HeadKnown, work
<1>9. CeilingInv'
  BY NAssumption DEF BatchInv, TypeOK, Call, CeilingInv, DrainCommit, InDrain, HeadKnown, work
<1>10. ClosingInv'
  <2>1. pc' \in {"head", "lasthead"} /\ (pc' = "lasthead" => pc = "last") /\ UNCHANGED <<executing, admitting>>
    BY DEF DrainCommit, InDrain, work
  <2>2. slots'[head] = "none" /\ \A i \in Call : i # head => slots'[i] = slots[i]
    BY <1>0 DEF DrainCommit, BatchInv, TypeOK
  <2>3. log'[2 * committed'].what = slots[head]
    BY <1>0 DEF BatchInv, TypeOK, LogInv, LogGrows, ResultLine
  <2>4. ASSUME pc = "last"
        PROVE  /\ \A i \in Call : i > head => slots'[i] # "none"
               /\ \A i, j \in Call : (i < j /\ slots'[i] = "notstarted") => slots'[j] = "notstarted"
               /\ slots[head] = "notstarted" => \A j \in Call : j > head => slots'[j] = "notstarted"
    <3>1. \A i \in Call : i < head => slots[i] = "none"
      BY <1>0 DEF BatchInv, SlotInv, TypeOK, Call
    <3> QED BY <1>0, <2>2, <2>4, <3>1, NAssumption DEF BatchInv, ClosingInv, Closing, TypeOK, Call
  <2> QED BY <1>0, <2>1, <2>3, <2>4 DEF BatchInv, ClosingInv, Closing
<1>11. HonestResults'
  <2>1. /\ slots[head] = "ran" => head \in launched
        /\ slots[head] \in {"refused", "notstarted"} => head \notin launched
        /\ slots[head] = "notstarted" => (cancelled \/ reloads > 0)
    BY <1>0 DEF BatchInv, SlotInv
  <2> QED BY <1>0, <2>1 DEF BatchInv, TypeOK, HonestResults, LogGrows, ResultLine, DrainCommit, work
<1> QED BY <1>1, <1>2, <1>3, <1>4, <1>5, <1>6, <1>7, <1>8, <1>9, <1>10, <1>11 DEF BatchInv

\* The cursor announces the next head.
LEMMA AnnounceHeadStep ==
    ASSUME BatchInv, AnnounceHead
    PROVE  BatchInv'
<1>0. \/ /\ announced = committed
         /\ announced < started
         /\ announced' = announced + 1
         /\ LogGrows(CallLine(announced + 1))
      \/ UNCHANGED <<announced, log>>
  <2>1. CASE announced = committed /\ announced < started
    <3>1. CallLine(announced + 1) \in LogLine
      BY <2>1, NAssumption DEF BatchInv, TypeOK, CallLine, LogLine, Call
    <3> QED BY <2>1, <3>1, AppendLine DEF BatchInv, AnnounceHead
  <2>2. CASE ~(announced = committed /\ announced < started)
    BY <2>2 DEF AnnounceHead
  <2> QED BY <2>1, <2>2
<1>1. TypeOK'
  <2>1. log' \in Seq(LogLine) /\ announced' \in 0..N /\ announced' \in {committed', committed' + 1}
    BY <1>0, NAssumption DEF BatchInv, TypeOK, LogGrows, AnnounceHead
  <2>2. pc' \in Pc
    BY DEF AnnounceHead, Pc
  <2> QED BY <2>1, <2>2 DEF BatchInv, TypeOK, AnnounceHead, work
<1>2. CursorInv'
  BY NAssumption DEF BatchInv, TypeOK, Call, CursorInv, InLoop, HeadKnown, AnnounceHead, work
<1>3. SlotInv'
  BY NAssumption DEF BatchInv, TypeOK, Call, SlotInv, InLoop, AnnounceHead, work
<1>4. AdmissionInv'
  BY NAssumption DEF BatchInv, TypeOK, Call, AdmissionInv, AnnounceHead, work
<1>5. DecidedInv'
  BY NAssumption DEF BatchInv, TypeOK, Call, DecidedInv, InLoop, AnnounceHead, work
<1>6. LogInv'
  <2>1. committed' = committed /\ (InLoop' => InLoop)
    BY DEF AnnounceHead, InLoop
  <2>2. CASE UNCHANGED <<announced, log>>
    BY <2>1, <2>2 DEF BatchInv, LogInv
  <2> QED BY <1>0, <2>1, <2>2, CallLogged
<1>7. BarrierInv'
  BY NAssumption DEF BatchInv, TypeOK, Call, BarrierInv, AnnounceHead, work
<1>8. CancelInv'
  BY NAssumption DEF BatchInv, TypeOK, Call, CancelInv, AnnounceHead, work
<1>9. CeilingInv'
  BY NAssumption DEF BatchInv, TypeOK, Call, CeilingInv, AnnounceHead, work
<1>10. ClosingInv'
  <2>1. committed > 0 => log'[2 * committed] = log[2 * committed]
    BY <1>0 DEF BatchInv, TypeOK, LogInv, LogGrows
  <2>2. pc' \in {"drain", "last"} /\ (pc' = "last" => pc = "lasthead")
    BY DEF AnnounceHead
  <2> QED BY <2>1, <2>2 DEF BatchInv, ClosingInv, Closing, AnnounceHead, work
<1>11. HonestResults'
    BY <1>0, NAssumption DEF BatchInv, TypeOK, HonestResults, AnnounceHead, LogGrows, CallLine, work
<1> QED BY <1>1, <1>2, <1>3, <1>4, <1>5, <1>6, <1>7, <1>8, <1>9, <1>10, <1>11 DEF BatchInv

\* An append of the drain fails.
LEMMA DrainFailsStep ==
    ASSUME BatchInv, DrainFails
    PROVE  BatchInv'
<1>1. TypeOK'
  <2>0. slots' \in [Call -> Outcome \union {"none"}]
    BY DEF BatchInv, TypeOK, DrainFails
  <2>1. CASE pc = "drain"
    <3>1. RecordFailure
      BY <2>1 DEF DrainFails
    <3>2. withdrawn' \in BOOLEAN /\ failed' \in BOOLEAN /\ cancelled' \in BOOLEAN
      BY <3>1 DEF RecordFailure, Withdraw, BatchInv, TypeOK
    <3> QED BY <2>0, <3>1, <3>2, NAssumption DEF BatchInv, TypeOK, Pc, DrainFails, RecordFailure, CancelAll
  <2>2. CASE pc # "drain"
    BY <2>0, <2>2, NAssumption DEF BatchInv, TypeOK, Pc, DrainFails, ReturnFailure, work
  <2> QED BY <2>1, <2>2
<1>2. CursorInv'
  BY NAssumption DEF BatchInv, TypeOK, Call, CursorInv, InLoop, HeadKnown, DrainFails,
    InDrain, RecordFailure, ReturnFailure, Withdraw, CancelAll, work
<1>3. SlotInv'
  BY NAssumption DEF BatchInv, TypeOK, Call, SlotInv, InLoop, DrainFails, InDrain, HeadKnown,
    RecordFailure, ReturnFailure, Withdraw, CancelAll, work
<1>4. AdmissionInv'
  BY NAssumption DEF BatchInv, TypeOK, Call, AdmissionInv, DrainFails, InDrain, HeadKnown,
    RecordFailure, ReturnFailure, Withdraw, CancelAll, work
<1>5. DecidedInv'
  BY NAssumption DEF BatchInv, TypeOK, Call, DecidedInv, InLoop, DrainFails, InDrain,
    HeadKnown, RecordFailure, ReturnFailure, Withdraw, CancelAll, work
<1>6. LogInv'
  BY NAssumption DEF BatchInv, TypeOK, Call, LogInv, InLoop, DrainFails, InDrain, HeadKnown,
    RecordFailure, ReturnFailure, Withdraw, CancelAll, work
<1>7. BarrierInv'
  BY NAssumption DEF BatchInv, TypeOK, Call, BarrierInv, DrainFails, InDrain, HeadKnown,
    RecordFailure, ReturnFailure, Withdraw, CancelAll, work
<1>8. CancelInv'
  BY NAssumption DEF BatchInv, TypeOK, Call, CancelInv, DrainFails, InDrain, HeadKnown,
    RecordFailure, ReturnFailure, Withdraw, CancelAll, work
<1>9. CeilingInv'
  BY NAssumption DEF BatchInv, TypeOK, Call, CeilingInv, DrainFails, InDrain, HeadKnown,
    RecordFailure, ReturnFailure, Withdraw, CancelAll, work
<1>10. ClosingInv'
  BY NAssumption DEF BatchInv, TypeOK, Call, ClosingInv, Closing, DrainFails, InDrain,
    HeadKnown, RecordFailure, ReturnFailure, Withdraw, CancelAll, work
<1>11. HonestResults'
  BY NAssumption DEF BatchInv, TypeOK, Call, HonestResults, DrainFails, InDrain, HeadKnown,
    RecordFailure, ReturnFailure, Withdraw, CancelAll, work
<1> QED BY <1>1, <1>2, <1>3, <1>4, <1>5, <1>6, <1>7, <1>8, <1>9, <1>10, <1>11 DEF BatchInv

\* The announcement of the next head fails.
LEMMA AnnounceHeadFailsStep ==
    ASSUME BatchInv, AnnounceHeadFails
    PROVE  BatchInv'
<1>1. TypeOK'
  <2>1. CASE pc = "head"
    <3>1. RecordFailure
      BY <2>1 DEF AnnounceHeadFails
    <3>2. withdrawn' \in BOOLEAN /\ failed' \in BOOLEAN /\ cancelled' \in BOOLEAN
      BY <3>1 DEF RecordFailure, Withdraw, BatchInv, TypeOK
    <3> QED BY <3>1, <3>2, NAssumption DEF BatchInv, TypeOK, Pc, AnnounceHeadFails, RecordFailure, CancelAll, cursor
  <2>2. CASE pc # "head"
    BY <2>2, NAssumption DEF BatchInv, TypeOK, Pc, AnnounceHeadFails, ReturnFailure, work, cursor
  <2> QED BY <2>1, <2>2
<1>2. CursorInv'
  BY NAssumption DEF BatchInv, TypeOK, Call, CursorInv, InLoop, HeadKnown, AnnounceHeadFails,
    RecordFailure, ReturnFailure, Withdraw, CancelAll, cursor, work
<1>3. SlotInv'
  BY NAssumption DEF BatchInv, TypeOK, Call, SlotInv, InLoop, AnnounceHeadFails,
    RecordFailure, ReturnFailure, Withdraw, CancelAll, cursor, work
<1>4. AdmissionInv'
  BY NAssumption DEF BatchInv, TypeOK, Call, AdmissionInv, AnnounceHeadFails, RecordFailure,
    ReturnFailure, Withdraw, CancelAll, cursor, work
<1>5. DecidedInv'
  BY NAssumption DEF BatchInv, TypeOK, Call, DecidedInv, InLoop, AnnounceHeadFails,
    RecordFailure, ReturnFailure, Withdraw, CancelAll, cursor, work
<1>6. LogInv'
  BY NAssumption DEF BatchInv, TypeOK, Call, LogInv, InLoop, AnnounceHeadFails, RecordFailure,
    ReturnFailure, Withdraw, CancelAll, cursor, work
<1>7. BarrierInv'
  BY NAssumption DEF BatchInv, TypeOK, Call, BarrierInv, AnnounceHeadFails, RecordFailure,
    ReturnFailure, Withdraw, CancelAll, cursor, work
<1>8. CancelInv'
  BY NAssumption DEF BatchInv, TypeOK, Call, CancelInv, AnnounceHeadFails, RecordFailure,
    ReturnFailure, Withdraw, CancelAll, cursor, work
<1>9. CeilingInv'
  BY NAssumption DEF BatchInv, TypeOK, Call, CeilingInv, AnnounceHeadFails, RecordFailure,
    ReturnFailure, Withdraw, CancelAll, cursor, work
<1>10. ClosingInv'
  BY NAssumption DEF BatchInv, TypeOK, Call, ClosingInv, Closing, AnnounceHeadFails,
    RecordFailure, ReturnFailure, Withdraw, CancelAll, cursor, work
<1>11. HonestResults'
  BY NAssumption DEF BatchInv, TypeOK, Call, HonestResults, AnnounceHeadFails, RecordFailure,
    ReturnFailure, Withdraw, CancelAll, cursor, work
<1> QED BY <1>1, <1>2, <1>3, <1>4, <1>5, <1>6, <1>7, <1>8, <1>9, <1>10, <1>11 DEF BatchInv

\* The drain meets a gap or the end.
LEMMA DrainEndsStep ==
    ASSUME BatchInv, DrainEnds
    PROVE  BatchInv'
<1>1. TypeOK'
  BY NAssumption DEF BatchInv, TypeOK, Call, Pc, DrainEnds, HeadKnown, cursor, work
<1>2. CursorInv'
  BY NAssumption DEF BatchInv, TypeOK, Call, CursorInv, InLoop, HeadKnown, DrainEnds, cursor,
    work
<1>3. SlotInv'
  BY NAssumption DEF BatchInv, TypeOK, Call, SlotInv, InLoop, DrainEnds, HeadKnown, cursor,
    work
<1>4. AdmissionInv'
  BY NAssumption DEF BatchInv, TypeOK, Call, AdmissionInv, DrainEnds, HeadKnown, cursor, work
<1>5. DecidedInv'
  BY NAssumption DEF BatchInv, TypeOK, Call, DecidedInv, InLoop, DrainEnds, HeadKnown, cursor,
    work
<1>6. LogInv'
  BY NAssumption DEF BatchInv, TypeOK, Call, LogInv, InLoop, DrainEnds, HeadKnown, cursor,
    work
<1>7. BarrierInv'
  BY NAssumption DEF BatchInv, TypeOK, Call, BarrierInv, DrainEnds, HeadKnown, cursor, work
<1>8. CancelInv'
  BY NAssumption DEF BatchInv, TypeOK, Call, CancelInv, DrainEnds, HeadKnown, cursor, work
<1>9. CeilingInv'
  BY NAssumption DEF BatchInv, TypeOK, Call, CeilingInv, DrainEnds, HeadKnown, cursor, work
<1>10. ClosingInv'
  BY NAssumption DEF BatchInv, TypeOK, Call, ClosingInv, Closing, DrainEnds, HeadKnown,
    cursor, work
<1>11. HonestResults'
  BY NAssumption DEF BatchInv, TypeOK, Call, HonestResults, DrainEnds, HeadKnown, cursor, work
<1> QED BY <1>1, <1>2, <1>3, <1>4, <1>5, <1>6, <1>7, <1>8, <1>9, <1>10, <1>11 DEF BatchInv

\* The calls left are marked as never started.
LEMMA FillStep ==
    ASSUME BatchInv, Fill
    PROVE  BatchInv'
<1>1. TypeOK'
  BY NAssumption DEF BatchInv, TypeOK, Call, Pc, Fill, work, Outcome
<1>2. CursorInv'
  BY NAssumption DEF BatchInv, TypeOK, Call, CursorInv, InLoop, HeadKnown, Fill, work
<1>3. SlotInv'
  BY NAssumption DEF BatchInv, TypeOK, Call, SlotInv, InLoop, Fill, work, DecidedInv,
    ClosingInv
<1>4. AdmissionInv'
  BY NAssumption DEF BatchInv, TypeOK, Call, AdmissionInv, Fill, work, ClosingInv
<1>5. DecidedInv'
  BY NAssumption DEF BatchInv, TypeOK, Call, DecidedInv, InLoop, Fill, work
<1>6. LogInv'
  BY NAssumption DEF BatchInv, TypeOK, Call, LogInv, InLoop, Fill, work
<1>7. BarrierInv'
  BY NAssumption DEF BatchInv, TypeOK, Call, BarrierInv, Fill, work
<1>8. CancelInv'
  BY NAssumption DEF BatchInv, TypeOK, Call, CancelInv, Fill, work
<1>9. CeilingInv'
  BY NAssumption DEF BatchInv, TypeOK, Call, CeilingInv, Fill, work
<1>10. ClosingInv'
  BY NAssumption DEF BatchInv, TypeOK, Call, ClosingInv, Closing, Fill, work, InLoop,
    DecidedInv, SlotInv, LogInv
<1>11. HonestResults'
  BY NAssumption DEF BatchInv, TypeOK, Call, HonestResults, Fill, work
<1> QED BY <1>1, <1>2, <1>3, <1>4, <1>5, <1>6, <1>7, <1>8, <1>9, <1>10, <1>11 DEF BatchInv

\* The turn or the caller is cancelled.
LEMMA RequestCancelStep ==
    ASSUME BatchInv, RequestCancel
    PROVE  BatchInv'
<1>1. TypeOK'
  BY NAssumption DEF BatchInv, TypeOK, Call, Pc, RequestCancel, cursor, work
<1>2. CursorInv'
  BY NAssumption DEF BatchInv, TypeOK, Call, CursorInv, InLoop, HeadKnown, RequestCancel,
    cursor, work
<1>3. SlotInv'
  BY NAssumption DEF BatchInv, TypeOK, Call, SlotInv, InLoop, RequestCancel, cursor, work
<1>4. AdmissionInv'
  BY NAssumption DEF BatchInv, TypeOK, Call, AdmissionInv, RequestCancel, cursor, work
<1>5. DecidedInv'
  BY NAssumption DEF BatchInv, TypeOK, Call, DecidedInv, InLoop, RequestCancel, cursor, work
<1>6. LogInv'
  BY NAssumption DEF BatchInv, TypeOK, Call, LogInv, InLoop, RequestCancel, cursor, work
<1>7. BarrierInv'
  BY NAssumption DEF BatchInv, TypeOK, Call, BarrierInv, RequestCancel, cursor, work
<1>8. CancelInv'
  BY NAssumption DEF BatchInv, TypeOK, Call, CancelInv, RequestCancel, cursor, work
<1>9. CeilingInv'
  BY NAssumption DEF BatchInv, TypeOK, Call, CeilingInv, RequestCancel, cursor, work
<1>10. ClosingInv'
  BY NAssumption DEF BatchInv, TypeOK, Call, ClosingInv, Closing, RequestCancel, cursor, work
<1>11. HonestResults'
  BY NAssumption DEF BatchInv, TypeOK, Call, HonestResults, RequestCancel, cursor, work
<1> QED BY <1>1, <1>2, <1>3, <1>4, <1>5, <1>6, <1>7, <1>8, <1>9, <1>10, <1>11 DEF BatchInv

\* A tool comes or goes in the registry.
LEMMA ReloadStep ==
    ASSUME NEW i \in Call, BatchInv, Reload(i)
    PROVE  BatchInv'
<1>1. TypeOK'
  BY NAssumption DEF BatchInv, TypeOK, Call, Pc, Reload, cursor, work
<1>2. CursorInv'
  BY NAssumption DEF BatchInv, TypeOK, Call, CursorInv, InLoop, HeadKnown, Reload, cursor,
    work
<1>3. SlotInv'
  BY NAssumption DEF BatchInv, TypeOK, Call, SlotInv, InLoop, Reload, cursor, work
<1>4. AdmissionInv'
  BY NAssumption DEF BatchInv, TypeOK, Call, AdmissionInv, Reload, cursor, work
<1>5. DecidedInv'
  BY NAssumption DEF BatchInv, TypeOK, Call, DecidedInv, InLoop, Reload, cursor, work
<1>6. LogInv'
  BY NAssumption DEF BatchInv, TypeOK, Call, LogInv, InLoop, Reload, cursor, work
<1>7. BarrierInv'
  BY NAssumption DEF BatchInv, TypeOK, Call, BarrierInv, Reload, cursor, work
<1>8. CancelInv'
  BY NAssumption DEF BatchInv, TypeOK, Call, CancelInv, Reload, cursor, work
<1>9. CeilingInv'
  BY NAssumption DEF BatchInv, TypeOK, Call, CeilingInv, Reload, cursor, work
<1>10. ClosingInv'
  BY NAssumption DEF BatchInv, TypeOK, Call, ClosingInv, Closing, Reload, cursor, work
<1>11. HonestResults'
  BY NAssumption DEF BatchInv, TypeOK, Call, HonestResults, Reload, cursor, work
<1> QED BY <1>1, <1>2, <1>3, <1>4, <1>5, <1>6, <1>7, <1>8, <1>9, <1>10, <1>11 DEF BatchInv

\* Nothing moves.
LEMMA StutterStep ==
    ASSUME BatchInv, UNCHANGED vars
    PROVE  BatchInv'
<1> USE DEF vars, cursor, work
<1>1. TypeOK' /\ CursorInv' /\ SlotInv' /\ AdmissionInv' /\ DecidedInv'
  BY DEF BatchInv, TypeOK, CursorInv, SlotInv, AdmissionInv, DecidedInv, InLoop, HeadKnown
<1>2. LogInv' /\ BarrierInv' /\ CancelInv' /\ CeilingInv' /\ ClosingInv' /\ HonestResults'
  BY DEF BatchInv, LogInv, BarrierInv, CancelInv, CeilingInv, ClosingInv, HonestResults, InLoop, Closing
<1> QED BY <1>1, <1>2 DEF BatchInv

LEMMA NextStep ==
    ASSUME BatchInv, [Next]_vars
    PROVE  BatchInv'
<1>1. CASE DriverStep
  BY <1>1, StartStep, StartFailsStep, WaitStep, SeeCancellationStep, DrainAnnounceStep, DrainCommitStep,
     AnnounceHeadStep, DrainFailsStep, AnnounceHeadFailsStep, DrainEndsStep, FillStep DEF DriverStep
<1>2. CASE Admitted
  BY <1>2, AdmissionDiscardedStep, RefusedStep, ApprovedStep DEF Admitted
<1>3. CASE \E i \in Call : Completed(i)
  BY <1>3, CompletedStep
<1>4. CASE RequestCancel
  BY <1>4, RequestCancelStep
<1>5. CASE \E i \in Call : Reload(i)
  BY <1>5, ReloadStep
<1>6. CASE UNCHANGED vars
  BY <1>6, StutterStep
<1> QED BY <1>1, <1>2, <1>3, <1>4, <1>5, <1>6 DEF Next

-----------------------------------------------------------------------------
(* What follows                                                            *)

\* Every part of the invariant holds in every state of run_batch.
THEOREM BatchInvariant == Spec => []BatchInv
BY InitInv, NextStep, PTL DEF Spec

\* The cursor never runs more than one announcement ahead of its commits, and
\* every variable stays in its domain.
THEOREM TypeCorrect == Spec => []TypeOK
<1>1. BatchInv => TypeOK
  BY DEF BatchInv
<1> QED BY <1>1, BatchInvariant, PTL

\* The log tells the truth about what ran, what was refused and what never
\* started, and "not started" means cancelled while the registry stood still.
THEOREM ResultsAreHonest == Spec => []HonestResults
<1>1. BatchInv => HonestResults
  BY DEF BatchInv
<1> QED BY <1>1, BatchInvariant, PTL

\* A tool that did not declare itself read-only never overlaps another call of
\* its batch while the registry stands still.
THEOREM BarriersRunAlone == Spec => []BarrierAlone
<1>1. BatchInv => BarrierAlone
  BY DEF BatchInv, BarrierInv, BarrierAlone
<1> QED BY <1>1, BatchInvariant, PTL

\* The ceiling covers the call whose approval is still being asked.
THEOREM CeilingRespected == Spec => []CeilingHolds
<1>1. ASSUME BatchInv PROVE CeilingHolds
  <2>1. CASE admitting = 0
    <3>1. executing \union ({admitting} \ {0}) = executing
      BY <2>1
    <3> QED BY <1>1, <3>1 DEF BatchInv, CeilingInv, CeilingHolds
  <2>2. CASE admitting # 0
    <3>1. executing \union ({admitting} \ {0}) = executing \union {admitting}
      BY <2>2
    <3>2. /\ Cardinality(executing \union {admitting}) <= Cardinality(executing) + 1
          /\ Cardinality(executing \union {admitting}) \in Nat
      BY <1>1, ExecutingFinite, FS_AddElement DEF BatchInv
    <3> QED BY <1>1, <2>2, <3>1, <3>2, ExecutingFinite, MaxParallelAssumption
            DEF BatchInv, CeilingInv, CeilingHolds
  <2> QED BY <2>1, <2>2
<1> QED BY <1>1, BatchInvariant, PTL

\* Whoever is in flight when the batch is cancelled has been told.
THEOREM CancellationIsTold == Spec => []CancellationReaches
<1>1. BatchInv => CancellationReaches
  BY DEF BatchInv, CancelInv, CancellationReaches
<1> QED BY <1>1, BatchInvariant, PTL

\* run_batch returns over no running call and no open approval.
THEOREM ReturnsEmptyHanded == Spec => []NothingAbandoned
<1>1. BatchInv => NothingAbandoned
  BY DEF BatchInv, ClosingInv, NothingAbandoned, Done
<1> QED BY <1>1, BatchInvariant, PTL

-----------------------------------------------------------------------------
(* Launches                                                                *)

\* Only an approval launches, and everything listed before it is decided.
LEMMA LaunchOrder ==
    ASSUME BatchInv, [Next]_vars, NEW i \in executing' \ executing
    PROVE  /\ i \notin launched
           /\ ~cancelled
           /\ \A j \in 1..(i - 1) : j \in launched \/ slots[j] = "refused" \/ j <= committed
<1>1. Approved
  <2>1. ASSUME DriverStep PROVE executing' = executing
    BY <2>1 DEF DriverStep, Start, StartFails, Wait, SeeCancellation, DrainAnnounce, DrainCommit, AnnounceHead,
       DrainFails, AnnounceHeadFails, DrainEnds, Fill, RecordFailure, ReturnFailure, work
  <2>2. ASSUME AdmissionDiscarded \/ Refused \/ RequestCancel \/ UNCHANGED vars PROVE executing' = executing
    BY <2>2 DEF AdmissionDiscarded, Refused, RequestCancel, vars, work
  <2>3. ASSUME NEW k \in Call, Completed(k) \/ Reload(k) PROVE executing' \subseteq executing
    BY <2>3 DEF Completed, Reload, work
  <2> QED BY <2>1, <2>2, <2>3 DEF Next, Admitted
<1>2. i = admitting /\ admitting # 0 /\ pc = "select" /\ ~cancelled
  BY <1>1 DEF Approved, AdmissionEnds
<1>3. i \notin launched /\ i = started /\ i \in Call
  BY <1>2, NAssumption DEF BatchInv, AdmissionInv, TypeOK, Call
<1>4. ASSUME NEW j \in 1..(i - 1), j > committed PROVE j \in launched \/ slots[j] = "refused"
  <2>1. j \in Call /\ j < started
    BY <1>3, <1>4, NAssumption DEF BatchInv, TypeOK, Call
  <2>2. CASE slots[j] = "none"
    BY <1>2, <1>4, <2>1, <2>2 DEF BatchInv, DecidedInv, CursorInv, SlotInv, InLoop, TypeOK, Call
  <2>3. CASE slots[j] # "none"
    BY <1>2, <2>1, <2>3 DEF BatchInv, SlotInv, InLoop, TypeOK, Outcome
  <2> QED BY <2>2, <2>3
<1> QED BY <1>2, <1>3, <1>4 DEF BatchInv, TypeOK

\* Tools are launched once, in the model's order of decision, and never after
\* the driver has seen a cancellation.
THEOREM LaunchesAreOrdered == Spec => LaunchesInOrder
<1>1. BatchInv /\ [Next]_vars =>
        [\A i \in executing' \ executing :
            /\ i \notin launched
            /\ ~cancelled
            /\ \A j \in 1..(i - 1) : j \in launched \/ slots[j] = "refused" \/ j <= committed]_vars
  BY LaunchOrder
<1> QED BY <1>1, BatchInvariant, PTL DEF Spec, LaunchesInOrder

-----------------------------------------------------------------------------
(* Refinement                                                              *)

\* A step that keeps the log and does not end the batch is invisible.
LEMMA Invisible ==
    ASSUME log' = log, ~Done, ~Done'
    PROVE  UNCHANGED <<log, Status>>
BY DEF Status, Done

\* A tool/call line is the next announcement of the one-at-a-time batch.
LEMMA AnnounceIsAnnounce ==
    ASSUME BatchInv, announced = committed, announced < N, ~Done, ~Done',
           log' = Append(log, CallLine(announced + 1))
    PROVE  Sequential!Announce
<1>1. announced + 1 \in 1..N /\ Len(log) = 2 * ((announced + 1) - 1)
  BY NAssumption DEF BatchInv, TypeOK, LogInv
<1>2. Status = "running" /\ Status' = "running"
  BY DEF Status, Done
<1> QED BY <1>1, <1>2 DEF Sequential!Announce, Sequential!CallLine, CallLine

\* A tool/result line is its next answer.
LEMMA CommitIsAnswer ==
    ASSUME BatchInv, DrainCommit
    PROVE  Sequential!Answer
<1> DEFINE head == committed + 1
<1>1. head \in 1..N /\ slots[head] \in Outcome /\ Len(log) = 2 * head - 1
  BY NAssumption DEF BatchInv, TypeOK, LogInv, DrainCommit, HeadKnown, Call
<1>2. Status = "running" /\ Status' = "running"
  BY DEF Status, DrainCommit, InDrain
<1>3. (head > 1 /\ log[2 * (head - 1)].what = "notstarted") => slots[head] = "notstarted"
  <2> SUFFICES ASSUME head > 1, log[2 * (head - 1)].what = "notstarted" PROVE slots[head] = "notstarted"
    OBVIOUS
  <2>1. 2 * (head - 1) \in 1..Len(log) /\ 2 * (head - 1) = 2 * committed
    BY <1>1 DEF BatchInv, TypeOK
  <2>2. pc = "last"
    BY <2>1 DEF BatchInv, LogInv, InLoop, DrainCommit, InDrain
  <2> QED BY <1>1, <2>1, <2>2 DEF BatchInv, ClosingInv, Closing, TypeOK, Call
<1>4. log' = Append(log, Sequential!ResultLine(head, slots[head]))
  BY DEF DrainCommit, ResultLine, Sequential!ResultLine
<1> QED BY <1>1, <1>2, <1>3, <1>4 DEF Sequential!Answer, Sequential!Outcome, Outcome

\* Every step is a step of the one-at-a-time batch or invisible to it.
LEMMA StepRefines ==
    ASSUME BatchInv, [Next]_vars
    PROVE  [Sequential!Next]_<<log, Status>>
<1>1. CASE Start
  <2>0. ~Done /\ ~Done'
    BY <1>1 DEF Start, Done
  <2>1. CASE announced = committed
    <3>1. announced < N /\ log' = Append(log, CallLine(announced + 1))
      BY <1>1, <2>1, NAssumption DEF Start, MayStart, BatchInv, TypeOK, CursorInv, InLoop
    <3> QED BY <2>0, <2>1, <3>1, AnnounceIsAnnounce DEF Sequential!Next
  <2>2. CASE announced # committed
    BY <1>1, <2>0, <2>2, Invisible DEF Start
  <2> QED BY <2>1, <2>2
<1>2. CASE DrainAnnounce
  BY <1>2, AnnounceIsAnnounce, NAssumption
     DEF DrainAnnounce, InDrain, HeadKnown, Done, Sequential!Next, BatchInv, TypeOK
<1>3. CASE DrainCommit
  BY <1>3, CommitIsAnswer DEF Sequential!Next
<1>4. CASE AnnounceHead
  <2>0. ~Done /\ ~Done'
    BY <1>4 DEF AnnounceHead, Done
  <2>1. CASE announced = committed /\ announced < started
    <3>1. announced < N /\ log' = Append(log, CallLine(announced + 1))
      BY <1>4, <2>1, NAssumption DEF AnnounceHead, BatchInv, TypeOK
    <3> QED BY <2>0, <2>1, <3>1, AnnounceIsAnnounce DEF Sequential!Next
  <2>2. CASE ~(announced = committed /\ announced < started)
    BY <1>4, <2>0, <2>2, Invisible DEF AnnounceHead
  <2> QED BY <2>1, <2>2
<1>5. CASE DrainEnds
  <2>1. CASE pc = "drain"
    BY <1>5, <2>1, Invisible DEF DrainEnds, Done
  <2>2. CASE pc = "last"
    <3>1. committed = N
      <4> SUFFICES ASSUME committed < N PROVE FALSE
        BY NAssumption DEF BatchInv, TypeOK
      <4>1. committed + 1 \in Call
        BY NAssumption DEF BatchInv, TypeOK, Call
      <4> QED BY <1>5, <2>2, <4>1 DEF DrainEnds, HeadKnown, BatchInv, ClosingInv, Closing, TypeOK
    <3>2. Len(log) = 2 * N
      BY <3>1, NAssumption DEF BatchInv, TypeOK, LogInv
    <3>3. Status = "running" /\ Status' = "ok" /\ log' = log
      BY <1>5, <2>2 DEF DrainEnds, Status
    <3> QED BY <3>2, <3>3 DEF Sequential!Next, Sequential!Return
  <2> QED BY <1>5, <2>1, <2>2 DEF DrainEnds
<1>6. CASE Wait
  <2>1. log' = log /\ pc = "top" /\ pc' \in {"select", "error", "fill"}
    BY <1>6 DEF Wait
  <2> QED BY <2>1 DEF Status, Sequential!Next, Sequential!Fail
<1>7. CASE StartFails \/ DrainFails \/ AnnounceHeadFails
  <2>1. log' = log /\ pc \in {"top", "drain", "last", "head", "lasthead"} /\ pc' \in {"top", "error"}
    BY <1>7 DEF StartFails, DrainFails, AnnounceHeadFails, RecordFailure, ReturnFailure, InDrain
  <2> QED BY <2>1 DEF Status, Sequential!Next, Sequential!Fail
<1>8. CASE SeeCancellation \/ Fill \/ Admitted \/ \E i \in Call : Completed(i)
  <2>1. log' = log /\ ~Done /\ ~Done'
    BY <1>8 DEF SeeCancellation, Fill, Admitted, AdmissionDiscarded, Refused, Approved, AdmissionEnds, Completed, Done
  <2> QED BY <2>1, Invisible
<1>9. CASE RequestCancel \/ (\E i \in Call : Reload(i)) \/ UNCHANGED vars
  <2>1. log' = log /\ pc' = pc
    BY <1>9 DEF RequestCancel, Reload, vars
  <2> QED BY <2>1 DEF Status
<1> QED BY <1>1, <1>2, <1>3, <1>4, <1>5, <1>6, <1>7, <1>8, <1>9 DEF Next, DriverStep

\* The overlapping batch leaves the log of a one-at-a-time batch, for every
\* completion order, cancellation and failure.
THEOREM LogIsSequential == Spec => SequentialLog
<1>1. Init => Sequential!Init
  BY DEF Init, Sequential!Init, Status
<1>2. BatchInv /\ [Next]_vars => [Sequential!Next]_<<log, Status>>
  BY StepRefines
<1> QED BY <1>1, <1>2, BatchInvariant, PTL DEF Spec, SequentialLog, Sequential!Spec
=============================================================================
