--------------------------- MODULE WorkflowProofs ---------------------------
(***************************************************************************)
(* What holds of every workflow run, whatever its graph, its callers, its  *)
(* attempts, its failed writes and the ends of its process.                *)
(***************************************************************************)
EXTENDS Workflow, TLAPS, FiniteSetTheorems

\* The part of the invariant about who may act: the claim of spawn_attempt is
\* exclusive, and an attempt's effects belong to its rounds.
ClaimInv ==
    /\ OneCoordinator
    /\ \A c \in Callers : caller[c].at \in {"unspawned", "counted"} => spent.refused
    /\ EndedIsQuiet

\* What the journal says of a step nobody has tried.
NodesInv ==
    /\ run.state = "none" => run = NoRun
    /\ \A s \in Steps : run.nodes[s].state = "none" => run.nodes[s].attempt = 0
    /\ \A s \in Steps : s \notin ReplaySafe => run.nodes[s].attempt <= 1

\* An effect that is queued or running has its intent in the journal and its
\* inputs with it.
IntentInv ==
    \A a \in Attempts, s \in Steps : task[a].effect[s] # "none" =>
        /\ task[a].phase \in {"launch", "join"}
        /\ run.nodes[s].state = "started"
        /\ \A d \in DependsOn[s] : run.nodes[d].state = "completed"

\* The journal counts at least the effects that took place, and one more while
\* an effect is still to come.
CountInv ==
    \A s \in Steps :
        /\ executed[s] <= run.nodes[s].attempt
        /\ \A a \in Attempts : task[a].effect[s] = "queued" => executed[s] < run.nodes[s].attempt

\* An effect with an unknown outcome keeps its open intent, and nobody holds it.
UnknownInv ==
    \A s \in unknown :
        /\ run.nodes[s].state = "started"
        /\ \A a \in Attempts : task[a].effect[s] = "none"

\* A worker in its rounds knows every skip the journal has.
SkipInv ==
    \A a \in Attempts : task[a].phase \in {"loop", "launch", "join"} =>
        \A d \in Steps : run.nodes[d].state = "skipped" => task[a].nodes[d].state = "skipped"

EffectInv == NodesInv /\ IntentInv /\ CountInv /\ UnknownInv /\ SkipInv /\ InputsWereThere

WorkflowInv == WorkflowTypeOK /\ ClaimInv /\ EffectInv

-----------------------------------------------------------------------------
(* The journal                                                              *)

\* A write leaves the run as it was or with the accepted change; it reports
\* success only for an accepted change that is there.
LEMMA AppendedFacts ==
    ASSUME NEW valid \in BOOLEAN, NEW changed, NEW w \in Appended(valid, changed)
    PROVE  /\ w.run \in {run, changed}
           /\ ~valid => w.run = run
           /\ w.ok \in BOOLEAN
           /\ w.ok => valid /\ w.run = changed
           /\ w.fault \in {0, 1}
  <1>1. CASE ~valid
    <2>1. w = [run |-> run, ok |-> FALSE, fault |-> 0]
      BY <1>1 DEF Appended
    <2> QED
      BY <1>1, <2>1
  <1>2. CASE valid
    <2>1. \/ w = [run |-> changed, ok |-> TRUE, fault |-> 0]
          \/ \E r \in {run, changed} : w = [run |-> r, ok |-> FALSE, fault |-> 1]
      BY <1>2 DEF Appended
    <2>2. CASE w = [run |-> changed, ok |-> TRUE, fault |-> 0]
      BY <1>2, <2>2
    <2>3. ASSUME NEW r \in {run, changed}, w = [run |-> r, ok |-> FALSE, fault |-> 1]
          PROVE  w.run \in {run, changed} /\ w.ok = FALSE /\ w.fault = 1
      BY <2>3
    <2> QED
      BY <1>2, <2>1, <2>2, <2>3
  <1> QED
    BY <1>1, <1>2

\* What a write does to the run and to the budget of faults.
LEMMA WriteFacts ==
    ASSUME WorkflowTypeOK, NEW valid \in BOOLEAN, NEW changed, NEW w \in Appended(valid, changed), Write(w)
    PROVE  /\ run' = w.run
           /\ spent'.faults \in 0 .. FaultBudget
           /\ spent' \in [faults : 0 .. FaultBudget, refused : BOOLEAN, panicked : BOOLEAN, crashes : 0 .. CrashBudget]
           /\ spent'.refused = spent.refused
  BY AppendedFacts, WorkflowBoundAssumption DEF Write, WorkflowTypeOK

\* The steps a graph has completed are at most all of them.
LEMMA CompletedBounded ==
    ASSUME NEW nodes \in [Steps -> Node]
    PROVE  CompletedSteps(nodes) \in 0 .. StepCount
  <1> DEFINE S == {s \in Steps : Settled(nodes[s])}
  <1>1. IsFiniteSet(Steps) /\ Cardinality(Steps) = StepCount
    BY FS_Interval, GraphAssumption DEF Steps
  <1>2. S \subseteq Steps
    OBVIOUS
  <1>3. Cardinality(S) <= Cardinality(Steps) /\ IsFiniteSet(S)
    BY <1>1, <1>2, FS_Subset
  <1>4. Cardinality(S) \in Nat
    BY <1>3, FS_CardinalityType
  <1> QED
    BY <1>1, <1>3, <1>4, GraphAssumption DEF CompletedSteps

\* Every step may be tried.
LEMMA TriesPositive == \A s \in Steps : MaxTries[s] \in Nat /\ 1 <= MaxTries[s]
  BY GraphAssumption

\* An attempt without a job is a well-formed one.
LEMMA NoTaskType == NoTask \in Task
  BY GraphAssumption DEF NoTask, Task, NoNode, Node, NodeState

\* So is an attempt that goes to its end.
LEMMA EndsType ==
    ASSUME WorkflowTypeOK, NEW a \in Attempts, NEW o \in Outcome
    PROVE  Ends(a, o) \in [Attempts -> Task]
  <1>1. task[a] \in Task
    BY DEF WorkflowTypeOK
  <1>2. [NoTask EXCEPT !.phase = "ending", !.outcome = o, !.cancelled = task[a].cancelled] \in Task
    BY <1>1, NoTaskType DEF Task, NoTask, Outcome
  <1> QED
    BY <1>2 DEF Ends, WorkflowTypeOK

\* The projection's verdicts are truth values.
LEMMA VerdictsAreBoolean ==
    ASSUME NEW a, NEW d, NEW s, NEW node, NEW o
    PROVE  /\ MayResume(a, d) \in BOOLEAN
           /\ MayAdmit(a, d) \in BOOLEAN
           /\ MayRecord(s, node) \in BOOLEAN
           /\ MayEnd(o, d) \in BOOLEAN
  BY DEF MayResume, MayAdmit, MayRecord, MayEnd

\* What a record of a step does to the run.
LEMMA RecordedFacts ==
    ASSUME run \in Run, NEW s \in Steps, NEW node \in Node
    PROVE  /\ Recorded(s, node) \in Run
           /\ Recorded(s, node).nodes = [run.nodes EXCEPT ![s] = node]
           /\ Recorded(s, node).state = run.state
  BY DEF Recorded, Run

\* What the end of a run does to it.
LEMMA EndFacts ==
    ASSUME WorkflowTypeOK, NEW o \in Outcome, NEW d, NEW w \in End(o, d), Write(w)
    PROVE  /\ run' \in Run
           /\ run'.nodes = run.nodes
           /\ run.state = "none" => run' = run
           /\ run'.state = run.state \/ run'.state \in Outcome
           /\ run' # run => run.state \in {"running", "paused"}
           /\ spent' \in [faults : 0 .. FaultBudget, refused : BOOLEAN, panicked : BOOLEAN, crashes : 0 .. CrashBudget]
           /\ spent'.refused = spent.refused
  <1> DEFINE changed == [run EXCEPT !.state = o]
  <1>1. run \in Run
    BY DEF WorkflowTypeOK
  <1>2. changed \in Run /\ changed.nodes = run.nodes /\ changed.state = o
    BY <1>1 DEF Run
  <1>3. MayEnd(o, d) \in BOOLEAN /\ w \in Appended(MayEnd(o, d), changed)
    BY VerdictsAreBoolean DEF End
  <1>4. MayEnd(o, d) => run.state \in {"running", "paused"}
    BY DEF MayEnd
  <1>5. w.run \in {run, changed} /\ (~MayEnd(o, d) => w.run = run)
    BY <1>3, AppendedFacts
  <1>6. run' = w.run /\ spent'.refused = spent.refused
        /\ spent' \in [faults : 0 .. FaultBudget, refused : BOOLEAN, panicked : BOOLEAN, crashes : 0 .. CrashBudget]
    BY <1>3, WriteFacts
  <1> QED
    BY <1>1, <1>2, <1>4, <1>5, <1>6

-----------------------------------------------------------------------------
(* Types                                                                    *)

\* The intent, the skip or the result a worker writes is a node of the graph.
LEMMA NodeType ==
    ASSUME NEW t \in Task, NEW s \in Steps, NEW state \in NodeState
    PROVE  [state |-> state, attempt |-> t.nodes[s].attempt + 1] \in Node
  BY DEF Task, Node

\* A record keeps the types and the limits of the journal.
LEMMA RecordKeepsTypes ==
    ASSUME WorkflowTypeOK, NEW s \in Steps, NEW node \in Node,
           NEW w \in Appended(MayRecord(s, node), Recorded(s, node)), Write(w)
    PROVE  /\ run' \in Run
           /\ \A x \in Steps : run'.nodes[x].attempt <= MaxTries[x]
           /\ spent' \in [faults : 0 .. FaultBudget, refused : BOOLEAN, panicked : BOOLEAN, crashes : 0 .. CrashBudget]
           /\ spent'.refused = spent.refused
           /\ run'.state = run.state
           /\ \/ run' = run /\ ~w.ok
              \/ MayRecord(s, node) /\ run'.nodes = [run.nodes EXCEPT ![s] = node]
  <1>1. run \in Run
    BY DEF WorkflowTypeOK
  <1>2. MayRecord(s, node) \in BOOLEAN
    BY VerdictsAreBoolean
  <1>3. /\ run' = w.run
        /\ spent' \in [faults : 0 .. FaultBudget, refused : BOOLEAN, panicked : BOOLEAN, crashes : 0 .. CrashBudget]
        /\ spent'.refused = spent.refused
    BY <1>2, WriteFacts
  <1>4. /\ w.run \in {run, Recorded(s, node)}
        /\ ~MayRecord(s, node) => w.run = run
        /\ w.ok => MayRecord(s, node) /\ w.run = Recorded(s, node)
        /\ w.ok \in BOOLEAN
    BY <1>2, AppendedFacts
  <1>5. /\ Recorded(s, node) \in Run
        /\ Recorded(s, node).nodes = [run.nodes EXCEPT ![s] = node]
        /\ Recorded(s, node).state = run.state
    BY <1>1, RecordedFacts
  <1>6. CASE w.run = run /\ ~w.ok
    BY <1>1, <1>3, <1>6 DEF WorkflowTypeOK
  <1>7. CASE MayRecord(s, node) /\ w.run = Recorded(s, node)
    <2>1. node.attempt <= MaxTries[s]
      BY <1>7 DEF MayRecord
    <2>2. \A x \in Steps : run.nodes[x].attempt <= MaxTries[x]
      BY DEF WorkflowTypeOK
    <2>3. run'.nodes = [run.nodes EXCEPT ![s] = node] /\ run.nodes \in [Steps -> Node]
      BY <1>1, <1>3, <1>5, <1>7 DEF Run
    <2>4. \A x \in Steps : run'.nodes[x].attempt <= MaxTries[x]
      BY <2>1, <2>2, <2>3
    <2> QED
      BY <1>3, <1>5, <1>7, <2>3, <2>4
  <1> QED
    BY <1>2, <1>4, <1>6, <1>7

\* The initial state is well formed.
LEMMA TypeInit ==
    ASSUME Init PROVE WorkflowTypeOK
  <1>1. NoRun \in Run /\ \A s \in Steps : NoRun.nodes[s].attempt = 0
    BY DEF NoRun, Run, NoNode, Node, NodeState
  <1>2. Absent \in Entry
    BY DEF Absent, Entry
  <1>3. AtRest \in Call /\ AtRest.at = "idle"
    BY GraphAssumption DEF AtRest, Call
  <1>4. \A s \in Steps : NoRun.nodes[s].attempt <= MaxTries[s]
    BY <1>1, TriesPositive
  <1>5. [faults |-> 0, refused |-> FALSE, panicked |-> FALSE, crashes |-> 0]
            \in [faults : 0 .. FaultBudget, refused : BOOLEAN, panicked : BOOLEAN, crashes : 0 .. CrashBudget]
    BY WorkflowBoundAssumption
  <1> QED
    BY <1>1, <1>2, <1>3, <1>4, <1>5, NoTaskType DEF Init, WorkflowTypeOK

\* A step of the service keeps the types.
LEMMA TypeService ==
    ASSUME WorkflowTypeOK, NEW c \in Callers, Start(c) \/ ReadRun(c) \/ CallStep(c)
    PROVE  WorkflowTypeOK'
  <1>0. /\ run \in Run /\ caller \in [Callers -> Call] /\ caller[c] \in Call
        /\ caller[c].at # "idle" => caller[c].attempt \in Attempts
        /\ \A s \in Steps : run.nodes[s].attempt <= MaxTries[s]
        /\ AtRest \in Call /\ AtRest.at = "idle"
    BY GraphAssumption DEF WorkflowTypeOK, AtRest, Call
  <1>1. CASE Start(c)
    <2> DEFINE started == [NoRun EXCEPT !.state = "running", !.attempt = 1]
    <2>1. 1 \in Attempts
      BY WorkflowBoundAssumption DEF Attempts
    <2>2. started \in Run /\ \A s \in Steps : started.nodes[s].attempt = 0
      BY <2>1 DEF NoRun, Run, NoNode, Node, NodeState
    <2>3. PICK w \in Appended(TRUE, started) :
            /\ Write(w)
            /\ caller' = IF w.ok THEN [caller EXCEPT ![c] = [at |-> "spawn", attempt |-> 1, done |-> 0]] ELSE caller
      BY <1>1 DEF Start
    <2>4. w.run \in {run, started} /\ w.ok \in BOOLEAN
      BY <2>3, AppendedFacts
    <2>5. /\ run' = w.run
          /\ spent' \in [faults : 0 .. FaultBudget, refused : BOOLEAN, panicked : BOOLEAN, crashes : 0 .. CrashBudget]
      BY <2>3, WriteFacts
    <2>6. run' \in Run /\ \A s \in Steps : run'.nodes[s].attempt <= MaxTries[s]
      <3>1. CASE run' = run
        BY <1>0, <3>1
      <3>2. CASE run' = started
        <4>1. \A s \in Steps : started.nodes[s].attempt <= MaxTries[s]
          BY <2>2, TriesPositive
        <4> QED
          BY <2>2, <3>2, <4>1
      <3> QED
        BY <2>4, <2>5, <3>1, <3>2
    <2>7. [at |-> "spawn", attempt |-> 1, done |-> 0] \in Call
      BY <2>1, GraphAssumption DEF Call
    <2>8. caller' \in [Callers -> Call] /\ \A x \in Callers : caller'[x].at # "idle" => caller'[x].attempt \in Attempts
      BY <1>0, <2>1, <2>3, <2>4, <2>7 DEF WorkflowTypeOK
    <2> QED
      BY <1>1, <2>5, <2>6, <2>8 DEF Start, WorkflowTypeOK
  <1>2. CASE ReadRun(c)
    <2>1. run.attempt + 1 \in Attempts
      BY <1>0, <1>2, WorkflowBoundAssumption DEF ReadRun, Run, Attempts
    <2>2. CompletedSteps(run.nodes) \in 0 .. StepCount
      BY <1>0, CompletedBounded DEF Run
    <2>3. [at |-> "read", attempt |-> run.attempt + 1, done |-> CompletedSteps(run.nodes)] \in Call
      BY <2>1, <2>2 DEF Call
    <2>4. caller' \in [Callers -> Call] /\ \A x \in Callers : caller'[x].at # "idle" => caller'[x].attempt \in Attempts
      BY <1>0, <1>2, <2>1, <2>3 DEF ReadRun, WorkflowTypeOK
    <2> QED
      BY <1>2, <2>4 DEF ReadRun, WorkflowTypeOK
  <1>3. CASE CheckLive(c)
    <2>1. [caller[c] EXCEPT !.at = "checked"] \in Call
      BY <1>0 DEF Call
    <2>2. caller' \in [Callers -> Call] /\ \A x \in Callers : caller'[x].at # "idle" => caller'[x].attempt \in Attempts
      BY <1>0, <1>3, <2>1 DEF CheckLive, WorkflowTypeOK, Call
    <2> QED
      BY <1>3, <2>2 DEF CheckLive, WorkflowTypeOK
  <1>4. CASE AppendResume(c)
    <2> DEFINE a == caller[c].attempt
               resumed == [run EXCEPT !.attempt = a, !.busy = FALSE, !.state = "running"]
               valid == MayResume(a, caller[c].done)
    <2>1. a \in Attempts
      BY <1>0, <1>4 DEF AppendResume
    <2>2. resumed \in Run /\ resumed.nodes = run.nodes
      BY <1>0, <2>1 DEF Run
    <2>3. PICK w \in Appended(valid, resumed) :
            /\ Write(w)
            /\ caller' = [caller EXCEPT ![c] = IF w.ok THEN [@ EXCEPT !.at = "spawn"] ELSE AtRest]
      BY <1>4 DEF AppendResume
    <2>4. valid \in BOOLEAN
      BY VerdictsAreBoolean
    <2>5. w.run \in {run, resumed} /\ w.ok \in BOOLEAN
      BY <2>3, <2>4, AppendedFacts
    <2>6. /\ run' = w.run
          /\ spent' \in [faults : 0 .. FaultBudget, refused : BOOLEAN, panicked : BOOLEAN, crashes : 0 .. CrashBudget]
      BY <2>3, <2>4, WriteFacts
    <2>7. [caller[c] EXCEPT !.at = "spawn"] \in Call /\ [caller[c] EXCEPT !.at = "spawn"].attempt = a
      BY <1>0 DEF Call
    <2>8. caller' \in [Callers -> Call] /\ \A x \in Callers : caller'[x].at # "idle" => caller'[x].attempt \in Attempts
      BY <1>0, <2>1, <2>3, <2>5, <2>7 DEF WorkflowTypeOK
    <2> QED
      BY <1>0, <1>4, <2>2, <2>5, <2>6, <2>8 DEF AppendResume, WorkflowTypeOK
  <1>5. CASE SpawnAttempt(c)
    <2> DEFINE a == caller[c].attempt
    <2>1. a \in Attempts
      BY <1>0, <1>5 DEF SpawnAttempt
    <2>2. [Absent EXCEPT !.held = TRUE] \in Entry
          /\ [NoTask EXCEPT !.phase = "new", !.job = nextJob, !.done = caller[c].done] \in Task
      BY <1>0, NoTaskType DEF Absent, Entry, Task, NoTask, Call, WorkflowTypeOK
    <2>3. [caller[c] EXCEPT !.at = "unspawned"] \in Call /\ [caller[c] EXCEPT !.at = "unspawned"].attempt = a
      BY <1>0 DEF Call
    <2>4. caller' \in [Callers -> Call] /\ \A x \in Callers : caller'[x].at # "idle" => caller'[x].attempt \in Attempts
      BY <1>0, <1>5, <2>1, <2>3 DEF SpawnAttempt, WorkflowTypeOK
    <2>5. active' \in Entry /\ task' \in [Attempts -> Task]
      <3>1. \/ UNCHANGED <<active, task>>
            \/ /\ active' = [Absent EXCEPT !.held = TRUE]
               /\ task' = [task EXCEPT ![a] = [NoTask EXCEPT !.phase = "new", !.job = nextJob, !.done = caller[c].done]]
        BY <1>5 DEF SpawnAttempt
      <3>2. active \in Entry /\ task \in [Attempts -> Task]
        BY DEF WorkflowTypeOK
      <3>3. CASE UNCHANGED <<active, task>>
        BY <3>2, <3>3
      <3>4. CASE /\ active' = [Absent EXCEPT !.held = TRUE]
                 /\ task' = [task EXCEPT ![a] = [NoTask EXCEPT !.phase = "new", !.job = nextJob, !.done = caller[c].done]]
        BY <2>2, <3>2, <3>4
      <3> QED
        BY <3>1, <3>3, <3>4
    <2>6. spent' \in [faults : 0 .. FaultBudget, refused : BOOLEAN, panicked : BOOLEAN, crashes : 0 .. CrashBudget]
      <3>1. \/ spent' = spent
            \/ spent.faults < FaultBudget /\ spent' = [spent EXCEPT !.faults = @ + 1, !.refused = TRUE]
        BY <1>5 DEF SpawnAttempt
      <3>2. spent \in [faults : 0 .. FaultBudget, refused : BOOLEAN, panicked : BOOLEAN, crashes : 0 .. CrashBudget]
        BY DEF WorkflowTypeOK
      <3>3. ASSUME spent.faults < FaultBudget PROVE spent.faults + 1 \in 0 .. FaultBudget
        BY <3>2, <3>3, WorkflowBoundAssumption
      <3> QED
        BY <3>1, <3>2, <3>3
    <2>7. nextJob' \in Nat
      BY <1>5 DEF SpawnAttempt, WorkflowTypeOK
    <2> QED
      BY <1>5, <2>4, <2>5, <2>6, <2>7 DEF SpawnAttempt, WorkflowTypeOK
  <1>7. CASE CountUnspawned(c)
    <2>1. CompletedSteps(run.nodes) \in 0 .. StepCount
      BY <1>0, CompletedBounded DEF Run
    <2> DEFINE done == CompletedSteps(run.nodes)
               counted == [caller[c] EXCEPT !.at = "counted", !.done = done]
    <2>2. caller' = [caller EXCEPT ![c] = counted] /\ caller[c].at = "unspawned"
      BY <1>0, <1>7 DEF CountUnspawned, Call
    <2> HIDE DEF done
    <2>3. counted \in Call /\ counted.attempt = caller[c].attempt
      BY <1>0, <2>1 DEF Call, done
    <2> HIDE DEF counted
    <2>4. caller' \in [Callers -> Call] /\ \A x \in Callers : caller'[x].at # "idle" => caller'[x].attempt \in Attempts
      BY <1>0, <2>2, <2>3 DEF WorkflowTypeOK
    <2> QED
      BY <1>7, <2>4 DEF CountUnspawned, WorkflowTypeOK
  <1>6. CASE EndUnspawned(c)
    <2>1. PICK w \in End("failed", caller[c].done) : Write(w)
      BY <1>6 DEF EndUnspawned
    <2>2. "failed" \in Outcome
      BY DEF Outcome
    <2>3. run' \in Run /\ run'.nodes = run.nodes
          /\ spent' \in [faults : 0 .. FaultBudget, refused : BOOLEAN, panicked : BOOLEAN, crashes : 0 .. CrashBudget]
      BY <2>1, <2>2, EndFacts
    <2>4. caller' \in [Callers -> Call] /\ \A x \in Callers : caller'[x].at # "idle" => caller'[x].attempt \in Attempts
      BY <1>0, <1>6 DEF EndUnspawned, WorkflowTypeOK
    <2> QED
      BY <1>0, <1>6, <2>3, <2>4 DEF EndUnspawned, WorkflowTypeOK
  <1> QED
    BY <1>2, <1>3, <1>4, <1>5, <1>6, <1>7, <1>1 DEF CallStep

\* Those who ask for a pause, a cancellation or a close move no job: at most a job is told to stop.
LEMMA OutsideTask ==
    ASSUME WorkflowTypeOK, Pause \/ Cancel \/ Close \/ \E a \in Attempts : CancelJob(a)
    PROVE  /\ task' \in [Attempts -> Task]
           /\ \A b \in Attempts : /\ task'[b].phase = task[b].phase
                                 /\ task'[b].effect = task[b].effect
                                 /\ task'[b].nodes = task[b].nodes
           /\ UNCHANGED <<caller, nextJob, executed, unknown>>
  <1>0. active.job \in {0} \cup Attempts /\ task \in [Attempts -> Task]
    BY DEF WorkflowTypeOK, Entry
  <1>1. /\ UNCHANGED task \/ \E j \in Attempts : task' = [task EXCEPT ![j].cancelled = TRUE]
        /\ UNCHANGED <<caller, nextJob, executed, unknown>>
    BY <1>0 DEF Pause, Cancel, Close, CancelJob, CancelsJob
  <1>2. CASE UNCHANGED task
    BY <1>0, <1>1, <1>2
  <1>3. ASSUME NEW j \in Attempts, task' = [task EXCEPT ![j].cancelled = TRUE]
        PROVE  /\ task' \in [Attempts -> Task]
               /\ \A b \in Attempts : /\ task'[b].phase = task[b].phase
                                     /\ task'[b].effect = task[b].effect
                                     /\ task'[b].nodes = task[b].nodes
    <2>1. task[j] \in Task
      BY <1>0
    <2> DEFINE t == [task[j] EXCEPT !.cancelled = TRUE]
    <2>2. t \in Task /\ t.phase = task[j].phase /\ t.effect = task[j].effect /\ t.nodes = task[j].nodes
      BY <2>1 DEF Task
    <2>3. task' = [task EXCEPT ![j] = t]
      BY <1>0, <1>3
    <2> HIDE DEF t
    <2> QED
      BY <1>0, <2>2, <2>3
  <1> QED
    BY <1>1, <1>2, <1>3

\* A pause, a cancellation, a close, a panic or a crash keeps the types.
LEMMA TypeOutside ==
    ASSUME WorkflowTypeOK, Pause \/ Cancel \/ Close \/ Crash \/ \E a \in Attempts : CancelJob(a) \/ Panic(a)
    PROVE  WorkflowTypeOK'
  <1>0. /\ run \in Run /\ active \in Entry /\ task \in [Attempts -> Task]
        /\ \A s \in Steps : run.nodes[s].attempt <= MaxTries[s]
        /\ AtRest \in Call /\ AtRest.at = "idle" /\ Absent \in Entry
        /\ spent \in [faults : 0 .. FaultBudget, refused : BOOLEAN, panicked : BOOLEAN, crashes : 0 .. CrashBudget]
    BY GraphAssumption DEF WorkflowTypeOK, AtRest, Call, Absent, Entry
  <1>3. CASE Pause
    BY <1>0, <1>3 DEF Pause, WorkflowTypeOK, Entry
  <1>4. CASE Cancel
    <2>0. task' \in [Attempts -> Task]
      BY <1>4, OutsideTask
    <2>1. CASE UNCHANGED <<run, spent>>
      BY <1>0, <1>4, <2>0, <2>1 DEF Cancel, WorkflowTypeOK
    <2>2. ASSUME NEW w \in End("cancelled", CompletedSteps(run.nodes)), Write(w) PROVE WorkflowTypeOK'
      <3>1. "cancelled" \in Outcome
        BY DEF Outcome
      <3>2. run' \in Run /\ run'.nodes = run.nodes
            /\ spent' \in [faults : 0 .. FaultBudget, refused : BOOLEAN, panicked : BOOLEAN, crashes : 0 .. CrashBudget]
        BY <2>2, <3>1, EndFacts
      <3> QED
        BY <1>0, <1>4, <2>0, <3>2 DEF Cancel, WorkflowTypeOK
    <2> QED
      BY <1>4, <2>1, <2>2 DEF Cancel
  <1>5. CASE Close
    <2>1. task' \in [Attempts -> Task]
      BY <1>5, OutsideTask
    <2> QED
      BY <1>5, <2>1 DEF Close, WorkflowTypeOK
  <1>6. CASE Crash
    <2>1. spent' \in [faults : 0 .. FaultBudget, refused : BOOLEAN, panicked : BOOLEAN, crashes : 0 .. CrashBudget]
      <3>1. spent.crashes + 1 \in 0 .. CrashBudget
        BY <1>0, <1>6, WorkflowBoundAssumption DEF Crash
      <3> QED
        BY <1>0, <1>6, <3>1 DEF Crash
    <2>2. unknown' \subseteq Steps
      BY <1>6 DEF Crash, WorkflowTypeOK
    <2> QED
      BY <1>0, <1>6, <2>1, <2>2, NoTaskType DEF Crash, WorkflowTypeOK
  <1>7. ASSUME NEW a \in Attempts, CancelJob(a) PROVE WorkflowTypeOK'
    <2>1. task' \in [Attempts -> Task]
      BY <1>7, OutsideTask
    <2> QED
      BY <1>7, <2>1 DEF CancelJob, WorkflowTypeOK
  <1>8. ASSUME NEW a \in Attempts, Panic(a) PROVE WorkflowTypeOK'
    <2>1. spent' \in [faults : 0 .. FaultBudget, refused : BOOLEAN, panicked : BOOLEAN, crashes : 0 .. CrashBudget]
      <3>1. spent.faults + 1 \in 0 .. FaultBudget
        BY <1>0, <1>8, WorkflowBoundAssumption DEF Panic
      <3> QED
        BY <1>0, <1>8, <3>1 DEF Panic
    <2>2. unknown' \subseteq Steps
      BY <1>8 DEF Panic, WorkflowTypeOK
    <2>3. task' \in [Attempts -> Task]
      BY <1>0, <1>8, NoTaskType DEF Panic
    <2> QED
      BY <1>8, <2>1, <2>2, <2>3 DEF Panic, WorkflowTypeOK
  <1> QED
    BY <1>3, <1>4, <1>5, <1>6, <1>7, <1>8

\* What the launch of a step leaves in the worker.
LEMMA AfterLaunchFacts ==
    ASSUME NEW t \in Task, NEW s \in Steps, NEW node \in Node
    PROVE  LET u == AfterLaunch(t, s, node)
           IN  /\ u \in Task
               /\ u.phase \in {"launch", "join"}
               /\ u.effect = [t.effect EXCEPT ![s] = IF node.state = "skipped" THEN "none" ELSE "queued"]
               /\ u.nodes = [t.nodes EXCEPT ![s] = IF node.state = "skipped" THEN node ELSE @]
  BY DEF AfterLaunch, Task

\* A step of an attempt's job keeps the types.
LEMMA TypeTask ==
    ASSUME WorkflowTypeOK, NEW a \in Attempts, TaskStep(a)
    PROVE  WorkflowTypeOK'
  <1>0. /\ run \in Run /\ active \in Entry /\ task \in [Attempts -> Task] /\ task[a] \in Task
        /\ \A s \in Steps : run.nodes[s].attempt <= MaxTries[s]
        /\ Absent \in Entry /\ "failed" \in Outcome
    BY DEF WorkflowTypeOK, Absent, Entry, Outcome
  <1>1. CASE Admit(a)
    <2> DEFINE admitted == [run EXCEPT !.jobs[a] = task[a].job]
               valid == MayAdmit(a, task[a].job)
    <2>1. admitted \in Run /\ admitted.nodes = run.nodes
      BY <1>0 DEF Run, Task
    <2>2. PICK w \in Appended(valid, admitted) :
            /\ Write(w)
            /\ task' = IF w.ok THEN [task EXCEPT ![a].phase = "open"]
                       ELSE [task EXCEPT ![a].phase = "unadmitted", ![a].cancelled = TRUE]
      BY <1>1 DEF Admit
    <2>3. valid \in BOOLEAN
      BY VerdictsAreBoolean
    <2> HIDE DEF valid
    <2>4. w.run \in {run, admitted} /\ w.ok \in BOOLEAN
      BY <2>2, <2>3, AppendedFacts
    <2>5. /\ run' = w.run
          /\ spent' \in [faults : 0 .. FaultBudget, refused : BOOLEAN, panicked : BOOLEAN, crashes : 0 .. CrashBudget]
      BY <2>2, <2>3, WriteFacts
    <2>6. [task EXCEPT ![a].phase = "open"] \in [Attempts -> Task]
          /\ [task EXCEPT ![a].phase = "unadmitted", ![a].cancelled = TRUE] \in [Attempts -> Task]
      BY <1>0 DEF Task
    <2>7. task' \in [Attempts -> Task]
      BY <2>2, <2>4, <2>6
    <2>8. active' \in Entry
      BY <1>0, <1>1 DEF Admit, Entry
    <2> QED
      BY <1>0, <1>1, <2>1, <2>4, <2>5, <2>7, <2>8 DEF Admit, WorkflowTypeOK
  <1>2. CASE Open(a)
    <2>1. [task EXCEPT ![a].phase = "loop", ![a].nodes = run.nodes] \in [Attempts -> Task]
      BY <1>0 DEF Task, Run
    <2>2. task' \in [Attempts -> Task]
      <3>1. \/ task' = Ends(a, "failed")
            \/ task' = [task EXCEPT ![a].phase = "loop", ![a].nodes = run.nodes]
        BY <1>2 DEF Open
      <3>2. Ends(a, "failed") \in [Attempts -> Task]
        BY <1>0, EndsType
      <3> QED
        BY <2>1, <3>1, <3>2
    <2>3. spent' \in [faults : 0 .. FaultBudget, refused : BOOLEAN, panicked : BOOLEAN, crashes : 0 .. CrashBudget]
      <3>1. spent \in [faults : 0 .. FaultBudget, refused : BOOLEAN, panicked : BOOLEAN, crashes : 0 .. CrashBudget]
        BY DEF WorkflowTypeOK
      <3>2. CASE UNCHANGED spent
        BY <3>1, <3>2
      <3>3. CASE spent.faults < FaultBudget /\ spent' = [spent EXCEPT !.faults = @ + 1]
        <4>1. spent.faults + 1 \in 0 .. FaultBudget
          BY <3>1, <3>3, WorkflowBoundAssumption
        <4> QED
          BY <3>1, <3>3, <4>1
      <3> QED
        BY <1>2, <3>2, <3>3 DEF Open
    <2> QED
      BY <1>2, <2>2, <2>3 DEF Open, WorkflowTypeOK
  <1>3. CASE Loop(a)
    <2>1. WayOut(task[a]) \in {"none"} \cup Outcome
      BY DEF WayOut, Outcome
    <2>2. First(Ready(task[a].nodes)) \subseteq Steps
      BY DEF First, Ready
    <2>3. [task EXCEPT ![a].phase = IF First(Ready(task[a].nodes)) = {} THEN "join" ELSE "launch",
                       ![a].todo = First(Ready(task[a].nodes))] \in [Attempts -> Task]
      BY <1>0, <2>2 DEF Task
    <2>4. task' \in [Attempts -> Task]
      BY <1>0, <1>3, <2>1, <2>3, EndsType DEF Loop
    <2> QED
      BY <1>3, <2>4 DEF Loop, WorkflowTypeOK
  <1>4. CASE Launch(a)
    <2>0. PICK s \in task[a].todo : \E skip \in SkipChoices(task[a].nodes, s) :
            LET node == [state |-> IF skip THEN "skipped" ELSE "started", attempt |-> task[a].nodes[s].attempt + 1]
            IN \E w \in Appended(MayRecord(s, node), Recorded(s, node)) :
                 /\ Write(w)
                 /\ task' = IF w.ok THEN [task EXCEPT ![a] = AfterLaunch(@, s, node)] ELSE Ends(a, "failed")
      BY <1>4 DEF Launch
    <2>1. PICK skip \in SkipChoices(task[a].nodes, s) :
            LET node == [state |-> IF skip THEN "skipped" ELSE "started", attempt |-> task[a].nodes[s].attempt + 1]
            IN \E w \in Appended(MayRecord(s, node), Recorded(s, node)) :
                 /\ Write(w)
                 /\ task' = IF w.ok THEN [task EXCEPT ![a] = AfterLaunch(@, s, node)] ELSE Ends(a, "failed")
      BY <2>0
    <2> DEFINE node == [state |-> IF skip THEN "skipped" ELSE "started", attempt |-> task[a].nodes[s].attempt + 1]
    <2>2. s \in Steps
      BY <1>0 DEF Task
    <2>3. node \in Node
      BY <1>0, <2>2, NodeType DEF NodeState
    <2>4. PICK w \in Appended(MayRecord(s, node), Recorded(s, node)) :
            /\ Write(w)
            /\ task' = IF w.ok THEN [task EXCEPT ![a] = AfterLaunch(@, s, node)] ELSE Ends(a, "failed")
      BY <2>1
    <2> HIDE DEF node
    <2>5. /\ run' \in Run
          /\ \A x \in Steps : run'.nodes[x].attempt <= MaxTries[x]
          /\ spent' \in [faults : 0 .. FaultBudget, refused : BOOLEAN, panicked : BOOLEAN, crashes : 0 .. CrashBudget]
      BY <2>2, <2>3, <2>4, RecordKeepsTypes
    <2>6. AfterLaunch(task[a], s, node) \in Task
      BY <1>0, <2>2, <2>3, AfterLaunchFacts
    <2>7. Ends(a, "failed") \in [Attempts -> Task]
      BY <1>0, EndsType
    <2>8. task' \in [Attempts -> Task]
      BY <1>0, <2>4, <2>6, <2>7
    <2> QED
      BY <1>4, <2>5, <2>8 DEF Launch, WorkflowTypeOK
  <1>5. ASSUME NEW s \in Steps, Begin(a, s) PROVE WorkflowTypeOK'
    <2>1. task' \in [Attempts -> Task]
      BY <1>0, <1>5 DEF Begin, Task
    <2>2. executed' \in [Steps -> Nat]
      BY <1>5 DEF Begin, WorkflowTypeOK
    <2> QED
      BY <1>5, <2>1, <2>2 DEF Begin, WorkflowTypeOK
  <1>6. ASSUME NEW s \in Steps, Settle(a, s) PROVE WorkflowTypeOK'
    <2>1. PICK state \in {"completed", "failed"} :
            LET node == [state |-> state, attempt |-> task[a].nodes[s].attempt + 1]
            IN \E w \in Appended(MayRecord(s, node), Recorded(s, node)) :
                 /\ Write(w)
                 /\ task' = [task EXCEPT ![a].nodes[s] = node, ![a].effect[s] = "none",
                                         ![a].cancelled = @ \/ ~w.ok, ![a].lost = @ \/ ~w.ok]
                 /\ unknown' = IF task[a].effect[s] = "running" /\ w.run.nodes[s] # node
                               THEN unknown \cup {s} ELSE unknown
      BY <1>6 DEF Settle
    <2> DEFINE node == [state |-> state, attempt |-> task[a].nodes[s].attempt + 1]
    <2>2. node \in Node
      BY <1>0, NodeType DEF NodeState
    <2>3. PICK w \in Appended(MayRecord(s, node), Recorded(s, node)) :
            /\ Write(w)
            /\ task' = [task EXCEPT ![a].nodes[s] = node, ![a].effect[s] = "none",
                                    ![a].cancelled = @ \/ ~w.ok, ![a].lost = @ \/ ~w.ok]
            /\ unknown' = IF task[a].effect[s] = "running" /\ w.run.nodes[s] # node
                          THEN unknown \cup {s} ELSE unknown
      BY <2>1
    <2> HIDE DEF node
    <2>4. /\ run' \in Run
          /\ \A x \in Steps : run'.nodes[x].attempt <= MaxTries[x]
          /\ spent' \in [faults : 0 .. FaultBudget, refused : BOOLEAN, panicked : BOOLEAN, crashes : 0 .. CrashBudget]
      BY <2>2, <2>3, RecordKeepsTypes
    <2>5. task' \in [Attempts -> Task]
      BY <1>0, <2>2, <2>3 DEF Task
    <2>6. unknown' \subseteq Steps
      BY <2>3 DEF WorkflowTypeOK
    <2> QED
      BY <1>6, <2>4, <2>5, <2>6 DEF Settle, WorkflowTypeOK
  <1>7. CASE Joined(a)
    <2>1. task' \in [Attempts -> Task]
      <3>1. [task EXCEPT ![a].phase = "loop"] \in [Attempts -> Task]
        BY <1>0 DEF Task
      <3> QED
        BY <1>0, <1>7, <3>1, EndsType DEF Joined
    <2> QED
      BY <1>7, <2>1 DEF Joined, WorkflowTypeOK
  <1>8. CASE EndAttempt(a)
    <2>1. PICK w \in End(task[a].outcome, CompletedSteps(run.nodes)) : Write(w)
      BY <1>8 DEF EndAttempt
    <2>2. task[a].outcome \in Outcome
      BY <1>0, <1>8 DEF EndAttempt, Task
    <2>3. run' \in Run /\ run'.nodes = run.nodes
          /\ spent' \in [faults : 0 .. FaultBudget, refused : BOOLEAN, panicked : BOOLEAN, crashes : 0 .. CrashBudget]
      BY <2>1, <2>2, EndFacts
    <2>4. task' \in [Attempts -> Task]
      BY <1>0, <1>8, NoTaskType DEF EndAttempt
    <2> QED
      BY <1>0, <1>8, <2>3, <2>4 DEF EndAttempt, WorkflowTypeOK
  <1>9. CASE EndUnadmitted(a)
    <2>1. PICK w \in End("failed", task[a].done) : Write(w)
      BY <1>9 DEF EndUnadmitted
    <2>2. run' \in Run /\ run'.nodes = run.nodes
          /\ spent' \in [faults : 0 .. FaultBudget, refused : BOOLEAN, panicked : BOOLEAN, crashes : 0 .. CrashBudget]
      BY <1>0, <2>1, EndFacts
    <2>3. task' \in [Attempts -> Task]
      BY <1>0, <1>9, NoTaskType DEF EndUnadmitted
    <2> QED
      BY <1>0, <1>9, <2>2, <2>3 DEF EndUnadmitted, WorkflowTypeOK
  <1> QED
    BY <1>1, <1>2, <1>3, <1>4, <1>5, <1>6, <1>7, <1>8, <1>9 DEF TaskStep

\* Every step of the specification keeps the types.
LEMMA TypeStep ==
    ASSUME WorkflowTypeOK, [Next]_vars
    PROVE  WorkflowTypeOK'
  <1>1. CASE UNCHANGED vars
    BY <1>1 DEF vars, WorkflowTypeOK
  <1>2. CASE Next
    BY <1>2, TypeService, TypeOutside, TypeTask DEF Next
  <1> QED
    BY <1>1, <1>2

-----------------------------------------------------------------------------
(* One coordinator, and quiet after the end                                 *)

\* What an attempt's job does to the table of tasks: only its own entry moves.
LEMMA OwnTask ==
    ASSUME WorkflowTypeOK, NEW a \in Attempts, TaskStep(a)
    PROVE  /\ task[a].phase # "none"
           /\ \A b \in Attempts \ {a} : task'[b] = task[b]
  <1>1. task \in [Attempts -> Task]
    BY DEF WorkflowTypeOK
  <1>2. \A o : \A b \in Attempts \ {a} : Ends(a, o)[b] = task[b]
    BY <1>1 DEF Ends
  <1>3. CASE Admit(a)
    BY <1>1, <1>2, <1>3 DEF Admit
  <1>4. CASE Open(a)
    BY <1>1, <1>2, <1>4 DEF Open
  <1>5. CASE Loop(a)
    BY <1>1, <1>2, <1>5 DEF Loop
  <1>6. CASE Launch(a)
    BY <1>1, <1>2, <1>6 DEF Launch
  <1>7. ASSUME NEW s \in Steps, Begin(a, s) \/ Settle(a, s)
        PROVE  task[a].phase # "none" /\ \A b \in Attempts \ {a} : task'[b] = task[b]
    BY <1>1, <1>7 DEF Begin, Settle
  <1>8. CASE Joined(a)
    BY <1>1, <1>2, <1>8 DEF Joined
  <1>9. CASE EndAttempt(a) \/ EndUnadmitted(a)
    BY <1>1, <1>9 DEF EndAttempt, EndUnadmitted
  <1> QED
    BY <1>3, <1>4, <1>5, <1>6, <1>7, <1>8, <1>9 DEF TaskStep

\* An attempt that is over is so in both: its job and the table of the service.
LEMMA OwnClaim ==
    ASSUME WorkflowTypeOK, NEW a \in Attempts, TaskStep(a)
    PROVE  \/ active'.held = active.held
           \/ (EndAttempt(a) \/ EndUnadmitted(a)) /\ task'[a].phase = "none"
  <1>1. active \in Entry /\ task \in [Attempts -> Task]
    BY DEF WorkflowTypeOK
  <1>2. CASE EndAttempt(a) \/ EndUnadmitted(a)
    BY <1>1, <1>2 DEF EndAttempt, EndUnadmitted, NoTask
  <1>3. CASE Admit(a)
    BY <1>1, <1>3 DEF Admit, Entry
  <1>4. CASE ~EndAttempt(a) /\ ~EndUnadmitted(a) /\ ~Admit(a)
    BY <1>4 DEF TaskStep, Open, Loop, Launch, Joined, Begin, Settle
  <1> QED
    BY <1>2, <1>3, <1>4

\* A claim is taken only when none is held, and given back only by its owner.
LEMMA CoordinatorStep ==
    ASSUME WorkflowTypeOK, OneCoordinator, [Next]_vars
    PROVE  OneCoordinator'
  <1>0. task \in [Attempts -> Task] /\ active \in Entry
    BY DEF WorkflowTypeOK
  <1>1. CASE UNCHANGED vars
    BY <1>1 DEF vars, OneCoordinator, Live
  <1>2. ASSUME NEW c \in Callers, Start(c) \/ ReadRun(c) \/ CheckLive(c) \/ AppendResume(c)
                                   \/ CountUnspawned(c) \/ EndUnspawned(c)
        PROVE  OneCoordinator'
    BY <1>2 DEF Start, ReadRun, CheckLive, AppendResume, CountUnspawned, EndUnspawned, OneCoordinator, Live
  <1>3. ASSUME NEW c \in Callers, SpawnAttempt(c) PROVE OneCoordinator'
    <2>1. CASE UNCHANGED <<active, task>>
      BY <2>1 DEF OneCoordinator, Live
    <2>2. CASE MayClaim /\ active' = [Absent EXCEPT !.held = TRUE]
               /\ task' = [task EXCEPT ![caller[c].attempt] = [NoTask EXCEPT !.phase = "new", !.job = nextJob, !.done = caller[c].done]]
      <3>1. \A b \in Attempts : task[b].phase = "none"
        BY <2>2 DEF MayClaim, OneCoordinator, Live
      <3>2. active'.held
        BY <2>2 DEF Absent
      <3>3. \A b \in Attempts : task'[b].phase # "none" => b = caller[c].attempt
        BY <1>0, <2>2, <3>1
      <3> QED
        BY <3>2, <3>3 DEF OneCoordinator, Live
    <2> QED
      BY <1>3, <2>1, <2>2 DEF SpawnAttempt
  <1>4. CASE Pause \/ Cancel \/ Close \/ \E a \in Attempts : CancelJob(a)
    <2>1. \A b \in Attempts : task'[b].phase = task[b].phase
      BY <1>4, OutsideTask
    <2>2. active'.held = active.held
      BY <1>0, <1>4 DEF Pause, Cancel, Close, CancelJob, Entry
    <2> QED
      BY <2>1, <2>2 DEF OneCoordinator, Live
  <1>5. CASE Crash
    BY <1>5 DEF Crash, OneCoordinator, Live, NoTask
  <1>6. ASSUME NEW a \in Attempts, TaskStep(a) PROVE OneCoordinator'
    <2>1. task[a].phase # "none" /\ \A b \in Attempts \ {a} : task'[b] = task[b]
      BY <1>6, OwnTask
    <2>2. active.held /\ \A b \in Attempts \ {a} : task[b].phase = "none"
      BY <2>1 DEF OneCoordinator, Live
    <2>3. active'.held \/ task'[a].phase = "none"
      BY <1>6, <2>2, OwnClaim
    <2> QED
      BY <2>1, <2>2, <2>3 DEF OneCoordinator, Live
  <1>7. ASSUME NEW a \in Attempts, Panic(a) PROVE OneCoordinator'
    <2>1. UNCHANGED active /\ \A b \in Attempts : task'[b].phase # "none" => task'[b].phase = task[b].phase
      BY <1>0, <1>7 DEF Panic, NoTask
    <2> QED
      BY <2>1 DEF OneCoordinator, Live
  <1> QED
    BY <1>1, <1>2, <1>3, <1>4, <1>5, <1>6, <1>7 DEF Next, CallStep

\* What the admission of an attempt's job does.
LEMMA AdmitFacts ==
    ASSUME WorkflowTypeOK, NEW a \in Attempts, Admit(a)
    PROVE  /\ run'.nodes = run.nodes /\ run'.state = run.state
           /\ spent'.refused = spent.refused
           /\ task'[a].effect = task[a].effect
           /\ \/ task'[a].phase = "unadmitted"
              \/ task'[a].phase = "open" /\ run.state = "running"
           /\ run.state = "none" => run' = run
  <1> DEFINE admitted == [run EXCEPT !.jobs[a] = task[a].job]
             valid == MayAdmit(a, task[a].job)
  <1>0. run \in Run /\ task \in [Attempts -> Task] /\ task[a] \in Task
    BY DEF WorkflowTypeOK
  <1>1. admitted.nodes = run.nodes /\ admitted.state = run.state
    BY <1>0 DEF Run
  <1>2. PICK w \in Appended(valid, admitted) :
          /\ Write(w)
          /\ task' = IF w.ok THEN [task EXCEPT ![a].phase = "open"]
                     ELSE [task EXCEPT ![a].phase = "unadmitted", ![a].cancelled = TRUE]
    BY DEF Admit
  <1>3. valid \in BOOLEAN /\ (valid => run.state = "running")
    BY VerdictsAreBoolean DEF MayAdmit
  <1> HIDE DEF valid
  <1>4. /\ w.run \in {run, admitted} /\ w.ok \in BOOLEAN
        /\ w.ok => valid
        /\ ~valid => w.run = run
    BY <1>2, <1>3, AppendedFacts
  <1>5. run' = w.run /\ spent'.refused = spent.refused
    BY <1>2, <1>3, WriteFacts
  <1>6. CASE w.ok
    <2>1. task'[a].phase = "open" /\ task'[a].effect = task[a].effect
      BY <1>0, <1>2, <1>6 DEF Task
    <2> QED
      BY <1>1, <1>3, <1>4, <1>5, <1>6, <2>1
  <1>7. CASE ~w.ok
    <2>1. task'[a].phase = "unadmitted" /\ task'[a].effect = task[a].effect
      BY <1>0, <1>2, <1>7 DEF Task
    <2> QED
      BY <1>1, <1>3, <1>4, <1>5, <2>1
  <1> QED
    BY <1>4, <1>6, <1>7

\* The steps of a worker in its rounds leave the state of the run alone.
LEMMA RoundsKeepState ==
    ASSUME WorkflowTypeOK, NEW a \in Attempts,
           Open(a) \/ Loop(a) \/ Launch(a) \/ Joined(a) \/ \E s \in Steps : Begin(a, s) \/ Settle(a, s)
    PROVE  /\ run'.state = run.state /\ spent'.refused = spent.refused
           /\ task[a].phase \in {"open", "loop", "launch", "join"}
           /\ run.state = "none" => run' = run
  <1>0. task[a] \in Task /\ run \in Run
        /\ spent \in [faults : 0 .. FaultBudget, refused : BOOLEAN, panicked : BOOLEAN, crashes : 0 .. CrashBudget]
    BY DEF WorkflowTypeOK
  <1>1. CASE Loop(a) \/ Joined(a) \/ \E s \in Steps : Begin(a, s)
    BY <1>1 DEF Loop, Joined, Begin
  <1>5. CASE Open(a)
    <2>1. run' = run /\ task[a].phase = "open"
      BY <1>5 DEF Open
    <2>2. spent'.refused = spent.refused
      BY <1>0, <1>5 DEF Open
    <2> QED
      BY <2>1, <2>2
  <1>2. ASSUME NEW s \in Steps, NEW node \in Node, NEW w \in Appended(MayRecord(s, node), Recorded(s, node)), Write(w)
        PROVE  run'.state = run.state /\ spent'.refused = spent.refused /\ (run.state = "none" => run' = run)
    <2>1. run'.state = run.state /\ spent'.refused = spent.refused /\ (run' = run \/ MayRecord(s, node))
      BY <1>2, RecordKeepsTypes
    <2> QED
      BY <2>1 DEF MayRecord
  <1>3. CASE Launch(a)
    <2>1. PICK s \in task[a].todo : \E skip \in SkipChoices(task[a].nodes, s) :
            LET node == [state |-> IF skip THEN "skipped" ELSE "started", attempt |-> task[a].nodes[s].attempt + 1]
            IN \E w \in Appended(MayRecord(s, node), Recorded(s, node)) : Write(w)
      BY <1>3 DEF Launch
    <2>2. PICK skip \in SkipChoices(task[a].nodes, s) :
            LET node == [state |-> IF skip THEN "skipped" ELSE "started", attempt |-> task[a].nodes[s].attempt + 1]
            IN \E w \in Appended(MayRecord(s, node), Recorded(s, node)) : Write(w)
      BY <2>1
    <2> DEFINE node == [state |-> IF skip THEN "skipped" ELSE "started", attempt |-> task[a].nodes[s].attempt + 1]
    <2>3. s \in Steps
      BY <1>0 DEF Task
    <2>4. node \in Node
      BY <1>0, <2>3, NodeType DEF NodeState
    <2>5. \E w \in Appended(MayRecord(s, node), Recorded(s, node)) : Write(w)
      BY <2>2
    <2> HIDE DEF node
    <2> QED
      BY <1>2, <1>3, <2>3, <2>4, <2>5 DEF Launch
  <1>4. ASSUME NEW s \in Steps, Settle(a, s)
        PROVE  run'.state = run.state /\ spent'.refused = spent.refused /\ task[a].phase = "join"
               /\ (run.state = "none" => run' = run)
    <2>1. PICK state \in {"completed", "failed"} :
            LET node == [state |-> state, attempt |-> task[a].nodes[s].attempt + 1]
            IN \E w \in Appended(MayRecord(s, node), Recorded(s, node)) : Write(w)
      BY <1>4 DEF Settle
    <2> DEFINE node == [state |-> state, attempt |-> task[a].nodes[s].attempt + 1]
    <2>2. node \in Node
      BY <1>0, NodeType DEF NodeState
    <2>3. \E w \in Appended(MayRecord(s, node), Recorded(s, node)) : Write(w)
      BY <2>1
    <2> HIDE DEF node
    <2> QED
      BY <1>2, <1>4, <2>2, <2>3 DEF Settle
  <1> QED
    BY <1>1, <1>3, <1>4, <1>5

\* A run ends under no attempt that could still act.
LEMMA ClaimStep ==
    ASSUME WorkflowTypeOK, ClaimInv, [Next]_vars
    PROVE  ClaimInv'
  <1>0. /\ task \in [Attempts -> Task] /\ active \in Entry /\ run \in Run
        /\ caller \in [Callers -> Call]
        /\ spent \in [faults : 0 .. FaultBudget, refused : BOOLEAN, panicked : BOOLEAN, crashes : 0 .. CrashBudget]
    BY DEF WorkflowTypeOK
  <1>1. OneCoordinator'
    BY CoordinatorStep DEF ClaimInv
  <1> DEFINE Refusals == \A c \in Callers : caller[c].at \in {"unspawned", "counted"} => spent.refused
  <1>2. CASE UNCHANGED vars
    BY <1>2 DEF vars, ClaimInv, OneCoordinator, EndedIsQuiet, Live
  <1>3. ASSUME NEW c \in Callers, Start(c) PROVE Refusals' /\ EndedIsQuiet'
    <2> DEFINE started == [NoRun EXCEPT !.state = "running", !.attempt = 1]
    <2>1. PICK w \in Appended(TRUE, started) :
            /\ Write(w)
            /\ caller' = IF w.ok THEN [caller EXCEPT ![c] = [at |-> "spawn", attempt |-> 1, done |-> 0]] ELSE caller
      BY <1>3 DEF Start
    <2>2. w.run \in {run, started} /\ w.ok \in BOOLEAN
      BY <2>1, AppendedFacts
    <2>3. run' = w.run /\ spent'.refused = spent.refused
      BY <2>1, WriteFacts
    <2>4. run' = run \/ run'.state = "running"
      BY <2>2, <2>3 DEF NoRun
    <2>5. Refusals'
      BY <1>0, <2>1, <2>2, <2>3 DEF ClaimInv
    <2> QED
      BY <1>3, <2>3, <2>4, <2>5 DEF Start, ClaimInv, EndedIsQuiet, Outcome
  <1>4. ASSUME NEW c \in Callers, ReadRun(c) \/ CheckLive(c) PROVE Refusals' /\ EndedIsQuiet'
    <2>1. Refusals'
      BY <1>0, <1>4 DEF ReadRun, CheckLive, AtRest, Call, ClaimInv
    <2> QED
      BY <1>4, <2>1 DEF ReadRun, CheckLive, ClaimInv, EndedIsQuiet
  <1>5. ASSUME NEW c \in Callers, AppendResume(c) PROVE Refusals' /\ EndedIsQuiet'
    <2> DEFINE a == caller[c].attempt
               resumed == [run EXCEPT !.attempt = a, !.busy = FALSE, !.state = "running"]
               valid == MayResume(a, caller[c].done)
    <2>1. PICK w \in Appended(valid, resumed) :
            /\ Write(w)
            /\ caller' = [caller EXCEPT ![c] = IF w.ok THEN [@ EXCEPT !.at = "spawn"] ELSE AtRest]
      BY <1>5 DEF AppendResume
    <2>2. valid \in BOOLEAN
      BY VerdictsAreBoolean
    <2>3. w.run \in {run, resumed}
      BY <2>1, <2>2, AppendedFacts
    <2>4. run' = w.run /\ spent'.refused = spent.refused
      BY <2>1, <2>2, WriteFacts
    <2>5. run' = run \/ run'.state = "running"
      BY <1>0, <2>3, <2>4 DEF Run
    <2>6. Refusals'
      BY <1>0, <2>1, <2>4 DEF AtRest, Call, ClaimInv
    <2> QED
      BY <1>5, <2>4, <2>5, <2>6 DEF AppendResume, ClaimInv, EndedIsQuiet, Outcome
  <1>6. ASSUME NEW c \in Callers, SpawnAttempt(c) PROVE Refusals' /\ EndedIsQuiet'
    <2>1. /\ spent'.refused = spent.refused \/ spent'.refused
          /\ caller'[c].at = "idle" \/ spent'.refused
          /\ \A x \in Callers \ {c} : caller'[x] = caller[x]
      <3>0. (caller'[c].at = "idle" /\ UNCHANGED spent) \/ spent'.refused
        <4>1. CASE caller' = [caller EXCEPT ![c] = AtRest] /\ UNCHANGED spent
          BY <1>0, <4>1 DEF AtRest
        <4>2. CASE spent' = [spent EXCEPT !.faults = @ + 1, !.refused = TRUE]
          BY <1>0, <4>2
        <4> QED
          BY <1>6, <4>1, <4>2 DEF SpawnAttempt
      <3>1. \A x \in Callers \ {c} : caller'[x] = caller[x]
        <4>1. CASE caller' = [caller EXCEPT ![c] = AtRest]
          BY <1>0, <4>1
        <4>2. CASE caller' = [caller EXCEPT ![c].at = "unspawned"]
          BY <1>0, <4>2
        <4> QED
          BY <1>6, <4>1, <4>2 DEF SpawnAttempt
      <3> QED
        BY <3>0, <3>1
    <2>2. \A b \in Attempts : task'[b].phase = task[b].phase \/ task'[b].phase = "new"
      <3> DEFINE fresh == [NoTask EXCEPT !.phase = "new", !.job = nextJob, !.done = caller[c].done]
      <3>1. UNCHANGED task \/ task' = [task EXCEPT ![caller[c].attempt] = fresh]
        BY <1>6 DEF SpawnAttempt
      <3>2. fresh.phase = "new"
        BY DEF NoTask
      <3> HIDE DEF fresh
      <3> QED
        BY <1>0, <3>1, <3>2
    <2>3. run' = run
      BY <1>6 DEF SpawnAttempt
    <2>4. Refusals'
      BY <2>1 DEF ClaimInv
    <2> QED
      BY <2>1, <2>2, <2>3, <2>4 DEF ClaimInv, EndedIsQuiet
  <1>7. ASSUME NEW c \in Callers, EndUnspawned(c) PROVE Refusals' /\ EndedIsQuiet'
    <2>1. PICK w \in End("failed", caller[c].done) : Write(w)
      BY <1>7 DEF EndUnspawned
    <2>2. "failed" \in Outcome
      BY DEF Outcome
    <2>3. spent'.refused = spent.refused
      BY <2>1, <2>2, EndFacts
    <2>4. spent.refused
      BY <1>7 DEF EndUnspawned, ClaimInv
    <2> QED
      BY <2>3, <2>4 DEF EndedIsQuiet
  <1>13. ASSUME NEW c \in Callers, CountUnspawned(c) PROVE Refusals' /\ EndedIsQuiet'
    <2>1. UNCHANGED <<run, task, spent>> /\ spent.refused
      BY <1>13 DEF CountUnspawned, ClaimInv
    <2> QED
      BY <2>1 DEF EndedIsQuiet
  <1>8. ASSUME Pause \/ Close \/ \E a \in Attempts : CancelJob(a) PROVE Refusals' /\ EndedIsQuiet'
    <2>1. \A b \in Attempts : task'[b].phase = task[b].phase
      BY <1>8, OutsideTask
    <2>2. UNCHANGED <<run, caller, spent>>
      BY <1>8 DEF Pause, Close, CancelJob
    <2> QED
      BY <2>1, <2>2 DEF ClaimInv, EndedIsQuiet
  <1>9. ASSUME Cancel PROVE Refusals' /\ EndedIsQuiet'
    <2>0. UNCHANGED caller
      BY <1>9 DEF Cancel
    <2>1. CASE UNCHANGED <<run, spent>>
      <3>1. \A b \in Attempts : task'[b].phase = task[b].phase
        BY <1>9, OutsideTask
      <3> QED
        BY <2>0, <2>1, <3>1 DEF ClaimInv, EndedIsQuiet
    <2>2. CASE ~active.held /\ UNCHANGED task /\ \E w \in End("cancelled", CompletedSteps(run.nodes)) : Write(w)
      <3>1. \A b \in Attempts : task'[b].phase = "none"
        BY <2>2 DEF ClaimInv, OneCoordinator, Live
      <3>2. "cancelled" \in Outcome
        BY DEF Outcome
      <3>3. spent'.refused = spent.refused
        BY <2>2, <3>2, EndFacts
      <3> QED
        BY <2>0, <3>1, <3>3 DEF ClaimInv, EndedIsQuiet
    <2> QED
      BY <1>9, <2>1, <2>2 DEF Cancel
  <1>10. ASSUME Crash PROVE Refusals' /\ EndedIsQuiet'
    BY <1>0, <1>10 DEF Crash, EndedIsQuiet, NoTask, AtRest
  <1>11. ASSUME NEW a \in Attempts, TaskStep(a) PROVE Refusals' /\ EndedIsQuiet'
    <2>1. \A b \in Attempts \ {a} : task'[b].phase = "none"
      BY <1>11, OwnTask DEF ClaimInv, OneCoordinator, Live
    <2>2. UNCHANGED caller
      BY <1>11 DEF TaskStep, Admit, EndUnadmitted, Open, Loop, Launch, Joined, EndAttempt, Begin, Settle
    <2>3. CASE Admit(a)
      BY <2>1, <2>2, <2>3, AdmitFacts DEF ClaimInv, EndedIsQuiet, Outcome
    <2>4. CASE EndAttempt(a)
      <3>1. PICK w \in End(task[a].outcome, CompletedSteps(run.nodes)) : Write(w)
        BY <2>4 DEF EndAttempt
      <3>2. task[a].outcome \in Outcome
        BY <1>0, <2>4 DEF EndAttempt, Task
      <3>3. spent'.refused = spent.refused
        BY <3>1, <3>2, EndFacts
      <3>4. task'[a].phase = "none"
        BY <1>0, <2>4 DEF EndAttempt, NoTask
      <3> QED
        BY <2>1, <2>2, <3>3, <3>4 DEF ClaimInv, EndedIsQuiet
    <2>6. CASE EndUnadmitted(a)
      <3>1. PICK w \in End("failed", task[a].done) : Write(w)
        BY <2>6 DEF EndUnadmitted
      <3>2. "failed" \in Outcome
        BY DEF Outcome
      <3>3. spent'.refused = spent.refused
        BY <3>1, <3>2, EndFacts
      <3>4. task'[a].phase = "none"
        BY <1>0, <2>6 DEF EndUnadmitted, NoTask
      <3> QED
        BY <2>1, <2>2, <3>3, <3>4 DEF ClaimInv, EndedIsQuiet
    <2>5. CASE ~Admit(a) /\ ~EndAttempt(a) /\ ~EndUnadmitted(a)
      <3>1. /\ run'.state = run.state /\ spent'.refused = spent.refused
            /\ task[a].phase \in {"open", "loop", "launch", "join"}
        BY <1>11, <2>5, RoundsKeepState DEF TaskStep
      <3>2. run.state \in Outcome => spent.refused
        BY <3>1 DEF ClaimInv, EndedIsQuiet
      <3> QED
        BY <2>2, <3>1, <3>2 DEF ClaimInv, EndedIsQuiet
    <2> QED
      BY <2>3, <2>4, <2>5, <2>6
  <1>14. ASSUME NEW a \in Attempts, Panic(a) PROVE Refusals' /\ EndedIsQuiet'
    <2>1. UNCHANGED <<run, caller>>
          /\ \A b \in Attempts : task'[b].phase = "none" \/ task'[b].phase = task[b].phase
      BY <1>0, <1>14 DEF Panic, NoTask
    <2>2. spent'.refused = spent.refused
      BY <1>0, <1>14 DEF Panic
    <2> QED
      BY <2>1, <2>2 DEF ClaimInv, EndedIsQuiet
  <1>12. CASE Next
    BY <1>1, <1>3, <1>4, <1>5, <1>6, <1>7, <1>8, <1>9, <1>10, <1>11, <1>12, <1>13, <1>14 DEF Next, CallStep, ClaimInv
  <1> QED
    BY <1>2, <1>12

-----------------------------------------------------------------------------
(* Effects                                                                  *)

Rounds == {"loop", "launch", "join"}

\* A step that leaves the nodes of the journal and the world alone, starts no
\* effect, and lets a worker into its rounds only with the nodes of the journal.
LEMMA QuietStep ==
    ASSUME WorkflowTypeOK, EffectInv,
           run'.nodes = run.nodes,
           run'.state = "none" => run' = run /\ run.state = "none",
           UNCHANGED <<executed, unknown>>,
           \A a \in Attempts, s \in Steps : task'[a].effect[s] # "none" =>
               task'[a].effect[s] = task[a].effect[s] /\ task'[a].phase \in {"launch", "join"},
           \A a \in Attempts : task'[a].phase \in Rounds =>
               \/ task[a].phase \in Rounds /\ task'[a].nodes = task[a].nodes
               \/ task'[a].nodes = run.nodes
    PROVE  EffectInv'
  <1>1. NodesInv'
    BY DEF EffectInv, NodesInv
  <1>2. IntentInv'
    BY DEF EffectInv, IntentInv
  <1>3. CountInv'
    BY DEF EffectInv, CountInv
  <1>4. UnknownInv'
    <2>1. \A s \in unknown : run'.nodes[s].state = "started"
      BY DEF EffectInv, UnknownInv
    <2>2. \A s \in unknown : \A a \in Attempts : task'[a].effect[s] = "none"
      BY DEF EffectInv, UnknownInv, WorkflowTypeOK
    <2> QED
      BY <2>1, <2>2 DEF EffectInv, UnknownInv
  <1>5. SkipInv'
    BY DEF EffectInv, SkipInv, Rounds
  <1>6. InputsWereThere'
    BY DEF EffectInv, InputsWereThere
  <1> QED
    BY <1>1, <1>2, <1>3, <1>4, <1>5, <1>6 DEF EffectInv

\* An effect that takes place was announced, counted and has its inputs.
LEMMA BeginStep ==
    ASSUME WorkflowTypeOK, OneCoordinator, EffectInv, NEW a \in Attempts, NEW s \in Steps, Begin(a, s)
    PROVE  EffectInv'
  <1>0. task \in [Attempts -> Task] /\ executed \in [Steps -> Nat] /\ run \in Run
    BY DEF WorkflowTypeOK
  <1>1. /\ UNCHANGED <<run, unknown>>
        /\ task[a].phase = "join" /\ task[a].effect[s] = "queued"
        /\ task' = [task EXCEPT ![a].effect[s] = "running"]
        /\ executed' = [executed EXCEPT ![s] = @ + 1]
    BY DEF Begin
  <1>2. /\ \A b \in Attempts : task'[b].phase = task[b].phase /\ task'[b].nodes = task[b].nodes
        /\ \A b \in Attempts, x \in Steps : (b # a \/ x # s) => task'[b].effect[x] = task[b].effect[x]
        /\ task'[a].effect[s] = "running"
    BY <1>0, <1>1 DEF Task
  <1>3. /\ run.nodes[s].state = "started" /\ executed[s] < run.nodes[s].attempt
        /\ \A d \in DependsOn[s] : run.nodes[d].state = "completed"
        /\ s \notin unknown
    BY <1>1 DEF EffectInv, IntentInv, CountInv, UnknownInv
  <1>4. NodesInv' /\ SkipInv'
    BY <1>1, <1>2 DEF EffectInv, NodesInv, SkipInv
  <1>5. IntentInv'
    BY <1>1, <1>2, <1>3 DEF EffectInv, IntentInv
  <1>6. CountInv'
    <2>1. \A b \in Attempts \ {a} : task[b].effect[s] = "none"
      BY <1>1 DEF OneCoordinator, Live, EffectInv, IntentInv
    <2>2. run.nodes[s].attempt \in Nat
      BY <1>0 DEF Run, Node
    <2>3. executed'[s] <= run.nodes[s].attempt
      BY <1>0, <1>1, <1>3, <2>2
    <2>4. \A b \in Attempts : task'[b].effect[s] # "queued"
      BY <1>2, <2>1
    <2>5. \A x \in Steps \ {s} : executed'[x] = executed[x]
      BY <1>0, <1>1
    <2> QED
      BY <1>1, <1>2, <2>3, <2>4, <2>5 DEF EffectInv, CountInv
  <1>7. UnknownInv'
    <2>1. unknown \subseteq Steps
      BY DEF WorkflowTypeOK
    <2> QED
      BY <1>1, <1>2, <1>3, <2>1 DEF EffectInv, UnknownInv
  <1>8. InputsWereThere'
    BY <1>0, <1>1, <1>3 DEF EffectInv, InputsWereThere
  <1> QED
    BY <1>4, <1>5, <1>6, <1>7, <1>8 DEF EffectInv

\* The end of the process turns the running effects into unknown ones.
LEMMA CrashStep ==
    ASSUME WorkflowTypeOK, EffectInv, Crash
    PROVE  EffectInv'
  <1>1. /\ UNCHANGED <<run, executed>>
        /\ \A a \in Attempts : task'[a].phase = "none" /\ \A s \in Steps : task'[a].effect[s] = "none"
    BY DEF Crash, NoTask
  <1>2. \A s \in unknown' : s \in Steps /\ run.nodes[s].state = "started"
    <2>1. \A s \in unknown : s \in Steps /\ run.nodes[s].state = "started"
      BY DEF EffectInv, UnknownInv, WorkflowTypeOK
    <2>2. \A a \in Attempts, s \in Steps : task[a].effect[s] = "running" => run.nodes[s].state = "started"
      BY DEF EffectInv, IntentInv
    <2> QED
      BY <2>1, <2>2 DEF Crash
  <1>3. NodesInv' /\ InputsWereThere'
    BY <1>1 DEF EffectInv, NodesInv, InputsWereThere
  <1>4. IntentInv' /\ CountInv' /\ SkipInv'
    BY <1>1 DEF EffectInv, IntentInv, CountInv, SkipInv
  <1>5. UnknownInv'
    BY <1>1, <1>2 DEF UnknownInv
  <1> QED
    BY <1>3, <1>4, <1>5 DEF EffectInv

\* So does a panic, for the effects of the one attempt.
LEMMA PanicStep ==
    ASSUME WorkflowTypeOK, OneCoordinator, EffectInv, NEW a \in Attempts, Panic(a)
    PROVE  EffectInv'
  <1>0. task \in [Attempts -> Task]
    BY DEF WorkflowTypeOK
  <1>1. \A b \in Attempts \ {a} : task'[b] = task[b] /\ task[b].phase = "none"
    BY <1>0 DEF Panic, OneCoordinator, Live
  <1>2. /\ UNCHANGED <<run, executed>>
        /\ task'[a].phase = "none" /\ \A s \in Steps : task'[a].effect[s] = "none"
    BY <1>0 DEF Panic, NoTask
  <1>3. \A b \in Attempts : task'[b].phase = "none" /\ \A s \in Steps : task'[b].effect[s] = "none"
    BY <1>1, <1>2 DEF EffectInv, IntentInv
  <1>4. \A s \in unknown' : s \in Steps /\ run.nodes[s].state = "started"
    <2>1. \A s \in unknown : s \in Steps /\ run.nodes[s].state = "started"
      BY DEF EffectInv, UnknownInv, WorkflowTypeOK
    <2>2. \A s \in Steps : task[a].effect[s] = "running" => run.nodes[s].state = "started"
      BY DEF EffectInv, IntentInv
    <2> QED
      BY <2>1, <2>2 DEF Panic
  <1>5. NodesInv' /\ InputsWereThere'
    BY <1>2 DEF EffectInv, NodesInv, InputsWereThere
  <1>6. IntentInv' /\ CountInv' /\ SkipInv'
    BY <1>2, <1>3 DEF EffectInv, IntentInv, CountInv, SkipInv
  <1>7. UnknownInv'
    BY <1>2, <1>3, <1>4 DEF UnknownInv
  <1> QED
    BY <1>5, <1>6, <1>7 DEF EffectInv

\* The journal takes an intent or a skip of a step only when no effect of the
\* step is open, and the worker that queues the effect has all its inputs.
LEMMA LaunchStep ==
    ASSUME WorkflowTypeOK, OneCoordinator, EffectInv, NEW a \in Attempts, Launch(a)
    PROVE  EffectInv'
  <1>0. task \in [Attempts -> Task] /\ task[a] \in Task /\ run \in Run /\ run.nodes \in [Steps -> Node]
        /\ executed \in [Steps -> Nat] /\ task[a].phase = "launch" /\ UNCHANGED <<executed, unknown>>
        /\ unknown \subseteq Steps
    BY DEF WorkflowTypeOK, Launch, Run
  <1>1. PICK s \in task[a].todo : \E skip \in SkipChoices(task[a].nodes, s) :
          LET node == [state |-> IF skip THEN "skipped" ELSE "started", attempt |-> task[a].nodes[s].attempt + 1]
          IN \E w \in Appended(MayRecord(s, node), Recorded(s, node)) :
               /\ Write(w)
               /\ task' = IF w.ok THEN [task EXCEPT ![a] = AfterLaunch(@, s, node)] ELSE Ends(a, "failed")
    BY DEF Launch
  <1>2. PICK skip \in SkipChoices(task[a].nodes, s) :
          LET node == [state |-> IF skip THEN "skipped" ELSE "started", attempt |-> task[a].nodes[s].attempt + 1]
          IN \E w \in Appended(MayRecord(s, node), Recorded(s, node)) :
               /\ Write(w)
               /\ task' = IF w.ok THEN [task EXCEPT ![a] = AfterLaunch(@, s, node)] ELSE Ends(a, "failed")
    BY <1>1
  <1> DEFINE node == [state |-> IF skip THEN "skipped" ELSE "started", attempt |-> task[a].nodes[s].attempt + 1]
  <1>3. s \in Steps
    BY <1>0 DEF Task
  <1>4. node \in Node
    BY <1>0, <1>3, NodeType DEF NodeState
  <1>5. PICK w \in Appended(MayRecord(s, node), Recorded(s, node)) :
          /\ Write(w)
          /\ task' = IF w.ok THEN [task EXCEPT ![a] = AfterLaunch(@, s, node)] ELSE Ends(a, "failed")
    BY <1>2
  <1>6. node.state \in {"started", "skipped"} /\ (node.state = "started" => ~skip)
    OBVIOUS
  <1>7. node.state = "started" => \A d \in DependsOn[s] : task[a].nodes[d].state # "skipped"
    BY <1>6 DEF SkipChoices
  <1> HIDE DEF node
  <1>8. /\ run'.state = run.state
        /\ \/ run' = run /\ ~w.ok
           \/ MayRecord(s, node) /\ run'.nodes = [run.nodes EXCEPT ![s] = node]
    BY <1>3, <1>4, <1>5, RecordKeepsTypes
  <1>9. ~w.ok => \A b \in Attempts :
           /\ b # a => task'[b] = task[b]
           /\ b = a => task'[b].phase = "ending" /\ task'[b].effect = [x \in Steps |-> "none"]
    BY <1>0, <1>5 DEF Ends, NoTask
  <1>10. w.ok => \A b \in Attempts :
           /\ b # a => task'[b] = task[b]
           /\ b = a => /\ task'[b].phase \in {"launch", "join"}
                       /\ task'[b].effect = [task[a].effect EXCEPT ![s] = IF node.state = "skipped" THEN "none" ELSE "queued"]
                       /\ task'[b].nodes = [task[a].nodes EXCEPT ![s] = IF node.state = "skipped" THEN node ELSE @]
    <2>1. LET u == AfterLaunch(task[a], s, node)
          IN  /\ u.phase \in {"launch", "join"}
              /\ u.effect = [task[a].effect EXCEPT ![s] = IF node.state = "skipped" THEN "none" ELSE "queued"]
              /\ u.nodes = [task[a].nodes EXCEPT ![s] = IF node.state = "skipped" THEN node ELSE @]
      BY <1>0, <1>3, <1>4, AfterLaunchFacts
    <2>2. w.ok => task' = [task EXCEPT ![a] = AfterLaunch(task[a], s, node)]
      BY <1>5
    <2> HIDE DEF AfterLaunch
    <2> QED
      BY <1>0, <2>1, <2>2
  <1>11. \A b \in Attempts \ {a} : task[b].phase = "none" /\ \A x \in Steps : task[b].effect[x] = "none"
    BY <1>0 DEF OneCoordinator, Live, EffectInv, IntentInv
  <1>12. CASE run' = run /\ ~w.ok
    <2>1. \A b \in Attempts, x \in Steps : task'[b].effect[x] # "none" =>
             task'[b].effect[x] = task[b].effect[x] /\ task'[b].phase \in {"launch", "join"}
      BY <1>9, <1>11, <1>12
    <2>2. \A b \in Attempts : task'[b].phase \notin Rounds
      BY <1>9, <1>11, <1>12 DEF Rounds
    <2> QED
      BY <1>0, <1>12, <2>1, <2>2, QuietStep
  <1>13. CASE MayRecord(s, node) /\ run'.nodes = [run.nodes EXCEPT ![s] = node]
    <2>1. run.state = "running" /\ \A d \in DependsOn[s] : Settled(run.nodes[d])
      BY <1>13 DEF MayRecord
    <2>2. \/ run.nodes[s].state = "none" /\ node.attempt = 1
          \/ /\ run.nodes[s].state = "failed" /\ node.state = "started"
             /\ node.attempt = run.nodes[s].attempt + 1 /\ s \in ReplaySafe
      BY <1>6, <1>13 DEF MayRecord
    <2>3. run'.nodes[s] = node /\ \A x \in Steps \ {s} : run'.nodes[x] = run.nodes[x]
      BY <1>0, <1>3, <1>13
    <2>4. executed[s] < node.attempt /\ executed[s] <= node.attempt
      <3>1. executed[s] <= run.nodes[s].attempt /\ (run.nodes[s].state = "none" => run.nodes[s].attempt = 0)
        BY <1>3 DEF EffectInv, CountInv, NodesInv
      <3>2. executed[s] \in Nat /\ run.nodes[s].attempt \in Nat
        BY <1>0, <1>3 DEF Node
      <3> QED
        BY <2>2, <3>1, <3>2
    <2>5. \A b \in Attempts : task[b].effect[s] = "none"
      BY <1>3, <2>2 DEF EffectInv, IntentInv, WorkflowTypeOK
    <2>6. \A b \in Attempts, x \in Steps \ {s} : task'[b].effect[x] # "none" =>
             /\ task'[b].effect[x] = task[b].effect[x]
             /\ task'[b].phase \in {"launch", "join"}
      BY <1>0, <1>9, <1>10, <1>11 DEF Task
    <2>7. \A b \in Attempts : task'[b].effect[s] # "none" =>
             /\ task'[b].effect[s] = "queued" /\ node.state = "started"
             /\ task'[b].phase \in {"launch", "join"}
      BY <1>0, <1>3, <1>6, <1>9, <1>10, <1>11 DEF Task
    <2>8. node.state = "started" => \A d \in DependsOn[s] : run.nodes[d].state = "completed" /\ d # s
      <3>1. \A d \in DependsOn[s] : d \in Steps
        BY <1>3, GraphAssumption
      <3>2. \A d \in DependsOn[s] : run.nodes[d].state = "skipped" => task[a].nodes[d].state = "skipped"
        BY <1>0, <3>1 DEF EffectInv, SkipInv
      <3> QED
        BY <1>7, <2>1, <2>2, <3>1, <3>2 DEF Settled
    <2>9. \A x \in Steps : (\A d \in DependsOn[x] : run.nodes[d].state = "completed") =>
             \A d \in DependsOn[x] : run'.nodes[d].state = "completed"
      <3>1. run.nodes[s].state # "completed"
        BY <2>2
      <3>2. \A x \in Steps : \A d \in DependsOn[x] : d \in Steps
        BY GraphAssumption
      <3> QED
        BY <2>3, <3>1, <3>2
    <2>10. NodesInv'
      <3>1. run'.state # "none"
        BY <1>8, <2>1
      <3>2. s \notin ReplaySafe => node.attempt <= 1
        BY <2>2
      <3>3. node.state # "none"
        BY <1>6
      <3> QED
        BY <1>3, <2>3, <3>1, <3>2, <3>3 DEF EffectInv, NodesInv
    <2>11. IntentInv'
      <3>1. ASSUME NEW b \in Attempts, NEW x \in Steps \ {s}, task'[b].effect[x] # "none"
            PROVE  /\ task'[b].phase \in {"launch", "join"}
                   /\ run'.nodes[x].state = "started"
                   /\ \A d \in DependsOn[x] : run'.nodes[d].state = "completed"
        <4>1. task[b].effect[x] # "none" /\ task'[b].phase \in {"launch", "join"}
          BY <2>6, <3>1
        <4>2. run.nodes[x].state = "started" /\ \A d \in DependsOn[x] : run.nodes[d].state = "completed"
          BY <4>1 DEF EffectInv, IntentInv
        <4> QED
          BY <2>3, <2>9, <4>1, <4>2
      <3>2. ASSUME NEW b \in Attempts, task'[b].effect[s] # "none"
            PROVE  /\ task'[b].phase \in {"launch", "join"}
                   /\ run'.nodes[s].state = "started"
                   /\ \A d \in DependsOn[s] : run'.nodes[d].state = "completed"
        BY <1>3, <2>3, <2>7, <2>8, <2>9, <3>2
      <3> QED
        BY <3>1, <3>2 DEF IntentInv
    <2>12. CountInv'
      <3>1. \A x \in Steps \ {s} : executed'[x] <= run'.nodes[x].attempt
              /\ \A b \in Attempts : task'[b].effect[x] = "queued" => executed'[x] < run'.nodes[x].attempt
        <4>1. \A x \in Steps \ {s}, b \in Attempts : task'[b].effect[x] = "queued" => task[b].effect[x] = "queued"
          BY <2>6
        <4> QED
          BY <1>0, <2>3, <4>1 DEF EffectInv, CountInv
      <3>2. executed'[s] <= run'.nodes[s].attempt /\ executed'[s] < run'.nodes[s].attempt
        BY <1>0, <2>3, <2>4
      <3> QED
        BY <3>1, <3>2 DEF CountInv
    <2>13. UnknownInv'
      <3>1. s \notin unknown
        BY <2>2 DEF EffectInv, UnknownInv
      <3>2. \A x \in unknown : x \in Steps \ {s} /\ run.nodes[x].state = "started"
               /\ \A b \in Attempts : task[b].effect[x] = "none"
        BY <1>0, <3>1 DEF EffectInv, UnknownInv
      <3>3. \A x \in unknown : run'.nodes[x].state = "started" /\ \A b \in Attempts : task'[b].effect[x] = "none"
        BY <2>3, <2>6, <3>2
      <3> QED
        BY <1>0, <3>3 DEF UnknownInv
    <2>14. SkipInv'
      <3>1. \A b \in Attempts : task'[b].phase \in {"loop", "launch", "join"} => b = a /\ w.ok
        BY <1>5, <1>9, <1>10, <1>11
      <3>2. \A d \in Steps : run.nodes[d].state = "skipped" => task[a].nodes[d].state = "skipped"
        BY <1>0 DEF EffectInv, SkipInv
      <3>3. w.ok => \A d \in Steps : run'.nodes[d].state = "skipped" => task'[a].nodes[d].state = "skipped"
        <4>1. w.ok => task'[a].nodes = [task[a].nodes EXCEPT ![s] = IF node.state = "skipped" THEN node ELSE @]
          BY <1>10
        <4>2. task[a].nodes \in [Steps -> Node]
          BY <1>0 DEF Task
        <4>3. w.ok => \A d \in Steps \ {s} : task'[a].nodes[d] = task[a].nodes[d]
          BY <4>1, <4>2
        <4>4. w.ok /\ node.state = "skipped" => task'[a].nodes[s] = node
          BY <1>3, <4>1, <4>2
        <4> QED
          BY <2>3, <3>2, <4>3, <4>4
      <3> QED
        BY <3>1, <3>3 DEF SkipInv
    <2>15. InputsWereThere'
      BY <1>0, <2>9 DEF EffectInv, InputsWereThere
    <2> QED
      BY <2>10, <2>11, <2>12, <2>13, <2>14, <2>15 DEF EffectInv
  <1> QED
    BY <1>8, <1>12, <1>13

\* A result closes the intent it belongs to; one that does not reach the
\* journal leaves the intent open and the outcome unknown.
LEMMA SettleStep ==
    ASSUME WorkflowTypeOK, OneCoordinator, EffectInv, NEW a \in Attempts, NEW s \in Steps, Settle(a, s)
    PROVE  EffectInv'
  <1>0. task \in [Attempts -> Task] /\ task[a] \in Task /\ run \in Run /\ run.nodes \in [Steps -> Node]
        /\ executed \in [Steps -> Nat] /\ task[a].phase = "join" /\ task[a].effect[s] # "none"
        /\ UNCHANGED executed /\ unknown \subseteq Steps
    BY DEF WorkflowTypeOK, Settle, Run
  <1>1. PICK state \in {"completed", "failed"} :
          LET node == [state |-> state, attempt |-> task[a].nodes[s].attempt + 1]
          IN \E w \in Appended(MayRecord(s, node), Recorded(s, node)) :
               /\ Write(w)
               /\ task' = [task EXCEPT ![a].nodes[s] = node, ![a].effect[s] = "none",
                                       ![a].cancelled = @ \/ ~w.ok, ![a].lost = @ \/ ~w.ok]
               /\ unknown' = IF task[a].effect[s] = "running" /\ w.run.nodes[s] # node
                             THEN unknown \cup {s} ELSE unknown
    BY DEF Settle
  <1> DEFINE node == [state |-> state, attempt |-> task[a].nodes[s].attempt + 1]
  <1>2. node \in Node
    BY <1>0, NodeType DEF NodeState
  <1>3. PICK w \in Appended(MayRecord(s, node), Recorded(s, node)) :
          /\ Write(w)
          /\ task' = [task EXCEPT ![a].nodes[s] = node, ![a].effect[s] = "none",
                                  ![a].cancelled = @ \/ ~w.ok, ![a].lost = @ \/ ~w.ok]
          /\ unknown' = IF task[a].effect[s] = "running" /\ w.run.nodes[s] # node
                        THEN unknown \cup {s} ELSE unknown
    BY <1>1
  <1>4. node.state \in {"completed", "failed"}
    OBVIOUS
  <1> HIDE DEF node
  <1>5. /\ run'.state = run.state
        /\ \/ run' = run /\ ~w.ok
           \/ MayRecord(s, node) /\ run'.nodes = [run.nodes EXCEPT ![s] = node]
    BY <1>2, <1>3, RecordKeepsTypes
  <1>6. run' = w.run
    BY <1>2, <1>3, WriteFacts, VerdictsAreBoolean
  <1>7. /\ \A b \in Attempts \ {a} : task'[b] = task[b]
        /\ task'[a].phase = "join"
        /\ task'[a].effect = [task[a].effect EXCEPT ![s] = "none"]
        /\ task'[a].nodes = [task[a].nodes EXCEPT ![s] = node]
    BY <1>0, <1>3 DEF Task
  <1>8. \A b \in Attempts \ {a} : task[b].phase = "none" /\ \A x \in Steps : task[b].effect[x] = "none"
    BY <1>0 DEF OneCoordinator, Live, EffectInv, IntentInv
  <1>9. /\ \A b \in Attempts : task'[b].effect[s] = "none"
        /\ \A b \in Attempts, x \in Steps \ {s} : task'[b].effect[x] = task[b].effect[x]
        /\ \A b \in Attempts : task'[b].phase = task[b].phase
    <2>1. task[a].effect \in [Steps -> {"none", "queued", "running"}]
      BY <1>0 DEF Task
    <2>2. task'[a].effect[s] = "none" /\ \A x \in Steps \ {s} : task'[a].effect[x] = task[a].effect[x]
      BY <1>7, <2>1
    <2>3. ASSUME NEW b \in Attempts
          PROVE  /\ task'[b].effect[s] = "none"
                 /\ \A x \in Steps \ {s} : task'[b].effect[x] = task[b].effect[x]
                 /\ task'[b].phase = task[b].phase
      <3>1. CASE b = a
        BY <1>0, <1>7, <2>2, <3>1
      <3>2. CASE b # a
        BY <1>7, <1>8, <3>2
      <3> QED
        BY <3>1, <3>2
    <2> QED
      BY <2>3
  <1>10. run.nodes[s].state = "started" /\ s \notin unknown
    BY <1>0 DEF EffectInv, IntentInv, UnknownInv
  <1>11. /\ run'.nodes[s].attempt = run.nodes[s].attempt
         /\ run'.nodes[s] = run.nodes[s] \/ run'.nodes[s] = node
         /\ \A x \in Steps \ {s} : run'.nodes[x] = run.nodes[x]
         /\ run'.state = "none" => run' = run
    <2>1. CASE run' = run
      BY <2>1
    <2>2. CASE MayRecord(s, node) /\ run'.nodes = [run.nodes EXCEPT ![s] = node]
      <3>1. run.nodes[s] = [node EXCEPT !.state = "started"] /\ run.state = "running"
        BY <1>4, <2>2 DEF MayRecord
      <3>2. run.nodes[s].attempt = node.attempt
        BY <1>2, <3>1 DEF Node
      <3>3. run'.nodes[s] = node /\ \A x \in Steps \ {s} : run'.nodes[x] = run.nodes[x]
        BY <1>0, <2>2
      <3> QED
        BY <1>5, <3>1, <3>2, <3>3
    <2> QED
      BY <1>5, <2>1, <2>2
  <1>12. \A x \in Steps : \A d \in DependsOn[x] : run.nodes[d].state = "completed" => run'.nodes[d].state = "completed"
    <2>1. \A x \in Steps : \A d \in DependsOn[x] : d \in Steps
      BY GraphAssumption
    <2> QED
      BY <1>10, <1>11, <2>1
  <1>13. NodesInv'
    BY <1>4, <1>10, <1>11 DEF EffectInv, NodesInv
  <1>14. IntentInv'
    BY <1>9, <1>11, <1>12 DEF EffectInv, IntentInv
  <1>15. CountInv'
    <2>1. \A x \in Steps : run'.nodes[x].attempt = run.nodes[x].attempt
      BY <1>11
    <2>2. \A b \in Attempts, x \in Steps : task'[b].effect[x] = "queued" => task[b].effect[x] = "queued"
      BY <1>9
    <2> QED
      BY <1>0, <2>1, <2>2 DEF EffectInv, CountInv
  <1>16. UnknownInv'
    <2>1. \A x \in unknown : run'.nodes[x].state = "started" /\ \A b \in Attempts : task'[b].effect[x] = "none"
      <3>1. \A x \in unknown : x \in Steps \ {s}
        BY <1>0, <1>10
      <3> QED
        BY <1>9, <1>11, <3>1 DEF EffectInv, UnknownInv
    <2>2. s \in unknown' => run'.nodes[s].state = "started"
      BY <1>3, <1>6, <1>10, <1>11
    <2>3. \A x \in unknown' : x \in unknown \/ x = s
      BY <1>3
    <2> QED
      BY <1>9, <2>1, <2>2, <2>3 DEF UnknownInv
  <1>17. SkipInv'
    <2>1. \A d \in Steps : run'.nodes[d].state = "skipped" => d # s /\ run.nodes[d].state = "skipped"
      BY <1>4, <1>10, <1>11
    <2>2. \A d \in Steps \ {s} : task'[a].nodes[d] = task[a].nodes[d]
      BY <1>0, <1>7 DEF Task
    <2>3. \A b \in Attempts : task'[b].phase \in {"loop", "launch", "join"} => b = a
      BY <1>8, <1>9
    <2> QED
      BY <1>0, <2>1, <2>2, <2>3 DEF EffectInv, SkipInv
  <1>18. InputsWereThere'
    BY <1>0, <1>12 DEF EffectInv, InputsWereThere
  <1> QED
    BY <1>13, <1>14, <1>15, <1>16, <1>17, <1>18 DEF EffectInv

\* Those who use the service start no effect.
LEMMA ServiceEffects ==
    ASSUME WorkflowTypeOK, EffectInv, NEW c \in Callers, Start(c) \/ ReadRun(c) \/ CallStep(c)
    PROVE  EffectInv'
  <1>0. /\ task \in [Attempts -> Task] /\ run \in Run /\ caller \in [Callers -> Call]
        /\ UNCHANGED <<executed, unknown>>
        /\ run.state = "none" => run = NoRun
    BY DEF WorkflowTypeOK, Start, ReadRun, CallStep, CheckLive, AppendResume, SpawnAttempt, CountUnspawned,
           EndUnspawned, EffectInv, NodesInv
  <1>1. ASSUME UNCHANGED task, run'.nodes = run.nodes, run'.state = "none" => run' = run /\ run.state = "none"
        PROVE  EffectInv'
    <2>1. \A a \in Attempts, s \in Steps : task[a].effect[s] # "none" => task[a].phase \in {"launch", "join"}
      BY DEF EffectInv, IntentInv
    <2> QED
      BY <1>0, <1>1, <2>1, QuietStep
  <1>2. CASE Start(c)
    <2> DEFINE started == [NoRun EXCEPT !.state = "running", !.attempt = 1]
    <2>1. PICK w \in Appended(TRUE, started) : Write(w)
      BY <1>2 DEF Start
    <2>2. w.run \in {run, started}
      BY AppendedFacts
    <2>3. run' = w.run
      BY <2>1, WriteFacts
    <2>4. started.nodes = NoRun.nodes /\ started.state = "running"
      BY DEF NoRun
    <2> QED
      BY <1>0, <1>1, <1>2, <2>2, <2>3, <2>4 DEF Start
  <1>3. CASE ReadRun(c) \/ CheckLive(c) \/ CountUnspawned(c)
    BY <1>1, <1>3 DEF ReadRun, CheckLive, CountUnspawned
  <1>4. CASE AppendResume(c)
    <2> DEFINE resumed == [run EXCEPT !.attempt = caller[c].attempt, !.busy = FALSE, !.state = "running"]
               valid == MayResume(caller[c].attempt, caller[c].done)
    <2>1. PICK w \in Appended(valid, resumed) : Write(w)
      BY <1>4 DEF AppendResume
    <2>2. valid \in BOOLEAN
      BY VerdictsAreBoolean
    <2>3. w.run \in {run, resumed}
      BY <2>2, AppendedFacts
    <2>4. run' = w.run
      BY <2>1, <2>2, WriteFacts
    <2>5. resumed.nodes = run.nodes /\ resumed.state = "running"
      BY <1>0 DEF Run
    <2> QED
      BY <1>1, <1>4, <2>3, <2>4, <2>5 DEF AppendResume
  <1>5. CASE SpawnAttempt(c)
    <2>1. run' = run
      BY <1>5 DEF SpawnAttempt
    <2>2. CASE UNCHANGED task
      BY <1>1, <2>1, <2>2
    <2>3. CASE task' = [task EXCEPT ![caller[c].attempt] = [NoTask EXCEPT !.phase = "new", !.job = nextJob, !.done = caller[c].done]]
      <3>1. \A b \in Attempts : \/ task'[b] = task[b]
                                \/ task'[b].phase = "new" /\ \A s \in Steps : task'[b].effect[s] = "none"
        BY <1>0, <2>3 DEF NoTask
      <3>2. \A a \in Attempts, s \in Steps : task'[a].effect[s] # "none" =>
               task'[a].effect[s] = task[a].effect[s] /\ task'[a].phase \in {"launch", "join"}
        BY <3>1 DEF EffectInv, IntentInv
      <3>3. \A a \in Attempts : task'[a].phase \in Rounds => task'[a] = task[a]
        BY <3>1 DEF Rounds
      <3> QED
        BY <1>0, <2>1, <3>2, <3>3, QuietStep
    <2> QED
      BY <1>5, <2>2, <2>3 DEF SpawnAttempt
  <1>6. CASE EndUnspawned(c)
    <2>1. PICK w \in End("failed", caller[c].done) : Write(w)
      BY <1>6 DEF EndUnspawned
    <2>2. "failed" \in Outcome /\ "none" \notin Outcome
      BY DEF Outcome
    <2>3. run'.nodes = run.nodes /\ (run.state = "none" => run' = run)
          /\ (run'.state = run.state \/ run'.state \in Outcome)
      BY <2>1, <2>2, EndFacts
    <2> QED
      BY <1>1, <1>6, <2>2, <2>3 DEF EndUnspawned
  <1> QED
    BY <1>2, <1>3, <1>4, <1>5, <1>6 DEF CallStep

\* Nobody outside the attempts starts an effect either.
LEMMA OutsideEffects ==
    ASSUME WorkflowTypeOK, EffectInv, Pause \/ Cancel \/ Close \/ \E a \in Attempts : CancelJob(a)
    PROVE  EffectInv'
  <1>0. task \in [Attempts -> Task] /\ UNCHANGED <<executed, unknown>>
    BY OutsideTask DEF WorkflowTypeOK
  <1>1. \A b \in Attempts : /\ task'[b].phase = task[b].phase
                            /\ task'[b].effect = task[b].effect
                            /\ task'[b].nodes = task[b].nodes
    BY OutsideTask
  <1>2. run'.nodes = run.nodes /\ (run'.state = "none" => run' = run /\ run.state = "none")
    <2>1. CASE run' = run
      BY <2>1
    <2>2. ASSUME NEW w \in End("cancelled", CompletedSteps(run.nodes)), Write(w)
          PROVE  run'.nodes = run.nodes /\ (run'.state = "none" => run' = run /\ run.state = "none")
      <3>1. "cancelled" \in Outcome /\ "none" \notin Outcome
        BY DEF Outcome
      <3>2. run'.nodes = run.nodes /\ (run.state = "none" => run' = run)
            /\ (run'.state = run.state \/ run'.state \in Outcome)
        BY <2>2, <3>1, EndFacts
      <3> QED
        BY <3>1, <3>2
    <2> QED
      BY <2>1, <2>2 DEF Pause, Cancel, Close, CancelJob
  <1>3. \A a \in Attempts, s \in Steps : task'[a].effect[s] # "none" =>
           task'[a].effect[s] = task[a].effect[s] /\ task'[a].phase \in {"launch", "join"}
    BY <1>1 DEF EffectInv, IntentInv
  <1> QED
    BY <1>0, <1>1, <1>2, <1>3, QuietStep

\* The steps of a job between its effects.
LEMMA JobEffects ==
    ASSUME WorkflowTypeOK, OneCoordinator, EffectInv, NEW a \in Attempts,
           Admit(a) \/ EndUnadmitted(a) \/ Open(a) \/ Loop(a) \/ Joined(a) \/ EndAttempt(a)
    PROVE  EffectInv'
  <1>0. /\ task \in [Attempts -> Task] /\ task[a] \in Task /\ task[a].phase # "none"
        /\ UNCHANGED <<executed, unknown>>
    BY DEF WorkflowTypeOK, Admit, EndUnadmitted, Open, Loop, Joined, EndAttempt
  <1>1. \A b \in Attempts \ {a} : task'[b] = task[b] /\ task[b].phase = "none"
    BY <1>0, OwnTask DEF TaskStep, OneCoordinator, Live
  <1>2. \A b \in Attempts \ {a}, s \in Steps : task'[b].effect[s] = "none"
    BY <1>1 DEF EffectInv, IntentInv
  <1>3. ASSUME run'.nodes = run.nodes, run'.state = "none" => run' = run /\ run.state = "none",
               \A s \in Steps : task'[a].effect[s] = "none",
               task'[a].phase \in Rounds => \/ task[a].phase \in Rounds /\ task'[a].nodes = task[a].nodes
                                            \/ task'[a].nodes = run.nodes
        PROVE  EffectInv'
    <2>1. \A b \in Attempts, s \in Steps : task'[b].effect[s] = "none"
      BY <1>2, <1>3
    <2>2. \A b \in Attempts : task'[b].phase \in Rounds =>
             \/ task[b].phase \in Rounds /\ task'[b].nodes = task[b].nodes
             \/ task'[b].nodes = run.nodes
      BY <1>1, <1>3 DEF Rounds
    <2> QED
      BY <1>0, <1>3, <2>1, <2>2, QuietStep
  <1>4. \A o : /\ \A s \in Steps : Ends(a, o)[a].effect[s] = "none"
               /\ Ends(a, o)[a].phase = "ending"
    BY <1>0 DEF Ends, NoTask
  <1>5. CASE Admit(a)
    <2>1. \A s \in Steps : task[a].effect[s] = "none"
      BY <1>5 DEF Admit, EffectInv, IntentInv
    <2>2. \A s \in Steps : task'[a].effect[s] = "none"
      BY <1>5, <2>1, AdmitFacts
    <2> QED
      BY <1>3, <1>5, <2>2, AdmitFacts DEF Rounds
  <1>6. CASE Open(a)
    <2>1. \A s \in Steps : task[a].effect[s] = "none"
      BY <1>6 DEF Open, EffectInv, IntentInv
    <2>2. CASE task' = Ends(a, "failed")
      <3>1. UNCHANGED run
        BY <1>6 DEF Open
      <3>2. task'[a].phase = "ending" /\ \A s \in Steps : task'[a].effect[s] = "none"
        BY <1>4, <2>2
      <3> QED
        BY <1>3, <3>1, <3>2 DEF Rounds
    <2>3. CASE task' = [task EXCEPT ![a].phase = "loop", ![a].nodes = run.nodes]
      <3>1. task'[a].effect = task[a].effect /\ task'[a].nodes = run.nodes
        BY <1>0, <2>3 DEF Task
      <3>2. UNCHANGED run
        BY <1>6 DEF Open
      <3> QED
        BY <1>3, <2>1, <3>1, <3>2
    <2> QED
      BY <1>6, <2>2, <2>3 DEF Open
  <1>7. CASE Loop(a)
    <2>1. \A s \in Steps : task[a].effect[s] = "none"
      BY <1>7 DEF Loop, EffectInv, IntentInv
    <2>2. CASE task' = Ends(a, WayOut(task[a]))
      <3>1. UNCHANGED run
        BY <1>7 DEF Loop
      <3>2. task'[a].phase = "ending" /\ \A s \in Steps : task'[a].effect[s] = "none"
        BY <1>4, <2>2
      <3> QED
        BY <1>3, <3>1, <3>2 DEF Rounds
    <2> DEFINE ready == First(Ready(task[a].nodes))
    <2>3. CASE task' = [task EXCEPT ![a].phase = IF ready = {} THEN "join" ELSE "launch", ![a].todo = ready]
      <3> HIDE DEF ready
      <3>1. task'[a].effect = task[a].effect /\ task'[a].nodes = task[a].nodes
        BY <1>0, <2>3 DEF Task
      <3>2. UNCHANGED run /\ task[a].phase = "loop"
        BY <1>7 DEF Loop
      <3> QED
        BY <1>3, <2>1, <3>1, <3>2 DEF Rounds
    <2> QED
      BY <1>7, <2>2, <2>3 DEF Loop
  <1>8. CASE Joined(a)
    <2>1. CASE task' = Ends(a, "failed")
      <3>1. UNCHANGED run
        BY <1>8 DEF Joined
      <3>2. task'[a].phase = "ending" /\ \A s \in Steps : task'[a].effect[s] = "none"
        BY <1>4, <2>1
      <3> QED
        BY <1>3, <3>1, <3>2 DEF Rounds
    <2>2. CASE task' = [task EXCEPT ![a].phase = "loop"]
      <3>1. task'[a].effect = task[a].effect /\ task'[a].nodes = task[a].nodes
        BY <1>0, <2>2 DEF Task
      <3>2. UNCHANGED run /\ task[a].phase = "join" /\ \A s \in Steps : task[a].effect[s] = "none"
        BY <1>8 DEF Joined
      <3> QED
        BY <1>3, <3>1, <3>2 DEF Rounds
    <2> QED
      BY <1>8, <2>1, <2>2 DEF Joined
  <1>9. CASE EndAttempt(a)
    <2>1. PICK w \in End(task[a].outcome, CompletedSteps(run.nodes)) : Write(w)
      BY <1>9 DEF EndAttempt
    <2>2. task[a].outcome \in Outcome /\ "none" \notin Outcome
      BY <1>0, <1>9 DEF EndAttempt, Task, Outcome
    <2>3. run'.nodes = run.nodes /\ (run.state = "none" => run' = run)
          /\ (run'.state = run.state \/ run'.state \in Outcome)
      BY <2>1, <2>2, EndFacts
    <2>4. task'[a].phase = "none" /\ \A s \in Steps : task'[a].effect[s] = "none"
      BY <1>0, <1>9 DEF EndAttempt, NoTask
    <2> QED
      BY <1>3, <2>2, <2>3, <2>4 DEF Rounds
  <1>10. CASE EndUnadmitted(a)
    <2>1. PICK w \in End("failed", task[a].done) : Write(w)
      BY <1>10 DEF EndUnadmitted
    <2>2. "failed" \in Outcome /\ "none" \notin Outcome
      BY DEF Outcome
    <2>3. run'.nodes = run.nodes /\ (run.state = "none" => run' = run)
          /\ (run'.state = run.state \/ run'.state \in Outcome)
      BY <2>1, <2>2, EndFacts
    <2>4. task'[a].phase = "none" /\ \A s \in Steps : task'[a].effect[s] = "none"
      BY <1>0, <1>10 DEF EndUnadmitted, NoTask
    <2> QED
      BY <1>3, <2>2, <2>3, <2>4 DEF Rounds
  <1> QED
    BY <1>5, <1>6, <1>7, <1>8, <1>9, <1>10

\* Every step of the specification keeps what the journal says of effects.
LEMMA EffectStep ==
    ASSUME WorkflowTypeOK, OneCoordinator, EffectInv, [Next]_vars
    PROVE  EffectInv'
  <1>1. CASE UNCHANGED vars
    BY <1>1 DEF vars, EffectInv, NodesInv, IntentInv, CountInv, UnknownInv, SkipInv, InputsWereThere
  <1>2. CASE Next
    <2>1. ASSUME NEW a \in Attempts, TaskStep(a) PROVE EffectInv'
      BY <2>1, JobEffects, LaunchStep, BeginStep, SettleStep DEF TaskStep
    <2> QED
      BY <1>2, <2>1, ServiceEffects, OutsideEffects, CrashStep, PanicStep DEF Next
  <1> QED
    BY <1>1, <1>2

-----------------------------------------------------------------------------
(* The theorems                                                             *)

\* The invariant holds initially.
LEMMA InvInit ==
    ASSUME Init PROVE WorkflowInv
  <1>1. WorkflowTypeOK
    BY TypeInit
  <1>2. \A a \in Attempts : task[a].phase = "none" /\ \A s \in Steps : task[a].effect[s] = "none"
    BY DEF Init, NoTask
  <1>3. \A s \in Steps : run.nodes[s] = NoNode /\ executed[s] = 0
    BY DEF Init, NoRun
  <1>4. ClaimInv
    BY <1>2 DEF Init, ClaimInv, OneCoordinator, EndedIsQuiet, Live, AtRest
  <1>5. NodesInv /\ CountInv /\ InputsWereThere
    BY <1>2, <1>3 DEF Init, NodesInv, CountInv, InputsWereThere, NoNode
  <1>6. IntentInv /\ UnknownInv /\ SkipInv
    BY <1>2 DEF Init, IntentInv, UnknownInv, SkipInv
  <1> QED
    BY <1>1, <1>4, <1>5, <1>6 DEF WorkflowInv, EffectInv

\* Every step keeps the invariant.
LEMMA InvStep ==
    ASSUME WorkflowInv, [Next]_vars PROVE WorkflowInv'
  <1>1. WorkflowTypeOK /\ ClaimInv /\ OneCoordinator /\ EffectInv
    BY DEF WorkflowInv, ClaimInv
  <1>2. WorkflowTypeOK' /\ ClaimInv' /\ EffectInv'
    BY <1>1, TypeStep, ClaimStep, EffectStep
  <1> QED
    BY <1>2 DEF WorkflowInv

\* The invariant holds of every behaviour.
LEMMA InvAlways == Spec => []WorkflowInv
  BY InvInit, InvStep, PTL DEF Spec

\* The journal, the service's table and the jobs keep their types, and the
\* journal never counts more attempts of a step than max_attempts
\* (project_workflows, WorkflowRuntime).
THEOREM WorkflowTypeCorrect == Spec => []WorkflowTypeOK
  <1>1. WorkflowInv => WorkflowTypeOK
    BY DEF WorkflowInv
  <1> QED
    BY <1>1, InvAlways, PTL

\* However callers race, at most one attempt of the run is under way, and the
\* service knows it (spawn_attempt, remove_active).
THEOREM CoordinatorUnique == Spec => []OneCoordinator
  <1>1. WorkflowInv => OneCoordinator
    BY DEF WorkflowInv, ClaimInv
  <1> QED
    BY <1>1, InvAlways, PTL

\* A run the journal calls over has no attempt that can still act, unless the
\* job registry refused an attempt (cancel, execute_attempt, spawn_attempt).
THEOREM EndedRunIsQuiet == Spec => []EndedIsQuiet
  <1>1. WorkflowInv => EndedIsQuiet
    BY DEF WorkflowInv, ClaimInv
  <1> QED
    BY <1>1, InvAlways, PTL

\* For every graph and every pattern of crashes, failed writes and resumes, an
\* effect takes place at most max_attempts times, and once if it is not
\* replay-safe (run_owned, project_workflows).
THEOREM EffectsAreBounded == Spec => []EffectsBounded
  <1>1. ASSUME WorkflowInv PROVE EffectsBounded
    <2>1. /\ run \in Run /\ executed \in [Steps -> Nat]
          /\ \A s \in Steps : run.nodes[s].attempt <= MaxTries[s]
      BY <1>1 DEF WorkflowInv, WorkflowTypeOK
    <2>2. \A s \in Steps : executed[s] <= run.nodes[s].attempt
      BY <1>1 DEF WorkflowInv, EffectInv, CountInv
    <2>3. \A s \in Steps : s \notin ReplaySafe => run.nodes[s].attempt <= 1
      BY <1>1 DEF WorkflowInv, EffectInv, NodesInv
    <2>4. \A s \in Steps : executed[s] \in Nat /\ run.nodes[s].attempt \in Nat /\ MaxTries[s] \in Nat
      BY <2>1, TriesPositive DEF Run, Node
    <2>5. ASSUME NEW s \in Steps PROVE executed[s] <= IF s \in ReplaySafe THEN MaxTries[s] ELSE 1
      <3>1. CASE s \in ReplaySafe
        BY <2>1, <2>2, <2>4, <3>1
      <3>2. CASE s \notin ReplaySafe
        BY <2>2, <2>3, <2>4, <3>2
      <3> QED
        BY <3>1, <3>2
    <2> QED
      BY <2>5 DEF EffectsBounded
  <1> QED
    BY <1>1, InvAlways, PTL

\* The intent of an effect is in the journal while the effect takes place
\* (Launch's record before the spawned step).
THEOREM IntentIsWritten == Spec => []IntentBeforeEffect
  <1>1. WorkflowInv => IntentBeforeEffect
    BY DEF WorkflowInv, EffectInv, IntentInv, IntentBeforeEffect, Running
  <1> QED
    BY <1>1, InvAlways, PTL

\* A step that took effect had the results of all its dependencies, whatever
\* was skipped elsewhere in the graph (the skip rule of run_owned).
THEOREM InputsAreThere == Spec => []InputsWereThere
  <1>1. WorkflowInv => InputsWereThere
    BY DEF WorkflowInv, EffectInv
  <1> QED
    BY <1>1, InvAlways, PTL

\* An effect with an unknown outcome is not repeated by any step of any later
\* attempt (the check of the open intents in run_owned).
THEOREM UnknownIsNotRepeated == Spec => UnknownNotRepeated
  <1>1. ASSUME WorkflowInv, [Next]_vars
        PROVE  [\A s \in unknown : executed'[s] = executed[s]]_vars
    <2>1. CASE UNCHANGED executed
      BY <2>1
    <2>2. ASSUME NEW a \in Attempts, NEW x \in Steps, Begin(a, x)
          PROVE  \A s \in unknown : executed'[s] = executed[s]
      <3>1. x \notin unknown
        BY <1>1, <2>2 DEF Begin, WorkflowInv, EffectInv, UnknownInv
      <3>2. executed' = [executed EXCEPT ![x] = @ + 1] /\ executed \in [Steps -> Nat] /\ unknown \subseteq Steps
        BY <1>1, <2>2 DEF Begin, WorkflowInv, WorkflowTypeOK
      <3> QED
        BY <3>1, <3>2
    <2>3. CASE UNCHANGED vars
      BY <2>3
    <2>4. CASE Next
      <3>1. \/ UNCHANGED executed
            \/ \E a \in Attempts, x \in Steps : Begin(a, x)
        <4>1. ASSUME NEW c \in Callers, Start(c) \/ ReadRun(c) \/ CallStep(c) PROVE UNCHANGED executed
          BY <4>1 DEF CallStep, Start, ReadRun, CheckLive, AppendResume, SpawnAttempt, CountUnspawned, EndUnspawned
        <4>2. ASSUME Pause \/ Cancel \/ Close \/ Crash \/ \E a \in Attempts : CancelJob(a) \/ Panic(a)
              PROVE  UNCHANGED executed
          BY <4>2 DEF Pause, Cancel, Close, Crash, CancelJob, Panic
        <4>3. ASSUME NEW a \in Attempts, TaskStep(a)
              PROVE  UNCHANGED executed \/ \E x \in Steps : Begin(a, x)
          <5>1. CASE Admit(a) \/ EndUnadmitted(a) \/ Open(a) \/ Loop(a) \/ Launch(a) \/ Joined(a) \/ EndAttempt(a)
            BY <5>1 DEF Admit, EndUnadmitted, Open, Loop, Launch, Joined, EndAttempt
          <5>2. ASSUME NEW x \in Steps, Settle(a, x) PROVE UNCHANGED executed
            BY <5>2 DEF Settle
          <5> QED
            BY <4>3, <5>1, <5>2 DEF TaskStep
        <4> QED
          BY <2>4, <4>1, <4>2, <4>3 DEF Next
      <3> QED
        BY <2>1, <2>2, <3>1
    <2> QED
      BY <1>1, <2>3, <2>4
  <1> QED
    BY <1>1, InvAlways, PTL DEF Spec, UnknownNotRepeated
=============================================================================
