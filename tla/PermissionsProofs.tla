-------------------------- MODULE PermissionsProofs --------------------------
(***************************************************************************)
(* What holds of Plan mode and of the approvals, for any tool calls,       *)
(* agents, child ceilings, policies and bounds.                            *)
(***************************************************************************)
EXTENDS Permissions, TLAPS

\* Between steps only background work is unfinished and no tool runs a review.
TurnInv ==
    turn # "step" => /\ \A c \in Calls : Unfinished(c) => IsJob(c)
                     /\ review["tool"].stage = "idle"

\* The commands of the surface exclude each other, and a review that has not been
\* asked has no answer.
CommandInv ==
    /\ settle["command"].stage # "off" => cmd = "enter"
    /\ review["command"].stage # "idle" => cmd = "review"
    /\ \A r \in Reviewer : review[r].stage \in {"idle", "gate", "open"} => review[r].answer = "none"

\* What a settlement that is under way has been through: the jobs it awaits are all
\* that is unfinished, and afterwards nothing is; no hook has started since, unless
\* the entry was selected once more.
Covered(w) ==
    /\ settle[w].stage = "jobs" => \A c \in Calls : Unfinished(c) => c \in settle[w].awaits
    /\ settle[w].stage = "terminals" => \A c \in Calls : ~Unfinished(c)
    /\ entering /\ settle[w].stage \in {"jobs", "terminals"} /\ settle[w].since = spent.entries => ~hook

\* A commit that still finds the entry pending has waited for everything: nothing was
\* started since it began.  While a command settles its entry the mode is not left,
\* since nobody answers a review faster than it commits.
SettleInv ==
    /\ ~(active /\ entering)
    /\ \A w \in Settler : settle[w].since <= spent.entries
    /\ settle["turn"].stage # "off" => AtBoundary
    /\ Covered("turn") /\ (entering => Covered("command"))
    /\ cmd = "enter" => Planning /\ (\A r \in Reviewer : ~Accepts(r)) /\ (entering => turn # "step")

PlanInv == TurnInv /\ CommandInv /\ SettleInv /\ CommittedPlanIsQuiet /\ RestartAgrees

\* Whom decide_with_child_policy asks about call c under policy u.
Asked(u, c) ==
    IF Child[c] = "none" \/ (u = "ask" /\ Child[c] # "deny")
    THEN {[kind |-> u, at |-> "root"]}
    ELSE IF Child[c] = "deny" THEN {[kind |-> "deny", at |-> "child"]}
    ELSE {[kind |-> u, at |-> "root"], [kind |-> Child[c], at |-> "child"]}

\* What has to be true for decider d to let call c pass.
Passed(c, d) ==
    /\ d.kind # "deny"
    /\ d.kind = "ask" => AskedFor(c)
    /\ d.kind = "accepted" => c \in FileTools \/ Allowed(c, d.at)

Queued(c) == {call[c].todo[i] : i \in 1..Len(call[c].todo)}

\* Every decider of a call has let it pass or is still to be asked.
CallInv(c) ==
    /\ call[c].stage \in {"deciding", "gated", "prompt", "approved", "cleared", "running", "done"} =>
            \A d \in Asked(call[c].under, c) : Passed(c, d) \/ d \in Queued(c)
    /\ call[c].stage \in {"approved", "cleared", "running", "done"} => call[c].todo = << >>
    /\ call[c].stage \in {"gated", "prompt"} => call[c].todo # << >> /\ Asker(c).kind \in {"ask", "accepted"}
    /\ call[c].stage = "gated" => Asker(c).kind = "accepted"
    /\ call[c].stage # "prompt" => call[c].said = "none"
    /\ call[c].stage = "prompt" /\ call[c].said \in {"allow", "session"} =>
            [call |-> c, at |-> Asker(c).at, kind |-> call[c].said, input |-> call[c].input] \in consent

\* A remembered rule was given by the person in this process, to this instance, for
\* this very input.
GrantInv ==
    \A i \in Instance : \A g \in grants[i] : \E k \in consent : k.at = i /\ k.kind = "session" /\ k.input = g

\* A review knows the episode it was opened in, and an answer given in an earlier
\* one is withdrawn before it is taken.
Dated(x, e) ==
    /\ x.token <= e
    /\ x.stage \in {"gate", "open"} => x.timely
    /\ x.stage = "asked" /\ x.token = e => x.timely
    /\ x.stage = "decided" => x.timely
ReviewInv == \A r \in Reviewer : Dated(review[r], episode)

-----------------------------------------------------------------------------
(* Typing                                                                  *)

\* The records a call, a review and a settlement start from are well formed.
LEMMA Constants ==
    /\ Unasked \in ToolCall /\ [Unasked EXCEPT !.stage = "refused"] \in ToolCall
    /\ NoReview \in Review /\ [NoReview EXCEPT !.stage = "gate"] \in Review
    /\ NotSettling \in Settlement /\ NotSettling.stage = "off" /\ NotSettling.since = 0
    /\ [Unasked EXCEPT !.stage = "refused"].stage = "refused"
    /\ [Unasked EXCEPT !.stage = "refused"].said = "none"
    /\ \A b \in BOOLEAN : LET x == [Unasked EXCEPT !.stage = "refused", !.background = b]
                         IN  x \in ToolCall /\ x.stage = "refused" /\ x.said = "none" /\ x.background = b
<1>1. Unasked \in ToolCall /\ [Unasked EXCEPT !.stage = "refused"] \in ToolCall
  <2>1. << >> \in Seq(Decider)
    OBVIOUS
  <2>. QED
    BY <2>1 DEF Unasked, ToolCall, Policy
<1>2. ASSUME NEW b \in BOOLEAN
      PROVE  LET x == [Unasked EXCEPT !.stage = "refused", !.background = b]
             IN  x \in ToolCall /\ x.stage = "refused" /\ x.said = "none" /\ x.background = b
  BY <1>1 DEF Unasked, ToolCall
<1>3. NotSettling \in Settlement /\ NotSettling.stage = "off" /\ NotSettling.since = 0
  BY DEF NotSettling, Settlement
<1>. QED
  BY <1>1, <1>2, <1>3 DEF Unasked, NoReview, Review

\* What decide_with_child_policy asks is a sequence of deciders.
LEMMA DecidersType ==
    ASSUME PermissionTypeOK, NEW c \in Calls
    PROVE  Deciders(c) \in Seq(Decider)
<1>1. [kind |-> policy, at |-> "root"] \in Decider /\ [kind |-> "deny", at |-> "child"] \in Decider
  BY DEF PermissionTypeOK, Decider, Policy, Instance
<1>2. Child[c] \in {"none", "ask", "accepted", "deny"}
  BY CallAssumption
<1>3. Child[c] # "none" => [kind |-> Child[c], at |-> "child"] \in Decider
  BY <1>2 DEF Decider, Policy, Instance
<1>. QED
  BY <1>1, <1>3 DEF Deciders

\* Asking the next decider.
LEMMA TailType ==
    ASSUME NEW s \in Seq(Decider), s # << >>
    PROVE  /\ Tail(s) \in Seq(Decider) /\ Head(s) \in Decider
           /\ {s[i] : i \in 1..Len(s)} \subseteq {Head(s)} \union {Tail(s)[i] : i \in 1..Len(Tail(s))}
<1>1. Tail(s) \in Seq(Decider) /\ Head(s) \in Decider /\ Len(Tail(s)) = Len(s) - 1 /\ Head(s) = s[1]
  OBVIOUS
<1>2. ASSUME NEW i \in 1..Len(s)
      PROVE  s[i] \in {Head(s)} \union {Tail(s)[k] : k \in 1..Len(Tail(s))}
  <2>1. CASE i = 1
    BY <1>1, <2>1
  <2>2. CASE i # 1
    <3>1. i - 1 \in 1..Len(Tail(s)) /\ Tail(s)[i - 1] = s[i]
      BY <1>1, <2>2
    <3>. QED
      BY <3>1
  <2>. QED
    BY <2>1, <2>2
<1>. QED
  BY <1>1, <1>2

\* The steps of one call.
CallAct(c) ==
    \/ SpawnAgent(c) \/ Admit(c) \/ Decide(c) \/ EnterGate(c) \/ Resolve(c) \/ Guard(c) \/ Start(c) \/ Finish(c)
    \/ Promote(c) \/ Cancel(c)
    \/ \E a \in {"allow", "session", "deny"} : Answer(c, a)

Stages == {"idle", "thinking", "deciding", "gated", "prompt", "approved", "cleared", "running", "done", "refused"}

\* A call at another stage is a call.
LEMMA AtType ==
    ASSUME call \in [Calls -> ToolCall], NEW c \in Calls, NEW s \in Stages
    PROVE  /\ At(c, s) \in [Calls -> ToolCall]
           /\ \A d \in Calls : d # c => At(c, s)[d] = call[d]
           /\ At(c, s)[c] = [call[c] EXCEPT !.stage = s]
           /\ At(c, s)[c].stage = s
<1>1. call[c] \in ToolCall
  OBVIOUS
<1>. DEFINE x == [call[c] EXCEPT !.stage = s]
<1>2. x \in ToolCall /\ x.stage = s
  BY <1>1 DEF ToolCall, Stages
<1>3. At(c, s) = [call EXCEPT ![c] = x]
  BY DEF At
<1>. HIDE DEF x
<1>4. At(c, s) \in [Calls -> ToolCall] /\ At(c, s)[c] = x /\ \A d \in Calls : d # c => At(c, s)[d] = call[d]
  BY <1>2, <1>3
<1>. QED
  BY <1>2, <1>4 DEF x

\* What the steps of one call make of its record.
LEMMA CallActShape ==
    ASSUME PermissionTypeOK, NEW c \in Calls, CallAct(c)
    PROVE  \/ \E s \in Stages : call' = At(c, s)
           \/ call' = Refused(c)
           \/ \E x \in Inputs[c] : call' = [call EXCEPT ![c] = [call[c] EXCEPT !.stage = "deciding", !.input = x,
                                                                  !.under = policy, !.todo = Deciders(c)]]
           \/ /\ call[c].todo # << >>
              /\ call' = [call EXCEPT ![c] = [call[c] EXCEPT !.todo = Tail(call[c].todo)]]
           \/ /\ call[c].stage = "gated"
              /\ call' = [call EXCEPT ![c] = [call[c] EXCEPT !.stage = "deciding", !.todo = Tail(call[c].todo)]]
           \/ /\ call[c].stage = "prompt"
              /\ call' = [call EXCEPT ![c] = [call[c] EXCEPT !.stage = "deciding", !.todo = Tail(call[c].todo),
                                                             !.said = "none"]]
           \/ \E a \in {"allow", "session", "deny"} : call' = [call EXCEPT ![c] = [call[c] EXCEPT !.said = a]]
           \/ call' = [call EXCEPT ![c] = [call[c] EXCEPT !.background = TRUE]]
           \/ call' = [call EXCEPT ![c] = [call[c] EXCEPT !.cancelled = TRUE]]
<1>. call \in [Calls -> ToolCall] /\ call[c] \in ToolCall
  BY DEF PermissionTypeOK
<1>1. CASE SpawnAgent(c) \/ Guard(c) \/ Start(c) \/ Finish(c)
  BY <1>1 DEF SpawnAgent, Guard, Start, Finish, Stages
<1>2. CASE Admit(c)
  <2>1. CASE call' = Refused(c)
    BY <2>1
  <2>2. CASE call' # Refused(c)
    <3>1. PICK x \in Inputs[c] : call' = [call EXCEPT ![c].stage = "deciding", ![c].input = x, ![c].under = policy,
                                                      ![c].todo = Deciders(c)]
      BY <1>2, <2>2 DEF Admit
    <3>2. call' = [call EXCEPT ![c] = [call[c] EXCEPT !.stage = "deciding", !.input = x, !.under = policy,
                                                      !.todo = Deciders(c)]]
      BY <3>1
    <3>. QED
      BY <3>2
  <2>. QED
    BY <2>1, <2>2
<1>3. CASE Decide(c)
  BY <1>3 DEF Decide, Stages
<1>4. CASE EnterGate(c)
  BY <1>4 DEF EnterGate, Stages
<1>5. CASE Resolve(c)
  BY <1>5 DEF Resolve
<1>6. CASE Promote(c) \/ Cancel(c)
  BY <1>6 DEF Promote, Cancel
<1>7. CASE \E a \in {"allow", "session", "deny"} : Answer(c, a)
  BY <1>7 DEF Answer
<1>. QED
  BY <1>1, <1>2, <1>3, <1>4, <1>5, <1>6, <1>7 DEF CallAct

\* A refused call is a call that is over and forgets what it was asked.
LEMMA RefusedType ==
    ASSUME call \in [Calls -> ToolCall], NEW c \in Calls
    PROVE  /\ Refused(c) \in [Calls -> ToolCall]
           /\ \A d \in Calls : d # c => Refused(c)[d] = call[d]
           /\ Refused(c)[c].stage = "refused" /\ Refused(c)[c].said = "none"
           /\ Refused(c)[c].background = call[c].background
<1>1. call[c].background \in BOOLEAN
  BY DEF ToolCall
<1>. DEFINE x == [Unasked EXCEPT !.stage = "refused", !.background = call[c].background]
<1>2. x \in ToolCall /\ x.stage = "refused" /\ x.said = "none" /\ x.background = call[c].background
  BY <1>1, Constants
<1>3. Refused(c) = [call EXCEPT ![c] = x]
  BY DEF Refused
<1>. HIDE DEF x
<1>. QED
  BY <1>2, <1>3

\* A step of one call changes that call only, and keeps it a call.
LEMMA CallActType ==
    ASSUME PermissionTypeOK, NEW c \in Calls, CallInv(c), CallAct(c)
    PROVE  /\ call' \in [Calls -> ToolCall]
           /\ \A d \in Calls : d # c => call'[d] = call[d]
<1>. call \in [Calls -> ToolCall] /\ call[c] \in ToolCall /\ call[c].todo \in Seq(Decider)
  BY DEF PermissionTypeOK, ToolCall
<1>1. ASSUME NEW x \in ToolCall, call' = [call EXCEPT ![c] = x]
      PROVE  /\ call' \in [Calls -> ToolCall]
             /\ \A d \in Calls : d # c => call'[d] = call[d]
  BY <1>1
<1>2. CASE (\E s \in Stages : call' = At(c, s)) \/ call' = Refused(c)
  <2>1. ASSUME NEW s \in Stages, call' = At(c, s)
        PROVE  call' \in [Calls -> ToolCall] /\ \A d \in Calls : d # c => call'[d] = call[d]
    <3>1. At(c, s) \in [Calls -> ToolCall] /\ \A d \in Calls : d # c => At(c, s)[d] = call[d]
      BY AtType
    <3>. QED
      BY <2>1, <3>1
  <2>2. CASE call' = Refused(c)
    BY <2>2, RefusedType
  <2>. QED
    BY <1>2, <2>1, <2>2
<1>3. ASSUME NEW x \in Inputs[c]
      PROVE  [call[c] EXCEPT !.stage = "deciding", !.input = x, !.under = policy, !.todo = Deciders(c)] \in ToolCall
  <2>1. Deciders(c) \in Seq(Decider) /\ policy \in Policy /\ x \in AllInputs
    BY DecidersType DEF PermissionTypeOK, AllInputs
  <2>. QED
    BY <2>1 DEF ToolCall
<1>4. ASSUME call[c].todo # << >>
      PROVE  /\ [call[c] EXCEPT !.todo = Tail(call[c].todo)] \in ToolCall
             /\ [call[c] EXCEPT !.stage = "deciding", !.todo = Tail(call[c].todo)] \in ToolCall
             /\ [call[c] EXCEPT !.stage = "deciding", !.todo = Tail(call[c].todo), !.said = "none"] \in ToolCall
  <2>1. Tail(call[c].todo) \in Seq(Decider)
    BY <1>4, TailType
  <2>. QED
    BY <2>1 DEF ToolCall
<1>5. \A a \in {"allow", "session", "deny"} : [call[c] EXCEPT !.said = a] \in ToolCall
  BY DEF ToolCall
<1>6. [call[c] EXCEPT !.background = TRUE] \in ToolCall /\ [call[c] EXCEPT !.cancelled = TRUE] \in ToolCall
  BY DEF ToolCall
<1>7. call[c].stage \in {"gated", "prompt"} => call[c].todo # << >>
  BY DEF CallInv
<1>. QED
  BY <1>1, <1>2, <1>3, <1>4, <1>5, <1>6, <1>7, CallActShape

\* The steps that reach every call at once.
BulkAct == DenyAll \/ CancelTurn \/ Restart \/ \E w \in Settler : CancelJobs(w)

\* They cancel a call, deny it, or end it with the process.
LEMMA BulkActShape ==
    ASSUME PermissionTypeOK, BulkAct
    PROVE  /\ call' \in [Calls -> ToolCall]
           /\ \A c \in Calls :
                \/ call'[c] = call[c]
                \/ call'[c] = [call[c] EXCEPT !.cancelled = TRUE]
                \/ call[c].stage = "prompt" /\ call[c].said = "none" /\ call'[c] = [call[c] EXCEPT !.said = "deny"]
                \/ call'[c] = [Unasked EXCEPT !.stage = "refused"]
<1>0. call \in [Calls -> ToolCall]
  BY DEF PermissionTypeOK
<1>1. ASSUME NEW c \in Calls
      PROVE  /\ [call[c] EXCEPT !.cancelled = TRUE] \in ToolCall
             /\ [call[c] EXCEPT !.said = "deny"] \in ToolCall
             /\ [Unasked EXCEPT !.stage = "refused"] \in ToolCall
  <2>1. call[c] \in ToolCall
    BY <1>0
  <2>. QED
    BY <2>1, Constants DEF ToolCall
<1>2. call' = [c \in Calls |-> call'[c]] /\
      \A c \in Calls :
                \/ call'[c] = call[c]
                \/ call'[c] = [call[c] EXCEPT !.cancelled = TRUE]
                \/ call[c].stage = "prompt" /\ call[c].said = "none" /\ call'[c] = [call[c] EXCEPT !.said = "deny"]
                \/ call'[c] = [Unasked EXCEPT !.stage = "refused"]
  <2>1. CASE DenyAll
    BY <2>1 DEF DenyAll
  <2>2. CASE CancelTurn
    BY <2>2 DEF CancelTurn
  <2>3. CASE Restart
    BY <2>3 DEF Restart
  <2>4. CASE \E w \in Settler : CancelJobs(w)
    BY <2>4 DEF CancelJobs
  <2>. QED
    BY <2>1, <2>2, <2>3, <2>4 DEF BulkAct
<1>3. \A c \in Calls : call'[c] \in ToolCall
  <2>. TAKE c \in Calls
  <2>1. call[c] \in ToolCall
    BY <1>0
  <2>. QED
    BY <1>1, <1>2, <2>1
<1>. QED
  BY <1>2, <1>3

\* The steps that leave every call alone.
OtherAct ==
    \/ EnterByCommand \/ EnterByTool \/ OpenTurn \/ TurnStep \/ EnterOvertaken \/ HookStarts \/ HookEnds
    \/ \E p \in UserPolicies : SwitchByUser(p)
    \/ \E r \in Reviewer : AskReview(r) \/ ReviewStep(r) \/ \E d \in {"edits", "default", "stay"} : AnswerReview(r, d)
    \/ \E w \in Settler : BeginSettle(w) \/ JobsOver(w) \/ KillTerminal(w) \/ Commit(w) \/ SettleFails(w)

\* Every step is of one of the three sorts.
LEMMA NextSorts ==
    ASSUME Next
    PROVE  OtherAct \/ BulkAct \/ \E c \in Calls : CallAct(c)
BY DEF Next, Outside, CallStep, EntryStep, OtherAct, BulkAct, CallAct

\* The other steps leave the calls, the answers and the grants alone.
LEMMA OtherFrame ==
    ASSUME OtherAct
    PROVE  UNCHANGED callVars
<1>1. CASE EnterByCommand \/ EnterByTool
  BY <1>1 DEF EnterByCommand, EnterByTool, Set
<1>2. CASE OpenTurn \/ TurnStep \/ EnterOvertaken \/ HookStarts \/ HookEnds
  BY <1>2 DEF OpenTurn, TurnStep, EnterOvertaken, HookStarts, HookEnds, PassBoundary, CloseTurn, EndStep
<1>3. CASE \E p \in UserPolicies : SwitchByUser(p)
  BY <1>3 DEF SwitchByUser
<1>4. ASSUME NEW r \in Reviewer, AskReview(r) \/ ReviewStep(r)
      PROVE  UNCHANGED callVars
  BY <1>4 DEF AskReview, ReviewStep, OpenReview, ProposeReview, ReviewReturns, ApplyReview
<1>5. ASSUME NEW r \in Reviewer, NEW d, AnswerReview(r, d)
      PROVE  UNCHANGED callVars
  BY <1>5 DEF AnswerReview
<1>6. ASSUME NEW w \in Settler, BeginSettle(w) \/ JobsOver(w) \/ KillTerminal(w) \/ Commit(w) \/ SettleFails(w)
      PROVE  UNCHANGED callVars
  BY <1>6 DEF BeginSettle, JobsOver, KillTerminal, Commit, SettleFails
<1>. QED
  BY <1>1, <1>2, <1>3, <1>4, <1>5, <1>6 DEF OtherAct

\* A step of a call leaves the mode, the reviews, the turn and the commands alone; a
\* terminal is opened by a tool that was running.
LEMMA CallFrame ==
    ASSUME NEW c \in Calls, CallAct(c)
    PROVE  /\ UNCHANGED <<planVars, policy, review, turn, settle, hook, cmd, stale>>
           /\ UNCHANGED terminal \/ (call[c].stage = "running" /\ terminal' = "open")
           /\ UNCHANGED spent \/ spent' = [spent EXCEPT !.mishaps = @ + 1]
BY DEF CallAct, SpawnAgent, Admit, Decide, EnterGate, Resolve, Guard, Start, Finish, Promote, Cancel, Answer, workVars

\* Calls stay calls.
LEMMA CallType ==
    ASSUME PermissionTypeOK, \A c \in Calls : CallInv(c), Next
    PROVE  call' \in [Calls -> ToolCall]
<1>1. CASE OtherAct
  BY <1>1, OtherFrame DEF callVars, PermissionTypeOK
<1>2. CASE BulkAct
  BY <1>2, BulkActShape
<1>3. CASE \E c \in Calls : CallAct(c)
  BY <1>3, CallActType
<1>. QED
  BY <1>1, <1>2, <1>3, NextSorts

\* Answers, locks and remembered rules stay what they are.
LEMMA AnswerType ==
    ASSUME PermissionTypeOK, \A c \in Calls : CallInv(c), Next
    PROVE  /\ consent' \subseteq Consent
           /\ gate' \in [Instance -> Calls \union {Nobody}]
           /\ grants' \in [Instance -> SUBSET (AllInputs \union {"none"})]
<1>0. /\ consent \subseteq Consent
      /\ gate \in [Instance -> Calls \union {Nobody}]
      /\ grants \in [Instance -> SUBSET (AllInputs \union {"none"})]
  BY DEF PermissionTypeOK
<1>1. CASE OtherAct
  BY <1>0, <1>1, OtherFrame DEF callVars
<1>2. CASE BulkAct
  <2>1. consent' = consent \/ consent' = {}
    BY <1>2 DEF BulkAct, DenyAll, CancelTurn, Restart, CancelJobs
  <2>2. gate' = gate \/ gate' = [i \in Instance |-> Nobody]
    BY <1>2 DEF BulkAct, DenyAll, CancelTurn, Restart, CancelJobs
  <2>3. grants' = grants \/ grants' = [i \in Instance |-> {}]
    BY <1>2 DEF BulkAct, DenyAll, CancelTurn, Restart, CancelJobs
  <2>. QED
    BY <1>0, <2>1, <2>2, <2>3
<1>3. ASSUME NEW c \in Calls, CallAct(c)
      PROVE  /\ consent' \subseteq Consent
             /\ gate' \in [Instance -> Calls \union {Nobody}]
             /\ grants' \in [Instance -> SUBSET (AllInputs \union {"none"})]
  <2>1. ASSUME call[c].stage \in {"gated", "prompt"}
        PROVE  Asker(c) \in Decider /\ Asker(c).at \in Instance
    <3>1. call[c].todo \in Seq(Decider) /\ call[c].todo # << >>
      BY <2>1 DEF CallInv, PermissionTypeOK, ToolCall
    <3>2. Asker(c) \in Decider
      BY <3>1, TailType DEF Asker
    <3>. QED
      BY <3>2 DEF Decider
  <2>2. CASE \E a \in {"allow", "session", "deny"} : Answer(c, a)
    <3>1. PICK a \in {"allow", "session", "deny"} : Answer(c, a)
      BY <2>2
    <3>2. UNCHANGED <<gate, grants>>
      BY <3>1 DEF Answer
    <3>3. call[c].stage = "prompt"
      BY <3>1 DEF Answer
    <3>4. \/ consent' = consent
          \/ /\ a # "deny"
             /\ consent' = consent \union {[call |-> c, at |-> Asker(c).at, kind |-> a, input |-> call[c].input]}
      BY <3>1 DEF Answer
    <3>5. call[c].input \in AllInputs \union {"none"}
      BY DEF PermissionTypeOK, ToolCall
    <3>6. a # "deny" => [call |-> c, at |-> Asker(c).at, kind |-> a, input |-> call[c].input] \in Consent
      BY <2>1, <3>3, <3>5 DEF Consent
    <3>. QED
      BY <1>0, <3>2, <3>4, <3>6
  <2>3. CASE EnterGate(c)
    <3>1. UNCHANGED <<consent, grants>> /\ call[c].stage = "gated"
      BY <2>3 DEF EnterGate
    <3>2. gate' = gate \/ gate' = [gate EXCEPT ![Asker(c).at] = c]
      BY <2>3 DEF EnterGate
    <3>. QED
      BY <1>0, <2>1, <3>1, <3>2
  <2>4. CASE Resolve(c)
    <3>1. /\ UNCHANGED consent /\ call[c].stage = "prompt"
          /\ gate' = [i \in Instance |-> IF gate[i] = c THEN Nobody ELSE gate[i]]
      BY <2>4 DEF Resolve
    <3>2. grants' = grants \/ grants' = [grants EXCEPT ![Asker(c).at] = @ \union Remembers(c)]
      BY <2>4 DEF Resolve
    <3>3. Remembers(c) \subseteq AllInputs \union {"none"}
      BY DEF Remembers, PermissionTypeOK, ToolCall
    <3>. QED
      BY <1>0, <2>1, <3>1, <3>2, <3>3
  <2>5. CASE CallAct(c) /\ ~EnterGate(c) /\ ~Resolve(c) /\ ~\E a \in {"allow", "session", "deny"} : Answer(c, a)
    BY <1>0, <2>5 DEF CallAct, SpawnAgent, Admit, Decide, Guard, Start, Finish, Promote, Cancel
  <2>. QED
    BY <1>3, <2>2, <2>3, <2>4, <2>5
<1>. QED
  BY <1>1, <1>2, <1>3, NextSorts

\* Reviews stay reviews.
LEMMA ReviewType ==
    ASSUME PermissionTypeOK, Next
    PROVE  review' \in [Reviewer -> Review]
<1>0. review \in [Reviewer -> Review] /\ episode \in Nat /\ \A r \in Reviewer : review[r] \in Review
  BY DEF PermissionTypeOK
<1>1. ASSUME NEW r \in Reviewer, NEW x \in Review, review' = [review EXCEPT ![r] = x]
      PROVE  review' \in [Reviewer -> Review]
  BY <1>0, <1>1
<1>2. ASSUME NEW r \in Reviewer, AskReview(r) \/ ReviewOver(r)
      PROVE  review' \in [Reviewer -> Review]
  <2>1. \/ review' = [review EXCEPT ![r] = NoReview]
        \/ review' = [review EXCEPT ![r] = [NoReview EXCEPT !.stage = "gate"]]
    BY <1>2 DEF AskReview, ReviewOver
  <2>. QED
    BY <1>0, <2>1, Constants
<1>3. ASSUME NEW r \in Reviewer, OpenReview(r), ~ReviewOver(r)
      PROVE  review' \in [Reviewer -> Review]
  <2>. DEFINE x == [review[r] EXCEPT !.stage = "open", !.token = episode]
  <2>1. review' = [review EXCEPT ![r] = x]
    BY <1>0, <1>3 DEF OpenReview
  <2>2. x \in Review
    BY <1>0 DEF Review
  <2>. HIDE DEF x
  <2>. QED
    BY <1>1, <2>1, <2>2
<1>4. ASSUME NEW r \in Reviewer, ProposeReview(r), ~ReviewOver(r)
      PROVE  review' \in [Reviewer -> Review]
  <2>. DEFINE x == [review[r] EXCEPT !.stage = "asked"]
  <2>1. review' = [review EXCEPT ![r] = x]
    BY <1>0, <1>4 DEF ProposeReview
  <2>2. x \in Review
    BY <1>0 DEF Review
  <2>. HIDE DEF x
  <2>. QED
    BY <1>1, <2>1, <2>2
<1>5. ASSUME NEW r \in Reviewer, NEW d \in {"edits", "default", "stay"}, AnswerReview(r, d)
      PROVE  review' \in [Reviewer -> Review]
  <2>. DEFINE x == [review[r] EXCEPT !.answer = d, !.timely = (review[r].token = episode)]
  <2>1. review' = [review EXCEPT ![r] = x]
    BY <1>0, <1>5 DEF AnswerReview
  <2>2. x \in Review
    BY <1>0 DEF Review
  <2>. HIDE DEF x
  <2>. QED
    BY <1>1, <2>1, <2>2
<1>6. ASSUME NEW r \in Reviewer, ReviewReturns(r), ~ReviewOver(r)
      PROVE  review' \in [Reviewer -> Review]
  <2>. DEFINE x == [review[r] EXCEPT !.stage = "decided",
                                     !.answer = IF review[r].cancelled THEN "stay" ELSE review[r].answer]
  <2>1. review' = [review EXCEPT ![r] = x]
    BY <1>0, <1>6 DEF ReviewReturns
  <2>2. x \in Review
    BY <1>0 DEF Review
  <2>. HIDE DEF x
  <2>. QED
    BY <1>1, <2>1, <2>2
<1>7. CASE DenyAll
  <2>1. \A r \in Reviewer : [review[r] EXCEPT !.answer = "stay", !.timely = (review[r].token = episode)] \in Review
    BY <1>0 DEF Review
  <2>. QED
    BY <1>0, <1>7, <2>1 DEF DenyAll
<1>8. CASE CancelTurn
  <2>. DEFINE x == [review["tool"] EXCEPT !.cancelled = (@ \/ review["tool"].stage # "idle")]
  <2>1. review' = [review EXCEPT !["tool"] = x]
    BY <1>0, <1>8 DEF CancelTurn, Reviewer
  <2>2. review["tool"] \in Review
    BY <1>0 DEF Reviewer
  <2>3. x \in Review
    BY <2>2 DEF Review
  <2>. HIDE DEF x
  <2>. QED
    BY <1>1, <2>1, <2>3 DEF Reviewer
<1>9. CASE Restart
  BY <1>9, Constants DEF Restart
<1>10. ASSUME NEW r \in Reviewer, ReviewStep(r) \/ AskReview(r)
       PROVE  review' \in [Reviewer -> Review]
  BY <1>2, <1>3, <1>4, <1>6, <1>10 DEF ReviewStep, ApplyReview
<1>11. ASSUME NEW r \in Reviewer, \E d \in {"edits", "default", "stay"} : AnswerReview(r, d)
       PROVE  review' \in [Reviewer -> Review]
  BY <1>5, <1>11
<1>12. CASE UNCHANGED review
  BY <1>0, <1>12
<1>13. CASE OtherAct
  <2>1. CASE EnterByCommand \/ EnterByTool
    BY <1>12, <2>1 DEF EnterByCommand, EnterByTool, Set
  <2>2. CASE OpenTurn \/ TurnStep \/ EnterOvertaken \/ HookStarts \/ HookEnds
    BY <1>12, <2>2 DEF OpenTurn, TurnStep, EnterOvertaken, HookStarts, HookEnds, PassBoundary, CloseTurn, EndStep
  <2>3. CASE \E p \in UserPolicies : SwitchByUser(p)
    BY <1>12, <2>3 DEF SwitchByUser
  <2>4. ASSUME NEW w \in Settler, BeginSettle(w) \/ JobsOver(w) \/ KillTerminal(w) \/ Commit(w) \/ SettleFails(w)
        PROVE  review' \in [Reviewer -> Review]
    BY <1>12, <2>4 DEF BeginSettle, JobsOver, KillTerminal, Commit, SettleFails
  <2>. QED
    BY <1>10, <1>11, <1>13, <2>1, <2>2, <2>3, <2>4 DEF OtherAct
<1>14. CASE BulkAct
  <2>1. CASE \E w \in Settler : CancelJobs(w)
    BY <1>12, <2>1 DEF CancelJobs
  <2>. QED
    BY <1>7, <1>8, <1>9, <1>14, <2>1 DEF BulkAct
<1>15. CASE \E c \in Calls : CallAct(c)
  BY <1>12, <1>15, CallFrame
<1>. QED
  BY <1>13, <1>14, <1>15, NextSorts

\* Settlements and the bounds stay what they are.
LEMMA SettleType ==
    ASSUME PermissionTypeOK, Next
    PROVE  /\ settle' \in [Settler -> Settlement]
           /\ spent' \in [turns : Nat, entries : Nat, switches : Nat, reviews : Nat, mishaps : Nat]
<1>0. settle \in [Settler -> Settlement] /\ LiveJobs \in SUBSET Calls
  BY DEF PermissionTypeOK, LiveJobs
<1>. DEFINE T == [turns : Nat, entries : Nat, switches : Nat, reviews : Nat, mishaps : Nat]
<1>1. spent \in T
  BY DEF PermissionTypeOK
<1>2. /\ [spent EXCEPT !.turns = @ + 1] \in T /\ [spent EXCEPT !.switches = @ + 1] \in T
      /\ [spent EXCEPT !.reviews = @ + 1] \in T /\ [spent EXCEPT !.mishaps = @ + 1] \in T
      /\ [spent EXCEPT !.entries = @ + 1] \in T
      /\ [spent EXCEPT !.mishaps = @ + 1, !.entries = @ + 1] \in T
      /\ [spent EXCEPT !.mishaps = @ + 1, !.switches = @ + 1] \in T
  <2>1. /\ spent.turns + 1 \in Nat /\ spent.entries + 1 \in Nat /\ spent.switches + 1 \in Nat
        /\ spent.reviews + 1 \in Nat /\ spent.mishaps + 1 \in Nat
    BY <1>1
  <2>2. [spent EXCEPT !.turns = @ + 1] \in T
    BY <1>1, <2>1
  <2>3. [spent EXCEPT !.switches = @ + 1] \in T
    BY <1>1, <2>1
  <2>4. [spent EXCEPT !.reviews = @ + 1] \in T
    BY <1>1, <2>1
  <2>5. [spent EXCEPT !.mishaps = @ + 1] \in T
    BY <1>1, <2>1
  <2>6. [spent EXCEPT !.entries = @ + 1] \in T
    BY <1>1, <2>1
  <2>7. [spent EXCEPT !.mishaps = @ + 1, !.entries = @ + 1] \in T
    BY <1>1, <2>1
  <2>8. [spent EXCEPT !.mishaps = @ + 1, !.switches = @ + 1] \in T
    BY <1>1, <2>1
  <2>. QED
    BY <2>2, <2>3, <2>4, <2>5, <2>6, <2>7, <2>8
<1>. SUFFICES settle' \in [Settler -> Settlement] /\ spent' \in T
  OBVIOUS
<1>. HIDE DEF T
<1>3. ASSUME NEW w \in Settler, BeginSettle(w)
      PROVE  settle' \in [Settler -> Settlement] /\ spent' \in T
  <2>1. spent.entries \in Nat
    BY DEF PermissionTypeOK
  <2>2. [stage |-> "hooks", awaits |-> {}, since |-> spent.entries] \in Settlement
    BY <2>1 DEF Settlement
  <2>. QED
    BY <1>0, <1>1, <1>3, <2>2 DEF BeginSettle
<1>9. ASSUME NEW w \in Settler, CancelJobs(w) \/ JobsOver(w)
      PROVE  settle' \in [Settler -> Settlement] /\ spent' \in T
  <2>1. /\ [settle[w] EXCEPT !.stage = "jobs", !.awaits = LiveJobs] \in Settlement
        /\ [settle[w] EXCEPT !.stage = "terminals"] \in Settlement
    BY <1>0 DEF Settlement
  <2>2. \/ settle' = [settle EXCEPT ![w] = [settle[w] EXCEPT !.stage = "jobs", !.awaits = LiveJobs]]
        \/ settle' = [settle EXCEPT ![w] = [settle[w] EXCEPT !.stage = "terminals"]]
    BY <1>0, <1>9 DEF CancelJobs, JobsOver
  <2>3. spent' = spent
    BY <1>9 DEF CancelJobs, JobsOver
  <2>. QED
    BY <1>0, <1>1, <2>1, <2>2, <2>3
<1>4. ASSUME NEW w \in Settler, Commit(w) \/ SettleFails(w) \/ KillTerminal(w)
      PROVE  settle' \in [Settler -> Settlement] /\ spent' \in T
  BY <1>0, <1>1, <1>2, <1>4, Constants DEF Commit, SettleFails, KillTerminal, Returns, CountMishap
<1>5. CASE Restart
  BY <1>2, <1>5, Constants DEF Restart
<1>6. CASE BulkAct
  BY <1>0, <1>1, <1>2, <1>5, <1>6, <1>9 DEF BulkAct, DenyAll, CancelTurn
<1>7. CASE \E c \in Calls : CallAct(c)
  <2>1. PICK c \in Calls : CallAct(c)
    BY <1>7
  <2>. QED
    BY <1>0, <1>1, <1>2, <2>1, CallFrame
<1>8. CASE OtherAct
  <2>1. CASE EnterByCommand \/ EnterByTool
    BY <1>0, <1>1, <1>2, <2>1 DEF EnterByCommand, EnterByTool, Set
  <2>2. CASE OpenTurn \/ TurnStep \/ EnterOvertaken \/ HookStarts \/ HookEnds
    BY <1>0, <1>1, <1>2, <2>2
        DEF OpenTurn, TurnStep, EnterOvertaken, HookStarts, HookEnds, PassBoundary, CloseTurn, EndStep
  <2>3. CASE \E p \in UserPolicies : SwitchByUser(p)
    BY <1>0, <1>1, <1>2, <2>3 DEF SwitchByUser
  <2>4. ASSUME NEW r \in Reviewer, AskReview(r) \/ ReviewStep(r)
        PROVE  settle' \in [Settler -> Settlement] /\ spent' \in T
    BY <1>0, <1>1, <1>2, <2>4
        DEF AskReview, ReviewStep, OpenReview, ProposeReview, ReviewReturns, ApplyReview, CountMishap
  <2>5. ASSUME NEW r \in Reviewer, NEW d, AnswerReview(r, d)
        PROVE  settle' \in [Settler -> Settlement] /\ spent' \in T
    BY <1>0, <1>1, <2>5 DEF AnswerReview
  <2>. QED
    BY <1>3, <1>4, <1>8, <1>9, <2>1, <2>2, <2>3, <2>4, <2>5 DEF OtherAct
<1>. QED
  BY <1>6, <1>7, <1>8, NextSorts

\* So do the mode, the policy, the turn and the command.
LEMMA ScalarType ==
    ASSUME PermissionTypeOK, Next
    PROVE  /\ active' \in BOOLEAN /\ entering' \in BOOLEAN /\ logged' \in BOOLEAN /\ torn' \in BOOLEAN
           /\ episode' \in Nat /\ policy' \in Policy
           /\ turn' \in {"closed", "boundary", "step", "ending"} /\ cmd' \in {"idle", "enter", "review"}
           /\ stale' \in BOOLEAN
           /\ reviewed' \in {"none", "open", "edits", "default"} /\ overtaken' \in BOOLEAN
           /\ hook' \in BOOLEAN /\ terminal' \in {"none", "open", "lost"}
<1>. DEFINE G == /\ active' \in BOOLEAN /\ entering' \in BOOLEAN /\ logged' \in BOOLEAN /\ torn' \in BOOLEAN
                 /\ episode' \in Nat /\ policy' \in Policy
                 /\ turn' \in {"closed", "boundary", "step", "ending"} /\ cmd' \in {"idle", "enter", "review"}
                 /\ stale' \in BOOLEAN
                 /\ reviewed' \in {"none", "open", "edits", "default"} /\ overtaken' \in BOOLEAN
                 /\ hook' \in BOOLEAN /\ terminal' \in {"none", "open", "lost"}
<1>0. /\ active \in BOOLEAN /\ entering \in BOOLEAN /\ logged \in BOOLEAN /\ torn \in BOOLEAN
      /\ episode \in Nat /\ policy \in Policy
      /\ turn \in {"closed", "boundary", "step", "ending"} /\ cmd \in {"idle", "enter", "review"}
      /\ stale \in BOOLEAN
      /\ reviewed \in {"none", "open", "edits", "default"} /\ overtaken \in BOOLEAN
      /\ hook \in BOOLEAN /\ terminal \in {"none", "open", "lost"}
  BY DEF PermissionTypeOK
<1>1. CASE \E c \in Calls : CallAct(c)
  BY <1>0, <1>1, CallFrame DEF planVars
<1>2. CASE Restart
  <2>1. policy' \in Policy
    BY <1>2, CallAssumption DEF Restart, Resumed, Target, Policy
  <2>2. stale' \in BOOLEAN
    BY <1>2, Zenon DEF Restart
  <2>3. active' \in BOOLEAN /\ entering' \in BOOLEAN /\ logged' \in BOOLEAN /\ torn' \in BOOLEAN
    BY <1>0, <1>2 DEF Restart
  <2>4. episode' \in Nat /\ turn' \in {"closed", "boundary", "step", "ending"} /\ cmd' \in {"idle", "enter", "review"}
    BY <1>0, <1>2 DEF Restart
  <2>5. /\ reviewed' \in {"none", "open", "edits", "default"} /\ overtaken' \in BOOLEAN
        /\ hook' \in BOOLEAN /\ terminal' \in {"none", "open", "lost"}
    BY <1>0, <1>2 DEF Restart
  <2>. QED
    BY <2>1, <2>2, <2>3, <2>4, <2>5
<1>12. ASSUME UNCHANGED <<planVars, policy, stale, workVars>>, turn' \in {"closed", "boundary", "step", "ending"},
              cmd' \in {"idle", "enter", "review"}
       PROVE  G
  BY <1>0, <1>12 DEF planVars, workVars
<1>3. CASE BulkAct
  <2>1. CASE ~Restart
    <3>1. UNCHANGED <<planVars, policy, turn, cmd, stale, workVars>>
      BY <1>3, <2>1 DEF BulkAct, DenyAll, CancelTurn, CancelJobs
    <3>. QED
      BY <1>0, <1>12, <3>1
  <2>. QED
    BY <1>2, <2>1
<1>4. CASE EnterByCommand \/ EnterByTool
  <2>1. UNCHANGED <<policy, turn, stale, workVars>> /\ cmd' \in {"idle", "enter", cmd}
    BY <1>4 DEF EnterByCommand, EnterByTool, Set, EnterLogged
  <2>2. \/ UNCHANGED planVars
        \/ /\ logged' = TRUE /\ torn' = FALSE /\ entering' = TRUE
           /\ UNCHANGED <<active, episode, reviewed, overtaken>>
    BY <1>4 DEF EnterByCommand, EnterByTool, Set, EnterLogged
  <2>3. CASE UNCHANGED planVars
    BY <1>0, <1>12, <2>1, <2>3
  <2>4. CASE /\ logged' = TRUE /\ torn' = FALSE /\ entering' = TRUE
             /\ UNCHANGED <<active, episode, reviewed, overtaken>>
    <3>1. active' \in BOOLEAN /\ entering' \in BOOLEAN /\ logged' \in BOOLEAN /\ torn' \in BOOLEAN
      BY <1>0, <2>4
    <3>2. cmd' \in {"idle", "enter", "review"} /\ hook' = hook /\ terminal' = terminal
      BY <1>0, <2>1 DEF workVars
    <3>. QED
      BY <1>0, <2>1, <2>4, <3>1, <3>2
  <2>. QED
    BY <2>2, <2>3, <2>4
<1>5. CASE OpenTurn \/ TurnStep \/ EnterOvertaken \/ HookStarts \/ HookEnds
  <2>1. CASE HookStarts \/ HookEnds
    <3>1. UNCHANGED <<planVars, policy, stale, turn, cmd, terminal>> /\ hook' \in BOOLEAN
      BY <2>1 DEF HookStarts, HookEnds
    <3>. QED
      BY <1>0, <3>1 DEF planVars
  <2>2. CASE OpenTurn \/ TurnStep \/ EnterOvertaken
    <3>1. UNCHANGED <<planVars, policy, stale, workVars>>
      BY <2>2 DEF OpenTurn, TurnStep, EnterOvertaken, PassBoundary, CloseTurn, EndStep
    <3>2. turn' \in {"closed", "boundary", "step", "ending", turn} /\ cmd' \in {"idle", cmd}
      BY <2>2 DEF OpenTurn, TurnStep, EnterOvertaken, PassBoundary, CloseTurn, EndStep
    <3>. QED
      BY <1>0, <1>12, <3>1, <3>2
  <2>. QED
    BY <1>5, <2>1, <2>2
<1>6. CASE \E p \in UserPolicies : SwitchByUser(p)
  <2>1. PICK p \in UserPolicies : SwitchByUser(p)
    BY <1>6
  <2>2. policy' \in Policy
    BY <1>0, <2>1, CallAssumption DEF SwitchByUser
  <2>3. active' \in BOOLEAN /\ entering' \in BOOLEAN /\ logged' \in BOOLEAN /\ torn' \in BOOLEAN
    BY <1>0, <2>1 DEF SwitchByUser
  <2>4. episode' \in Nat
    BY <1>0, <2>1 DEF SwitchByUser
  <2>5. UNCHANGED <<turn, cmd, stale, reviewed, overtaken, hook, terminal>>
    BY <2>1 DEF SwitchByUser, workVars
  <2>. QED
    BY <1>0, <2>2, <2>3, <2>4, <2>5
<1>7. ASSUME NEW r \in Reviewer, AskReview(r) \/ OpenReview(r) \/ ReviewReturns(r)
      PROVE  G
  <2>1. UNCHANGED <<planVars, policy, stale, workVars, turn>> /\ cmd' \in {"idle", "review", cmd}
    BY <1>7 DEF AskReview, OpenReview, ReviewReturns, ReviewOver
  <2>. QED
    BY <1>0, <1>12, <2>1
<1>8. ASSUME NEW r \in Reviewer, ProposeReview(r) \/ ApplyReview(r)
      PROVE  G
  <2>1. Target(review[r].answer) \in Policy
    BY DEF Target, Policy
  <2>2. UNCHANGED <<stale, workVars, turn>> /\ cmd' \in {"idle", cmd}
    BY <1>8 DEF ProposeReview, ApplyReview, ReviewOver
  <2>3. \/ UNCHANGED <<planVars, policy>>
        \/ RecordReview /\ UNCHANGED policy
        \/ Accepts(r) /\ Accept(r)
    BY <1>8 DEF ProposeReview, ApplyReview
  <2>4. CASE UNCHANGED <<planVars, policy>>
    BY <1>0, <1>12, <2>2, <2>4
  <2>5. CASE RecordReview /\ UNCHANGED policy
    BY <1>0, <2>2, <2>5 DEF RecordReview, workVars
  <2>6. CASE Accepts(r) /\ Accept(r)
    BY <1>0, <2>1, <2>2, <2>6 DEF Accepts, Accept, workVars
  <2>. QED
    BY <2>3, <2>4, <2>5, <2>6
<1>9. ASSUME NEW r \in Reviewer, NEW d, AnswerReview(r, d)
      PROVE  G
  BY <1>0, <1>9, <1>12 DEF AnswerReview
<1>10. ASSUME NEW w \in Settler, Commit(w) \/ SettleFails(w)
       PROVE  G
  <2>1. UNCHANGED <<policy, stale, hook>> /\ cmd' \in {"idle", cmd} /\ turn' \in {turn, "closed", "step", "ending"}
    BY <1>10 DEF Commit, SettleFails, Returns, workVars
  <2>2. terminal' \in {terminal, "lost"}
    BY <1>10 DEF Commit, SettleFails, workVars
  <2>3. \/ UNCHANGED planVars
        \/ CommitEntry(w)
        \/ (logged' = logged \/ logged' = TRUE) /\ (torn' = torn \/ torn' = FALSE)
           /\ UNCHANGED <<active, entering, episode, reviewed, overtaken>>
    BY <1>10 DEF Commit, SettleFails
  <2>4. CASE UNCHANGED planVars
    BY <1>0, <2>1, <2>2, <2>4 DEF planVars
  <2>5. CASE CommitEntry(w)
    BY <1>0, <2>1, <2>2, <2>5 DEF CommitEntry
  <2>6. CASE (logged' = logged \/ logged' = TRUE) /\ (torn' = torn \/ torn' = FALSE)
             /\ UNCHANGED <<active, entering, episode, reviewed, overtaken>>
    <3>1. logged' \in BOOLEAN /\ torn' \in BOOLEAN
      BY <1>0, <2>6
    <3>. QED
      BY <1>0, <2>1, <2>2, <2>6, <3>1
  <2>. QED
    BY <2>3, <2>4, <2>5, <2>6
<1>11. ASSUME NEW w \in Settler, BeginSettle(w) \/ JobsOver(w) \/ KillTerminal(w)
       PROVE  G
  BY <1>0, <1>11 DEF BeginSettle, JobsOver, KillTerminal, planVars, workVars
<1>. QED
  BY <1>1, <1>3, <1>4, <1>5, <1>6, <1>7, <1>8, <1>9, <1>10, <1>11, NextSorts DEF OtherAct, ReviewStep

\* Every step keeps the state well formed.
LEMMA TypeStep ==
    ASSUME PermissionTypeOK, \A c \in Calls : CallInv(c), Next
    PROVE  PermissionTypeOK'
BY CallType, AnswerType, ReviewType, SettleType, ScalarType DEF PermissionTypeOK

-----------------------------------------------------------------------------
(* What a call has been through                                            *)

\* What the person has said stays said, in the same process.
LEMMA ConsentGrows ==
    ASSUME Next, ~Restart
    PROVE  consent \subseteq consent'
<1>1. CASE OtherAct
  BY <1>1, OtherFrame DEF callVars
<1>2. CASE BulkAct
  BY <1>2 DEF BulkAct, DenyAll, CancelTurn, CancelJobs
<1>3. CASE \E c \in Calls : CallAct(c)
  BY <1>3 DEF CallAct, SpawnAgent, Admit, Decide, EnterGate, Resolve, Guard, Start, Finish, Promote, Cancel, Answer
<1>. QED
  BY <1>1, <1>2, <1>3, NextSorts

\* And a decider that has let a call pass has.
LEMMA PassedStays ==
    ASSUME consent \subseteq consent', NEW c \in Calls, call'[c].input = call[c].input, NEW d, Passed(c, d)
    PROVE  Passed(c, d)'
<1>1. AskedFor(c) => AskedFor(c)'
  BY DEF AskedFor
<1>2. \A i : Allowed(c, i) => Allowed(c, i)'
  BY DEF Allowed
<1>. QED
  BY <1>1, <1>2 DEF Passed

\* The sequence decide_with_child_policy goes through.
LEMMA DecidersAsked ==
    ASSUME NEW c \in Calls
    PROVE  \A d \in Asked(policy, c) : \E i \in 1..Len(Deciders(c)) : Deciders(c)[i] = d
<1>1. CASE Child[c] = "none" \/ (policy = "ask" /\ Child[c] # "deny")
  BY <1>1 DEF Asked, Deciders
<1>2. CASE ~(Child[c] = "none" \/ (policy = "ask" /\ Child[c] # "deny")) /\ Child[c] = "deny"
  BY <1>2 DEF Asked, Deciders
<1>3. CASE ~(Child[c] = "none" \/ (policy = "ask" /\ Child[c] # "deny")) /\ Child[c] # "deny"
  BY <1>3 DEF Asked, Deciders
<1>. QED
  BY <1>1, <1>2, <1>3

\* A call whose record keeps its place, its deciders and its answer.
LEMMA CallKept ==
    ASSUME NEW c \in Calls, CallInv(c), consent \subseteq consent', call'[c].input = call[c].input,
           call'[c].stage = call[c].stage, call'[c].under = call[c].under, call'[c].todo = call[c].todo,
           call'[c].said = call[c].said
    PROVE  CallInv(c)'
<1>1. Queued(c)' = Queued(c) /\ Asker(c)' = Asker(c)
  BY DEF Queued, Asker
<1>2. \A d \in Asked(call[c].under, c) : Passed(c, d) => Passed(c, d)'
  BY PassedStays
<1>. QED
  BY <1>1, <1>2 DEF CallInv

\* A call that is over, for the Plan guard, a denial or a cancellation.
LEMMA CallRefused ==
    ASSUME NEW c \in Calls, call'[c].stage = "refused", call'[c].said = "none"
    PROVE  CallInv(c)'
BY DEF CallInv

\* The decider at the head has let the call pass; the rest are still to be asked.
LEMMA HeadPassed ==
    ASSUME PermissionTypeOK, NEW c \in Calls, CallInv(c), consent \subseteq consent', call'[c].input = call[c].input,
           call[c].stage \in {"deciding", "gated", "prompt"}, call[c].todo # << >>, Passed(c, Asker(c)),
           call'[c].stage = "deciding", call'[c].under = call[c].under, call'[c].todo = Tail(call[c].todo),
           call'[c].said = "none"
    PROVE  CallInv(c)'
<1>1. call[c].todo \in Seq(Decider)
  BY DEF PermissionTypeOK, ToolCall
<1>2. Queued(c) \subseteq {Asker(c)} \union Queued(c)'
  BY <1>1, TailType DEF Queued, Asker
<1>3. \A d \in Asked(call[c].under, c) : Passed(c, d) => Passed(c, d)'
  BY PassedStays
<1>4. \A d \in Asked(call[c].under, c) : Passed(c, d) \/ d \in Queued(c)
  BY DEF CallInv
<1>5. \A d \in Asked(call[c].under, c) : Passed(c, d)' \/ d \in Queued(c)'
  BY <1>2, <1>3, <1>4
<1>. QED
  BY <1>5 DEF CallInv

\* A call that moves on from one question to the next keeps who is to be asked.
LEMMA CallMovesOn ==
    ASSUME NEW c \in Calls, CallInv(c), consent \subseteq consent', call'[c].input = call[c].input,
           call[c].stage \in {"deciding", "gated", "approved", "cleared", "running"},
           call'[c].stage \in {"gated", "prompt", "approved", "cleared", "running", "done"},
           call'[c].under = call[c].under,
           call'[c].todo = call[c].todo, call'[c].said = "none",
           call'[c].stage \in {"approved", "cleared", "running", "done"} => call[c].todo = << >>,
           call'[c].stage \in {"gated", "prompt"} => call[c].todo # << >> /\ Asker(c).kind \in {"ask", "accepted"},
           call'[c].stage = "gated" => Asker(c).kind = "accepted"
    PROVE  CallInv(c)'
<1>1. Queued(c)' = Queued(c) /\ Asker(c)' = Asker(c)
  BY DEF Queued, Asker
<1>2. \A d \in Asked(call[c].under, c) : Passed(c, d) => Passed(c, d)'
  BY PassedStays
<1>. QED
  BY <1>1, <1>2 DEF CallInv

\* A stage that changes alone.
LEMMA AtFields ==
    ASSUME call \in [Calls -> ToolCall], NEW c \in Calls, NEW s, call' = At(c, s)
    PROVE  /\ call'[c].stage = s /\ call'[c].input = call[c].input /\ call'[c].under = call[c].under
           /\ call'[c].todo = call[c].todo
           /\ call'[c].said = call[c].said /\ call'[c].background = call[c].background
<1>1. call[c] \in ToolCall
  OBVIOUS
<1>2. call'[c] = [call[c] EXCEPT !.stage = s]
  BY DEF At
<1>. QED
  BY <1>1, <1>2 DEF ToolCall

\* The deciders that ask nobody.
LEMMA DecideInv ==
    ASSUME PermissionTypeOK, NEW c \in Calls, CallInv(c), Decide(c), consent \subseteq consent'
    PROVE  CallInv(c)'
<1>0. call \in [Calls -> ToolCall] /\ call[c] \in ToolCall /\ call[c].todo \in Seq(Decider)
  BY DEF PermissionTypeOK, ToolCall
<1>1. call[c].stage = "deciding" /\ call[c].said = "none"
  BY DEF Decide, CallInv
<1>2. CASE call[c].todo = << >>
  <2>1. call' = At(c, "approved")
    BY <1>2 DEF Decide
  <2>. QED
    BY <1>0, <1>1, <1>2, <2>1, AtFields, CallMovesOn
<1>3. CASE call[c].todo # << >>
  <2>1. Asker(c).kind \in Policy
    BY <1>0, <1>3, TailType DEF Asker, Decider
  <2>2. CASE Asker(c).kind = "full" \/ (Asker(c).kind = "accepted" /\ c \in FileTools /\ ~call[c].cancelled)
    <3>1. call' = [call EXCEPT ![c].todo = Tail(@)]
      BY <1>3, <2>2 DEF Decide
    <3>2. call'[c] = [call[c] EXCEPT !.todo = Tail(call[c].todo)]
      BY <1>0, <3>1
    <3>3. /\ call'[c].stage = "deciding" /\ call'[c].under = call[c].under /\ call'[c].todo = Tail(call[c].todo)
          /\ call'[c].said = "none" /\ call'[c].input = call[c].input
      BY <1>0, <1>1, <3>2 DEF ToolCall
    <3>4. Passed(c, Asker(c))
      BY <2>2 DEF Passed
    <3>. QED
      BY <1>1, <1>3, <3>3, <3>4, HeadPassed
  <2>3. CASE call' = Refused(c)
    BY <1>0, <2>3, RefusedType, CallRefused
  <2>4. CASE Asker(c).kind = "ask" /\ call' = At(c, "prompt")
    BY <1>0, <1>1, <1>3, <2>4, AtFields, CallMovesOn
  <2>5. CASE Asker(c).kind = "accepted" /\ call' = At(c, "gated")
    BY <1>0, <1>1, <1>3, <2>5, AtFields, CallMovesOn
  <2>. QED
    BY <1>3, <2>1, <2>2, <2>3, <2>4, <2>5 DEF Decide, Policy
<1>. QED
  BY <1>2, <1>3

\* AcceptedEdits under its lock: a remembered rule passes, for it was given.
LEMMA EnterGateInv ==
    ASSUME PermissionTypeOK, NEW c \in Calls, CallInv(c), GrantInv, EnterGate(c), consent \subseteq consent'
    PROVE  CallInv(c)'
<1>0. call \in [Calls -> ToolCall] /\ call[c] \in ToolCall /\ call[c].todo \in Seq(Decider)
  BY DEF PermissionTypeOK, ToolCall
<1>1. call[c].stage = "gated" /\ call[c].said = "none" /\ call[c].todo # << >> /\ Asker(c).kind = "accepted"
  BY DEF EnterGate, CallInv
<1>2. CASE call' = Refused(c)
  BY <1>0, <1>2, RefusedType, CallRefused
<1>3. CASE call' = At(c, "prompt")
  BY <1>0, <1>1, <1>3, AtFields, CallMovesOn
<1>4. CASE call[c].input \in grants[Asker(c).at] /\ call' = [call EXCEPT ![c].stage = "deciding", ![c].todo = Tail(@)]
  <2>1. Asker(c).at \in Instance
    BY <1>0, <1>1, TailType DEF Asker, Decider
  <2>2. \E k \in consent : k.at = Asker(c).at /\ k.kind = "session" /\ k.input = call[c].input
    BY <1>4, <2>1 DEF GrantInv
  <2>3. Passed(c, Asker(c))
    BY <1>1, <2>2 DEF Passed, Allowed
  <2>4. call'[c] = [call[c] EXCEPT !.stage = "deciding", !.todo = Tail(call[c].todo)]
    BY <1>0, <1>4
  <2>5. /\ call'[c].stage = "deciding" /\ call'[c].under = call[c].under /\ call'[c].todo = Tail(call[c].todo)
        /\ call'[c].said = "none" /\ call'[c].input = call[c].input
    BY <1>0, <1>1, <2>4 DEF ToolCall
  <2>. QED
    BY <1>1, <2>3, <2>5, HeadPassed
<1>. QED
  BY <1>2, <1>3, <1>4 DEF EnterGate

\* The question comes back: an allowance is what this decider waited for.
LEMMA ResolveInv ==
    ASSUME PermissionTypeOK, NEW c \in Calls, CallInv(c), Resolve(c), consent \subseteq consent'
    PROVE  CallInv(c)'
<1>0. call \in [Calls -> ToolCall] /\ call[c] \in ToolCall /\ call[c].todo \in Seq(Decider)
  BY DEF PermissionTypeOK, ToolCall
<1>1. call[c].stage = "prompt" /\ call[c].todo # << >> /\ Asker(c).kind \in {"ask", "accepted"}
  BY DEF Resolve, CallInv
<1>2. CASE call' = Refused(c)
  BY <1>0, <1>2, RefusedType, CallRefused
<1>3. CASE call' # Refused(c)
  <2>1. /\ call[c].said \notin {"none", "deny"}
        /\ call' = [call EXCEPT ![c].stage = "deciding", ![c].todo = Tail(@), ![c].said = "none"]
    BY <1>3 DEF Resolve
  <2>2. call[c].said \in {"allow", "session"}
    BY <1>0, <2>1 DEF ToolCall
  <2>3. [call |-> c, at |-> Asker(c).at, kind |-> call[c].said, input |-> call[c].input] \in consent
    BY <1>1, <2>2 DEF CallInv
  <2>4. Asker(c).at \in Instance
    BY <1>0, <1>1, TailType DEF Asker, Decider
  <2>5. Passed(c, Asker(c))
    BY <1>1, <2>2, <2>3, <2>4 DEF Passed, Allowed, AskedFor
  <2>6. call'[c] = [call[c] EXCEPT !.stage = "deciding", !.todo = Tail(call[c].todo), !.said = "none"]
    BY <1>0, <2>1
  <2>7. /\ call'[c].stage = "deciding" /\ call'[c].under = call[c].under /\ call'[c].todo = Tail(call[c].todo)
        /\ call'[c].said = "none" /\ call'[c].input = call[c].input
    BY <1>0, <1>1, <2>6 DEF ToolCall
  <2>. QED
    BY <1>1, <2>5, <2>7, HeadPassed
<1>. QED
  BY <1>2, <1>3

\* The person answers: the answer is recorded for this call and this instance.
LEMMA AnswerInv ==
    ASSUME PermissionTypeOK, NEW c \in Calls, CallInv(c), NEW a \in {"allow", "session", "deny"}, Answer(c, a)
    PROVE  CallInv(c)'
<1>0. call \in [Calls -> ToolCall] /\ call[c] \in ToolCall /\ call[c].stage = "prompt"
  BY DEF PermissionTypeOK, Answer
<1>1. call'[c] = [call[c] EXCEPT !.said = a]
  BY <1>0 DEF Answer
<1>2. /\ call'[c].stage = "prompt" /\ call'[c].under = call[c].under /\ call'[c].todo = call[c].todo
      /\ call'[c].said = a /\ call'[c].input = call[c].input
  BY <1>0, <1>1 DEF ToolCall
<1>3. Queued(c)' = Queued(c) /\ Asker(c)' = Asker(c)
  BY <1>2 DEF Queued, Asker
<1>4. consent \subseteq consent'
  BY DEF Answer
<1>5. \A d \in Asked(call[c].under, c) : Passed(c, d) => Passed(c, d)'
  BY <1>2, <1>4, PassedStays
<1>6. a # "deny" => [call |-> c, at |-> Asker(c).at, kind |-> a, input |-> call[c].input] \in consent'
  BY DEF Answer
<1>. QED
  BY <1>0, <1>2, <1>3, <1>5, <1>6 DEF CallInv

\* A call is admitted under the policy of this moment, all of whose deciders are to be asked.
LEMMA AdmitInv ==
    ASSUME PermissionTypeOK, NEW c \in Calls, CallInv(c), Admit(c)
    PROVE  CallInv(c)'
<1>0. call \in [Calls -> ToolCall] /\ call[c] \in ToolCall /\ call[c].said = "none"
  BY DEF PermissionTypeOK, Admit, CallInv
<1>1. CASE call' = Refused(c)
  BY <1>0, <1>1, RefusedType, CallRefused
<1>2. ASSUME NEW x, call' = [call EXCEPT ![c].stage = "deciding", ![c].input = x, ![c].under = policy,
                                         ![c].todo = Deciders(c)]
      PROVE  CallInv(c)'
  <2>1. call'[c] = [call[c] EXCEPT !.stage = "deciding", !.input = x, !.under = policy, !.todo = Deciders(c)]
    BY <1>0, <1>2
  <2>2. /\ call'[c].stage = "deciding" /\ call'[c].under = policy
        /\ call'[c].todo = Deciders(c) /\ call'[c].said = "none"
    BY <1>0, <2>1 DEF ToolCall
  <2>3. \A d \in Asked(policy, c) : d \in Queued(c)'
    BY <2>2, DecidersAsked DEF Queued
  <2>. QED
    BY <2>2, <2>3 DEF CallInv
<1>. QED
  BY <1>1, <1>2 DEF Admit

\* Every step of a call keeps what is known of it.
LEMMA CallActInv ==
    ASSUME PermissionTypeOK, NEW c \in Calls, CallInv(c), GrantInv, CallAct(c), consent \subseteq consent'
    PROVE  CallInv(c)'
<1>0. call \in [Calls -> ToolCall] /\ call[c] \in ToolCall
  BY DEF PermissionTypeOK
<1>1. CASE SpawnAgent(c)
  <2>1. call[c].said = "none"
    BY <1>1 DEF SpawnAgent, CallInv
  <2>2. call'[c].stage = "thinking" /\ call'[c].said = "none"
    BY <1>0, <1>1, <2>1, AtFields DEF SpawnAgent
  <2>. QED
    BY <2>2 DEF CallInv
<1>2. CASE Guard(c) \/ Start(c)
  <2>1. call' = At(c, "cleared") \/ call' = At(c, "running") \/ call' = Refused(c)
    BY <1>2 DEF Guard, Start
  <2>2. call[c].stage \in {"approved", "cleared"} /\ call[c].todo = << >> /\ call[c].said = "none"
    BY <1>2 DEF Guard, Start, CallInv
  <2>3. CASE call' = Refused(c)
    BY <1>0, <2>3, RefusedType, CallRefused
  <2>. QED
    BY <1>0, <2>1, <2>2, <2>3, AtFields, CallMovesOn
<1>3. CASE Finish(c)
  <2>1. call' = At(c, "done")
    BY <1>3 DEF Finish
  <2>2. call[c].stage = "running" /\ call[c].todo = << >> /\ call[c].said = "none"
    BY <1>3 DEF Finish, CallInv
  <2>. QED
    BY <1>0, <2>1, <2>2, AtFields, CallMovesOn
<1>4. CASE Promote(c) \/ Cancel(c)
  <2>1. call'[c] = [call[c] EXCEPT !.background = TRUE] \/ call'[c] = [call[c] EXCEPT !.cancelled = TRUE]
    BY <1>0, <1>4 DEF Promote, Cancel
  <2>2. /\ call'[c].stage = call[c].stage /\ call'[c].under = call[c].under /\ call'[c].todo = call[c].todo
        /\ call'[c].said = call[c].said /\ call'[c].input = call[c].input
    BY <1>0, <2>1 DEF ToolCall
  <2>. QED
    BY <2>2, CallKept
<1>. QED
  BY <1>1, <1>2, <1>3, <1>4, AdmitInv, DecideInv, EnterGateInv, ResolveInv, AnswerInv DEF CallAct

\* The steps that reach every call at once keep it too.
LEMMA BulkActInv ==
    ASSUME PermissionTypeOK, NEW c \in Calls, CallInv(c), BulkAct, ~Restart, consent \subseteq consent'
    PROVE  CallInv(c)'
<1>0. call[c] \in ToolCall
  BY DEF PermissionTypeOK
<1>1. CASE call'[c] = call[c] \/ call'[c] = [call[c] EXCEPT !.cancelled = TRUE]
  <2>1. /\ call'[c].stage = call[c].stage /\ call'[c].under = call[c].under /\ call'[c].todo = call[c].todo
        /\ call'[c].said = call[c].said /\ call'[c].input = call[c].input
    BY <1>0, <1>1 DEF ToolCall
  <2>. QED
    BY <2>1, CallKept
<1>2. CASE call[c].stage = "prompt" /\ call'[c] = [call[c] EXCEPT !.said = "deny"]
  <2>1. /\ call'[c].stage = "prompt" /\ call'[c].under = call[c].under /\ call'[c].todo = call[c].todo
        /\ call'[c].said = "deny" /\ call'[c].input = call[c].input
    BY <1>0, <1>2 DEF ToolCall
  <2>2. Queued(c)' = Queued(c) /\ Asker(c)' = Asker(c)
    BY <2>1 DEF Queued, Asker
  <2>3. \A d \in Asked(call[c].under, c) : Passed(c, d) => Passed(c, d)'
    BY <2>1, PassedStays
  <2>. QED
    BY <1>2, <2>1, <2>2, <2>3 DEF CallInv
<1>3. CASE call'[c] = [Unasked EXCEPT !.stage = "refused"]
  BY <1>3, Constants, CallRefused
<1>. QED
  BY <1>1, <1>2, <1>3, BulkActShape

\* With the process every call that was begun is over.
LEMMA RestartInv ==
    ASSUME PermissionTypeOK, Restart
    PROVE  /\ \A c \in Calls : call'[c].stage \in {"idle", "refused"}
           /\ (\A c \in Calls : CallInv(c)) => \A c \in Calls : CallInv(c)'
           /\ GrantInv'
<1>1. \A c \in Calls : \/ call[c].stage = "idle" /\ call'[c] = call[c]
                       \/ call'[c] = [Unasked EXCEPT !.stage = "refused"]
  BY DEF Restart
<1>2. \A c \in Calls : call'[c].stage \in {"idle", "refused"}
  BY <1>1, Constants
<1>3. ASSUME NEW c \in Calls, CallInv(c)
      PROVE  CallInv(c)'
  <2>1. call'[c].said = "none"
    BY <1>1, <1>3, Constants DEF CallInv
  <2>. QED
    BY <1>2, <2>1 DEF CallInv
<1>4. GrantInv'
  <2>1. grants' = [i \in Instance |-> {}]
    BY DEF Restart
  <2>. QED
    BY <2>1 DEF GrantInv
<1>. QED
  BY <1>2, <1>3, <1>4

\* Every step keeps what is known of every call.
LEMMA CallInvStep ==
    ASSUME PermissionTypeOK, \A c \in Calls : CallInv(c), GrantInv, Next
    PROVE  \A c \in Calls : CallInv(c)'
<1>. SUFFICES ASSUME ~Restart PROVE \A c \in Calls : CallInv(c)'
  BY RestartInv
<1>. TAKE c \in Calls
<1>0. consent \subseteq consent' /\ CallInv(c)
  BY ConsentGrows
<1>1. CASE OtherAct
  BY <1>0, <1>1, OtherFrame, CallKept DEF callVars
<1>2. CASE BulkAct
  BY <1>0, <1>2, BulkActInv
<1>3. ASSUME NEW d \in Calls, CallAct(d)
      PROVE  CallInv(c)'
  <2>1. CASE d = c
    BY <1>0, <1>3, <2>1, CallActInv
  <2>2. CASE d # c
    <3>1. call'[c] = call[c]
      BY <1>3, <2>2, CallActType
    <3>. QED
      BY <1>0, <3>1, CallKept
  <2>. QED
    BY <2>1, <2>2
<1>. QED
  BY <1>1, <1>2, <1>3, NextSorts

\* A rule is remembered only where and when the person gave it.
LEMMA GrantInvStep ==
    ASSUME PermissionTypeOK, \A c \in Calls : CallInv(c), GrantInv, Next
    PROVE  GrantInv'
<1>. SUFFICES ASSUME ~Restart PROVE GrantInv'
  BY RestartInv
<1>0. consent \subseteq consent' /\ grants \in [Instance -> SUBSET (AllInputs \union {"none"})]
  BY ConsentGrows DEF PermissionTypeOK
<1>1. CASE grants' = grants
  BY <1>0, <1>1 DEF GrantInv
<1>2. CASE OtherAct
  BY <1>1, <1>2, OtherFrame DEF callVars
<1>3. CASE BulkAct
  BY <1>1, <1>3 DEF BulkAct, DenyAll, CancelTurn, CancelJobs
<1>4. ASSUME NEW c \in Calls, CallAct(c)
      PROVE  GrantInv'
  <2>1. CASE Resolve(c)
    <3>1. CASE grants' = grants
      BY <1>1, <3>1
    <3>2. CASE grants' = [grants EXCEPT ![Asker(c).at] = @ \union Remembers(c)]
      <4>1. call[c].stage = "prompt" /\ call[c].todo \in Seq(Decider) /\ call[c].todo # << >>
        BY <2>1 DEF Resolve, CallInv, PermissionTypeOK, ToolCall
      <4>2. Asker(c).at \in Instance
        BY <4>1, TailType DEF Asker, Decider
      <4>3. \A g \in Remembers(c) : \E k \in consent : k.at = Asker(c).at /\ k.kind = "session" /\ k.input = g
        <5>1. call[c].said = "session" =>
                 [call |-> c, at |-> Asker(c).at, kind |-> "session", input |-> call[c].input] \in consent
          BY <4>1 DEF CallInv
        <5>. QED
          BY <5>1 DEF Remembers
      <4>. SUFFICES ASSUME NEW i \in Instance, NEW g \in grants'[i]
                    PROVE  \E k \in consent' : k.at = i /\ k.kind = "session" /\ k.input = g
        BY DEF GrantInv
      <4>4. g \in grants[i] \/ (i = Asker(c).at /\ g \in Remembers(c))
        BY <1>0, <3>2, <4>2
      <4>5. CASE g \in grants[i]
        BY <1>0, <4>5 DEF GrantInv
      <4>6. CASE i = Asker(c).at /\ g \in Remembers(c)
        BY <1>0, <4>3, <4>6
      <4>. QED
        BY <4>4, <4>5, <4>6
    <3>. QED
      BY <2>1, <3>1, <3>2 DEF Resolve
  <2>2. CASE ~Resolve(c)
    BY <1>1, <1>4, <2>2 DEF CallAct, SpawnAgent, Admit, Decide, EnterGate, Guard, Start, Finish, Promote, Cancel,
           Answer
  <2>. QED
    BY <2>1, <2>2
<1>. QED
  BY <1>2, <1>3, <1>4, NextSorts

\* A call that ran has been let pass by everyone who was to be asked.
LEMMA CallInvCovers ==
    ASSUME PermissionTypeOK, \A c \in Calls : CallInv(c)
    PROVE  ConsentCovers
<1>. SUFFICES ASSUME NEW c \in Calls, call[c].stage \in {"cleared", "running", "done"}
              PROVE  /\ call[c].under # "deny" /\ Child[c] # "deny"
                     /\ call[c].under = "ask" => AskedFor(c)
                     /\ call[c].under = "accepted" => c \in FileTools \/ Allowed(c, "root")
                     /\ Child[c] = "ask" => AskedFor(c)
                     /\ Child[c] = "accepted" => c \in FileTools \/ AskedFor(c) \/ Allowed(c, "child")
  BY DEF ConsentCovers
<1>1. Queued(c) = {}
  <2>1. call[c].todo = << >>
    BY DEF CallInv
  <2>. QED
    BY <2>1 DEF Queued
<1>2. \A d \in Asked(call[c].under, c) : Passed(c, d)
  BY <1>1 DEF CallInv
<1>3. CASE Child[c] = "none" \/ (call[c].under = "ask" /\ Child[c] # "deny")
  <2>1. Passed(c, [kind |-> call[c].under, at |-> "root"])
    BY <1>2, <1>3 DEF Asked
  <2>. QED
    BY <1>3, <2>1 DEF Passed
<1>4. CASE Child[c] = "deny"
  <2>1. Passed(c, [kind |-> "deny", at |-> "child"])
    BY <1>2, <1>4 DEF Asked
  <2>. QED
    BY <2>1 DEF Passed
<1>5. CASE ~(Child[c] = "none" \/ (call[c].under = "ask" /\ Child[c] # "deny")) /\ Child[c] # "deny"
  <2>1. Passed(c, [kind |-> call[c].under, at |-> "root"]) /\ Passed(c, [kind |-> Child[c], at |-> "child"])
    BY <1>2, <1>5 DEF Asked
  <2>. QED
    BY <1>5, <2>1 DEF Passed
<1>. QED
  BY <1>3, <1>4, <1>5

-----------------------------------------------------------------------------
(* Reviews                                                                 *)

\* A review knows the episode it was opened in; an answer is timely as long as that
\* episode lasts, and afterwards the review is withdrawn before it is decided.
LEMMA ReviewInvStep ==
    ASSUME PermissionTypeOK, ReviewInv, Next
    PROVE  ReviewInv'
<1>0. review \in [Reviewer -> Review] /\ episode \in Nat /\ \A r \in Reviewer : review[r] \in Review
  BY DEF PermissionTypeOK
<1>1. \A r \in Reviewer : review[r].token \in Nat
  BY <1>0 DEF Review
<1>2. ASSUME UNCHANGED review, episode' = episode \/ episode' = episode + 1
      PROVE  ReviewInv'
  BY <1>0, <1>1, <1>2 DEF ReviewInv, Dated
<1>3. ASSUME NEW r \in Reviewer, NEW x \in Review, review' = [review EXCEPT ![r] = x], episode' = episode,
             Dated(x, episode)
      PROVE  ReviewInv'
  <2>1. \A q \in Reviewer : review'[q] = IF q = r THEN x ELSE review[q]
    BY <1>0, <1>3
  <2>. QED
    BY <1>3, <2>1 DEF ReviewInv
<1>4. ASSUME NEW r \in Reviewer, review' = [review EXCEPT ![r] = NoReview], episode' = episode
      PROVE  ReviewInv'
  <2>1. Dated(NoReview, episode)
    BY <1>0 DEF Dated, NoReview
  <2>. QED
    BY <1>3, <1>4, <2>1, Constants
<1>5. ASSUME NEW r \in Reviewer, AskReview(r)
      PROVE  ReviewInv'
  <2>. DEFINE x == [NoReview EXCEPT !.stage = "gate"]
  <2>1. review' = [review EXCEPT ![r] = x] /\ episode' = episode
    BY <1>5 DEF AskReview, planVars
  <2>2. x \in Review /\ x.token = 0 /\ x.timely /\ x.stage = "gate"
    BY Constants DEF NoReview
  <2>3. Dated(x, episode)
    BY <1>0, <2>2 DEF Dated
  <2>. HIDE DEF x
  <2>. QED
    BY <1>3, <2>1, <2>2, <2>3
<1>6. ASSUME NEW r \in Reviewer, OpenReview(r)
      PROVE  ReviewInv'
  <2>1. CASE ReviewOver(r)
    BY <1>4, <1>6, <2>1 DEF OpenReview, ReviewOver, planVars
  <2>2. CASE ~ReviewOver(r)
    <3>. DEFINE x == [review[r] EXCEPT !.stage = "open", !.token = episode]
    <3>1. review' = [review EXCEPT ![r] = x] /\ episode' = episode /\ review[r].stage = "gate"
      BY <1>0, <1>6, <2>2 DEF OpenReview, planVars
    <3>2. x \in Review /\ x.token = episode /\ x.timely = review[r].timely /\ x.stage = "open"
      BY <1>0 DEF Review
    <3>3. review[r].timely
      BY <3>1 DEF ReviewInv, Dated
    <3>4. Dated(x, episode)
      BY <1>0, <3>1, <3>2, <3>3 DEF Dated
    <3>. HIDE DEF x
    <3>. QED
      BY <1>3, <3>1, <3>2, <3>4
  <2>. QED
    BY <2>1, <2>2
<1>7. ASSUME NEW r \in Reviewer, ProposeReview(r)
      PROVE  ReviewInv'
  <2>1. CASE ReviewOver(r)
    BY <1>4, <1>7, <2>1 DEF ProposeReview, ReviewOver, RecordReview, planVars
  <2>2. CASE ~ReviewOver(r)
    <3>. DEFINE x == [review[r] EXCEPT !.stage = "asked"]
    <3>1. review' = [review EXCEPT ![r] = x] /\ episode' = episode /\ review[r].stage = "open"
      BY <1>0, <1>7, <2>2 DEF ProposeReview, RecordReview
    <3>2. x \in Review /\ x.token = review[r].token /\ x.timely = review[r].timely /\ x.stage = "asked"
      BY <1>0 DEF Review
    <3>3. review[r].timely /\ review[r].token <= episode
      BY <3>1 DEF ReviewInv, Dated
    <3>4. Dated(x, episode)
      BY <1>0, <3>1, <3>2, <3>3 DEF Dated
    <3>. HIDE DEF x
    <3>. QED
      BY <1>3, <3>1, <3>2, <3>4
  <2>. QED
    BY <2>1, <2>2
<1>8. ASSUME NEW r \in Reviewer, NEW d \in {"edits", "default", "stay"}, AnswerReview(r, d)
      PROVE  ReviewInv'
  <2>. DEFINE x == [review[r] EXCEPT !.answer = d, !.timely = (review[r].token = episode)]
  <2>1. review' = [review EXCEPT ![r] = x] /\ episode' = episode /\ review[r].stage = "asked"
    BY <1>0, <1>8 DEF AnswerReview, planVars
  <2>2. x \in Review /\ x.token = review[r].token /\ x.timely = (review[r].token = episode) /\ x.stage = "asked"
    BY <1>0, <2>1 DEF Review
  <2>3. review[r].token <= episode
    BY DEF ReviewInv, Dated
  <2>4. Dated(x, episode)
    BY <1>0, <2>2, <2>3 DEF Dated
  <2>. HIDE DEF x
  <2>. QED
    BY <1>3, <2>1, <2>2, <2>4
<1>9. ASSUME NEW r \in Reviewer, ReviewReturns(r)
      PROVE  ReviewInv'
  <2>1. CASE ReviewOver(r)
    BY <1>4, <1>9, <2>1 DEF ReviewReturns, ReviewOver, planVars
  <2>2. CASE ~ReviewOver(r)
    <3>. DEFINE x == [review[r] EXCEPT !.stage = "decided",
                                       !.answer = IF review[r].cancelled THEN "stay" ELSE review[r].answer]
    <3>1. /\ review' = [review EXCEPT ![r] = x] /\ episode' = episode
          /\ review[r].stage = "asked" /\ review[r].token = episode
      BY <1>0, <1>9, <2>2 DEF ReviewReturns, Withdrawn, planVars
    <3>2. x \in Review /\ x.token = review[r].token /\ x.timely = review[r].timely /\ x.stage = "decided"
      BY <1>0 DEF Review
    <3>3. review[r].timely
      BY <3>1 DEF ReviewInv, Dated
    <3>4. Dated(x, episode)
      BY <1>0, <3>1, <3>2, <3>3 DEF Dated
    <3>. HIDE DEF x
    <3>. QED
      BY <1>3, <3>1, <3>2, <3>4
  <2>. QED
    BY <2>1, <2>2
<1>10. ASSUME NEW r \in Reviewer, ApplyReview(r)
       PROVE  ReviewInv'
  BY <1>4, <1>10 DEF ApplyReview, Accept, RecordReview, ReviewOver, planVars
<1>11. CASE DenyAll
  <2>1. episode' = episode /\ \A r \in Reviewer :
            review'[r] = IF review[r].stage = "asked" /\ review[r].answer = "none"
                         THEN [review[r] EXCEPT !.answer = "stay", !.timely = (review[r].token = episode)]
                         ELSE review[r]
    BY <1>11 DEF DenyAll, planVars
  <2>2. \A r \in Reviewer :
            \/ review'[r] = review[r]
            \/ /\ review[r].stage = "asked" /\ review'[r].stage = "asked" /\ review'[r].token = review[r].token
               /\ review'[r].timely = (review[r].token = episode)
    BY <1>0, <2>1 DEF Review
  <2>. QED
    BY <2>1, <2>2 DEF ReviewInv, Dated
<1>12. CASE CancelTurn
  <2>1. episode' = episode /\ \A r \in Reviewer :
            /\ review'[r].stage = review[r].stage /\ review'[r].token = review[r].token
            /\ review'[r].timely = review[r].timely
    BY <1>0, <1>12 DEF CancelTurn, Reviewer, Review, planVars
  <2>. QED
    BY <2>1 DEF ReviewInv, Dated
<1>13. CASE Restart
  BY <1>0, <1>13 DEF Restart, ReviewInv, Dated, NoReview
<1>14. CASE \E c \in Calls : CallAct(c)
  BY <1>2, <1>14, CallFrame DEF planVars
<1>15. CASE BulkAct
  <2>1. CASE \E w \in Settler : CancelJobs(w)
    BY <1>2, <2>1 DEF CancelJobs, planVars
  <2>. QED
    BY <1>11, <1>12, <1>13, <1>15, <2>1 DEF BulkAct
<1>16. CASE OtherAct
  <2>1. CASE EnterByCommand \/ EnterByTool
    BY <1>2, <2>1 DEF EnterByCommand, EnterByTool, Set, EnterLogged, planVars
  <2>2. CASE OpenTurn \/ TurnStep \/ EnterOvertaken \/ HookStarts \/ HookEnds
    BY <1>2, <2>2 DEF OpenTurn, TurnStep, EnterOvertaken, HookStarts, HookEnds, PassBoundary, CloseTurn, EndStep,
           planVars
  <2>3. CASE \E p \in UserPolicies : SwitchByUser(p)
    BY <1>2, <2>3 DEF SwitchByUser
  <2>4. ASSUME NEW w \in Settler, BeginSettle(w) \/ JobsOver(w) \/ KillTerminal(w) \/ Commit(w) \/ SettleFails(w)
        PROVE  ReviewInv'
    BY <1>2, <2>4 DEF BeginSettle, JobsOver, KillTerminal, Commit, CommitEntry, SettleFails, planVars
  <2>. QED
    BY <1>5, <1>6, <1>7, <1>8, <1>9, <1>10, <1>16, <2>1, <2>2, <2>3, <2>4 DEF OtherAct, ReviewStep
<1>. QED
  BY <1>14, <1>15, <1>16, NextSorts

-----------------------------------------------------------------------------
(* The log and the mode                                                    *)

\* Every step that writes the mode writes the log with it.
LEMMA RestartAgreesStep ==
    ASSUME PermissionTypeOK, RestartAgrees, Next
    PROVE  RestartAgrees'
<1>0. active \in BOOLEAN /\ entering \in BOOLEAN /\ logged \in BOOLEAN /\ torn \in BOOLEAN
  BY DEF PermissionTypeOK
<1>1. CASE UNCHANGED planVars
  BY <1>1 DEF planVars, RestartAgrees, Planning
<1>2. CASE \E c \in Calls : CallAct(c)
  BY <1>1, <1>2, CallFrame
<1>3. CASE BulkAct
  BY <1>0, <1>1, <1>3 DEF BulkAct, DenyAll, CancelTurn, CancelJobs, Restart, RestartAgrees, Planning
<1>4. CASE EnterByCommand \/ EnterByTool
  BY <1>1, <1>4 DEF EnterByCommand, EnterByTool, Set, EnterLogged, RestartAgrees, Planning
<1>5. CASE OpenTurn \/ TurnStep \/ EnterOvertaken \/ HookStarts \/ HookEnds
  BY <1>1, <1>5 DEF OpenTurn, TurnStep, EnterOvertaken, HookStarts, HookEnds, PassBoundary, CloseTurn, EndStep
<1>6. CASE \E p \in UserPolicies : SwitchByUser(p)
  <2>1. \/ ~active' /\ ~entering' /\ logged' = FALSE
        \/ ~active' /\ ~entering' /\ ~Planning /\ logged' = logged
        \/ Planning /\ UNCHANGED <<active, entering, logged, torn>>
        \/ Planning /\ UNCHANGED <<active, entering>> /\ torn' = TRUE
    BY <1>0, <1>6 DEF SwitchByUser
  <2>. QED
    BY <1>0, <2>1 DEF RestartAgrees, Planning
<1>7. ASSUME NEW r \in Reviewer, AskReview(r) \/ ReviewStep(r)
      PROVE  RestartAgrees'
  BY <1>0, <1>1, <1>7 DEF AskReview, ReviewStep, OpenReview, ProposeReview, ReviewReturns, ApplyReview, Accept,
                          RecordReview, RestartAgrees, Planning
<1>8. ASSUME NEW r \in Reviewer, NEW d, AnswerReview(r, d)
      PROVE  RestartAgrees'
  BY <1>1, <1>8 DEF AnswerReview
<1>9. ASSUME NEW w \in Settler, BeginSettle(w) \/ JobsOver(w) \/ KillTerminal(w) \/ SettleFails(w)
      PROVE  RestartAgrees'
  BY <1>1, <1>9 DEF BeginSettle, JobsOver, KillTerminal, SettleFails
<1>10. ASSUME NEW w \in Settler, Commit(w)
       PROVE  RestartAgrees'
  <2>1. \/ UNCHANGED planVars
        \/ CommitEntry(w)
        \/ /\ entering /\ UNCHANGED <<active, entering>>
           /\ UNCHANGED <<logged, torn>> \/ (logged' = TRUE /\ torn' = FALSE)
    BY <1>10 DEF Commit
  <2>. QED
    BY <1>0, <1>1, <2>1 DEF CommitEntry, RestartAgrees, Planning
<1>. QED
  BY <1>2, <1>3, <1>4, <1>5, <1>6, <1>7, <1>8, <1>9, <1>10, NextSorts DEF OtherAct

-----------------------------------------------------------------------------
(* Entering Plan mode                                                      *)

\* How a step may move a call: it is begun in a step of the turn, it passes the guard
\* outside Plan mode only, and a job stays one until it is over.
Moves(c) ==
    /\ Unfinished(c)' /\ ~Unfinished(c) => turn = "step"
    /\ Working(c)' => Working(c) \/ ~Planning
    /\ IsJob(c) /\ Unfinished(c)' => IsJob(c)'

\* Every step moves every call that way.
LEMMA CallsMove ==
    ASSUME PermissionTypeOK, \A c \in Calls : CallInv(c), Next
    PROVE  \A c \in Calls : Moves(c)
<1>. TAKE c \in Calls
<1>0. call \in [Calls -> ToolCall] /\ call[c] \in ToolCall
  BY DEF PermissionTypeOK
<1>1. CASE call'[c] = call[c]
  BY <1>1 DEF Moves, Unfinished, Working, IsJob
<1>2. CASE OtherAct
  BY <1>1, <1>2, OtherFrame DEF callVars
<1>3. CASE BulkAct
  <2>1. CASE call'[c] = [call[c] EXCEPT !.cancelled = TRUE] \/ call'[c] = [call[c] EXCEPT !.said = "deny"]
    <3>1. call'[c].stage = call[c].stage /\ call'[c].background = call[c].background
      BY <1>0, <2>1 DEF ToolCall
    <3>. QED
      BY <3>1 DEF Moves, Unfinished, Working, IsJob
  <2>2. CASE call'[c] = [Unasked EXCEPT !.stage = "refused"]
    <3>1. call'[c].stage = "refused"
      BY <2>2, Constants
    <3>. QED
      BY <3>1 DEF Moves, Unfinished, Working
  <2>. QED
    BY <1>1, <1>3, <2>1, <2>2, BulkActShape
<1>4. ASSUME NEW d \in Calls, CallAct(d)
      PROVE  Moves(c)
  <2>1. CASE d # c
    BY <1>1, <1>4, <2>1, CallActType
  <2>2. CASE d = c
    <3>1. CASE SpawnAgent(c)
      <4>1. call'[c].stage = "thinking" /\ call'[c].background = call[c].background
        BY <1>0, <3>1, AtFields DEF SpawnAgent
      <4>. QED
        BY <3>1, <4>1 DEF SpawnAgent, Moves, Unfinished, Working, IsJob
    <3>2. CASE Admit(c)
      <4>1. call'[c].stage \in {"refused", "deciding"} /\ call'[c].background = call[c].background
        <5>1. CASE call' = Refused(c)
          BY <1>0, <5>1, RefusedType
        <5>2. CASE call' # Refused(c)
          <6>1. PICK x \in Inputs[c] :
                    call' = [call EXCEPT ![c].stage = "deciding", ![c].input = x, ![c].under = policy,
                                         ![c].todo = Deciders(c)]
            BY <3>2, <5>2 DEF Admit
          <6>2. call'[c] = [call[c] EXCEPT !.stage = "deciding", !.input = x, !.under = policy, !.todo = Deciders(c)]
            BY <1>0, <6>1
          <6>. QED
            BY <1>0, <6>2 DEF ToolCall
        <5>. QED
          BY <5>1, <5>2
      <4>2. call[c].stage = "thinking" \/ (turn = "step" /\ call[c].stage = "idle")
        BY <3>2 DEF Admit
      <4>. QED
        BY <4>1, <4>2 DEF Moves, Unfinished, Working, IsJob
    <3>3. CASE Decide(c) \/ EnterGate(c) \/ Resolve(c)
      <4>1. call[c].stage \in {"deciding", "gated", "prompt"}
        BY <3>3 DEF Decide, EnterGate, Resolve
      <4>2. \/ \E s \in {"approved", "prompt", "gated"} : call' = At(c, s)
            \/ call' = Refused(c)
            \/ call'[c] = [call[c] EXCEPT !.todo = Tail(call[c].todo)]
            \/ call'[c] = [call[c] EXCEPT !.stage = "deciding", !.todo = Tail(call[c].todo)]
            \/ call'[c] = [call[c] EXCEPT !.stage = "deciding", !.todo = Tail(call[c].todo), !.said = "none"]
        BY <1>0, <3>3 DEF Decide, EnterGate, Resolve
      <4>3. /\ call'[c].stage \in {"deciding", "approved", "refused", "prompt", "gated"}
            /\ call'[c].background = call[c].background
        <5>2. CASE call' = Refused(c)
          BY <1>0, <5>2, RefusedType
        <5>1. ASSUME NEW s \in {"approved", "prompt", "gated"}, call' = At(c, s)
              PROVE  /\ call'[c].stage \in {"deciding", "approved", "refused", "prompt", "gated"}
                     /\ call'[c].background = call[c].background
          BY <1>0, <5>1, AtFields
        <5>. QED
          BY <1>0, <4>1, <4>2, <5>1, <5>2 DEF ToolCall
      <4>. QED
        BY <4>1, <4>3 DEF Moves, Unfinished, Working, IsJob
    <3>4. CASE Guard(c) \/ Start(c) \/ Finish(c)
      <4>1. \/ call[c].stage \in {"approved", "cleared"} /\ call' = Refused(c)
            \/ call[c].stage = "approved" /\ ~Planning /\ call' = At(c, "cleared")
            \/ call[c].stage = "cleared" /\ call' = At(c, "running")
            \/ call[c].stage = "running" /\ call' = At(c, "done")
        BY <3>4 DEF Guard, Start, Finish, MayStart
      <4>2. CASE call' = Refused(c)
        <5>1. call'[c].stage = "refused"
          BY <1>0, <4>2, RefusedType
        <5>. QED
          BY <5>1 DEF Moves, Unfinished, Working
      <4>3. CASE call' # Refused(c)
        <5>1. /\ call'[c].background = call[c].background
              /\ \/ call[c].stage = "approved" /\ ~Planning /\ call'[c].stage = "cleared"
                 \/ call[c].stage = "cleared" /\ call'[c].stage = "running"
                 \/ call[c].stage = "running" /\ call'[c].stage = "done"
          BY <1>0, <4>1, <4>3, AtFields
        <5>. QED
          BY <5>1 DEF Moves, Unfinished, Working, IsJob
      <4>. QED
        BY <4>2, <4>3
    <3>5. CASE Promote(c) \/ Cancel(c) \/ \E a \in {"allow", "session", "deny"} : Answer(c, a)
      <4>1. \/ call'[c] = [call[c] EXCEPT !.background = TRUE]
            \/ call'[c] = [call[c] EXCEPT !.cancelled = TRUE]
            \/ \E a \in {"allow", "session", "deny"} : call'[c] = [call[c] EXCEPT !.said = a]
        BY <1>0, <3>5 DEF Promote, Cancel, Answer
      <4>2. call'[c].stage = call[c].stage /\ (call[c].background => call'[c].background)
        BY <1>0, <4>1 DEF ToolCall
      <4>. QED
        BY <4>2 DEF Moves, Unfinished, Working, IsJob
    <3>. QED
      BY <1>4, <2>2, <3>1, <3>2, <3>3, <3>4, <3>5 DEF CallAct
  <2>. QED
    BY <2>1, <2>2
<1>. QED
  BY <1>2, <1>3, <1>4, NextSorts

\* What a settlement has been through stays true as long as nothing is begun; no hook
\* starts while the entry is pending, unless it is selected once more.
LEMMA CoveredStays ==
    ASSUME NEW w \in Settler, Covered(w), settle'[w] = settle[w],
           settle[w].stage \in {"jobs", "terminals"} => \A c \in Calls : Unfinished(c)' => Unfinished(c),
           entering' /\ settle[w].since = spent'.entries =>
               entering /\ settle[w].since = spent.entries /\ (hook' => hook)
    PROVE  Covered(w)'
BY DEF Covered

\* What the invariant needs of a step that leaves the mode, the turn and the settlements.
LEMMA PlanInvKept ==
    ASSUME PermissionTypeOK, PlanInv, RestartAgrees', CommandInv', \A c \in Calls : Moves(c),
           UNCHANGED <<active, entering, overtaken, turn, settle>>, spent'.entries = spent.entries,
           hook' => hook \/ ~Planning,
           terminal' = "open" => terminal = "open" \/ \E c \in Calls : Working(c),
           turn # "step" => review'["tool"].stage = "idle",
           cmd' = "enter" => cmd = "enter" /\ \A r \in Reviewer : ~Accepts(r)'
    PROVE  PlanInv'
<1>1. \A c \in Calls : /\ Unfinished(c)' /\ ~Unfinished(c) => turn = "step"
                       /\ Working(c)' => Working(c) \/ ~Planning
                       /\ IsJob(c) /\ Unfinished(c)' => IsJob(c)'
  BY DEF Moves
<1>2. TurnInv'
  BY <1>1 DEF PlanInv, TurnInv
<1>3. CommittedPlanIsQuiet'
  BY <1>1 DEF PlanInv, CommittedPlanIsQuiet, Planning
<1>4. SettleInv /\ CommandInv
  BY DEF PlanInv
<1>5. Covered("turn")'
  <2>1. settle["turn"].stage # "off" => turn # "step"
    BY <1>4 DEF SettleInv, AtBoundary
  <2>. QED
    BY <1>1, <1>4, <2>1, CoveredStays DEF SettleInv, Settler, Planning
<1>6. entering' => Covered("command")'
  <2>1. entering /\ settle["command"].stage # "off" => turn # "step"
    BY <1>4 DEF SettleInv, CommandInv
  <2>. QED
    BY <1>1, <1>4, <2>1, CoveredStays DEF SettleInv, Settler, Planning
<1>7. SettleInv'
  BY <1>4, <1>5, <1>6 DEF SettleInv, AtBoundary, Planning
<1>. QED
  BY <1>2, <1>3, <1>7 DEF PlanInv

\* A step of a call keeps the order of the entry.
LEMMA PlanInvCall ==
    ASSUME PermissionTypeOK, PlanInv, RestartAgrees', CommandInv', NEW c \in Calls, CallAct(c),
           \A d \in Calls : Moves(d)
    PROVE  PlanInv'
<1>1. UNCHANGED <<active, entering, overtaken, review, turn, settle, hook, cmd>>
  BY CallFrame DEF planVars
<1>2. terminal' = "open" => terminal = "open" \/ Working(c)
  BY CallFrame DEF Working
<1>3. spent'.entries = spent.entries
  BY CallFrame DEF PermissionTypeOK
<1>4. cmd' = "enter" => cmd = "enter" /\ \A r \in Reviewer : ~Accepts(r)'
  BY <1>1 DEF PlanInv, SettleInv, Accepts
<1>5. turn # "step" => review'["tool"].stage = "idle"
  BY <1>1 DEF PlanInv, TurnInv
<1>. QED
  BY <1>1, <1>2, <1>3, <1>4, <1>5, PlanInvKept

\* The commands exclude each other, and an answer belongs to a question, after every step.
LEMMA CommandInvStep ==
    ASSUME PermissionTypeOK, CommandInv, Next
    PROVE  CommandInv'
<1>0. /\ review \in [Reviewer -> Review] /\ \A r \in Reviewer : review[r] \in Review
      /\ settle \in [Settler -> Settlement]
  BY DEF PermissionTypeOK
<1>1. CASE UNCHANGED <<review, settle, cmd>>
  BY <1>1 DEF CommandInv
<1>2. ASSUME NEW r \in Reviewer, NEW x \in Review, review' = [review EXCEPT ![r] = x], UNCHANGED settle,
             x.stage \in {"idle", "gate", "open"} => x.answer = "none",
             \/ review[r].stage # "idle" /\ cmd' = cmd
             \/ r = "tool" /\ cmd' = cmd
             \/ r = "command" /\ review[r].stage # "idle" /\ cmd' = "idle" /\ x.stage = "idle"
             \/ r = "command" /\ cmd = "idle" /\ cmd' = "review"
      PROVE  CommandInv'
  <2>1. \A q \in Reviewer : review'[q] = IF q = r THEN x ELSE review[q]
    BY <1>0, <1>2
  <2>. QED
    BY <1>2, <2>1 DEF CommandInv, Reviewer
<1>3. NoReview.stage = "idle" /\ NoReview.answer = "none"
  BY DEF NoReview
<1>4. ASSUME NEW r \in Reviewer, ReviewOver(r), review[r].stage # "idle", UNCHANGED settle
      PROVE  CommandInv'
  <2>1. review' = [review EXCEPT ![r] = NoReview] /\ cmd' = IF r = "command" THEN "idle" ELSE cmd
    BY <1>4 DEF ReviewOver
  <2>2. r \in {"tool", "command"}
    BY DEF Reviewer
  <2>. QED
    BY <1>2, <1>3, <1>4, <2>1, <2>2, Constants
<1>5. ASSUME NEW r \in Reviewer, AskReview(r)
      PROVE  CommandInv'
  <2>. DEFINE x == [NoReview EXCEPT !.stage = "gate"]
  <2>1. /\ review' = [review EXCEPT ![r] = x] /\ UNCHANGED settle
        /\ (r = "tool" /\ cmd' = cmd) \/ (r # "tool" /\ cmd = "idle" /\ cmd' = "review")
    BY <1>5 DEF AskReview
  <2>2. x \in Review /\ x.answer = "none"
    BY Constants DEF NoReview
  <2>3. r \in {"tool", "command"}
    BY DEF Reviewer
  <2>. HIDE DEF x
  <2>. QED
    BY <1>2, <2>1, <2>2, <2>3
<1>6. ASSUME NEW r \in Reviewer, OpenReview(r)
      PROVE  CommandInv'
  <2>1. UNCHANGED settle /\ review[r].stage = "gate"
    BY <1>6 DEF OpenReview
  <2>2. CASE ReviewOver(r)
    BY <1>4, <2>1, <2>2
  <2>3. CASE ~ReviewOver(r)
    <3>. DEFINE x == [review[r] EXCEPT !.stage = "open", !.token = episode]
    <3>1. review' = [review EXCEPT ![r] = x] /\ cmd' = cmd
      BY <1>0, <1>6, <2>3 DEF OpenReview
    <3>2. x \in Review /\ x.answer = review[r].answer
      BY <1>0 DEF Review, PermissionTypeOK
    <3>3. review[r].answer = "none"
      BY <2>1 DEF CommandInv
    <3>. HIDE DEF x
    <3>. QED
      BY <1>2, <2>1, <3>1, <3>2, <3>3
  <2>. QED
    BY <2>2, <2>3
<1>7. ASSUME NEW r \in Reviewer, ProposeReview(r)
      PROVE  CommandInv'
  <2>1. UNCHANGED settle /\ review[r].stage = "open"
    BY <1>7 DEF ProposeReview
  <2>2. CASE ReviewOver(r)
    BY <1>4, <2>1, <2>2
  <2>3. CASE ~ReviewOver(r)
    <3>. DEFINE x == [review[r] EXCEPT !.stage = "asked"]
    <3>1. review' = [review EXCEPT ![r] = x] /\ cmd' = cmd
      BY <1>0, <1>7, <2>3 DEF ProposeReview
    <3>2. x \in Review /\ x.stage = "asked"
      BY <1>0 DEF Review
    <3>. HIDE DEF x
    <3>. QED
      BY <1>2, <2>1, <3>1, <3>2
  <2>. QED
    BY <2>2, <2>3
<1>8. ASSUME NEW r \in Reviewer, NEW d \in {"edits", "default", "stay"}, AnswerReview(r, d)
      PROVE  CommandInv'
  <2>. DEFINE x == [review[r] EXCEPT !.answer = d, !.timely = (review[r].token = episode)]
  <2>1. review' = [review EXCEPT ![r] = x] /\ cmd' = cmd /\ UNCHANGED settle /\ review[r].stage = "asked"
    BY <1>0, <1>8 DEF AnswerReview
  <2>2. x \in Review /\ x.stage = "asked"
    BY <1>0, <2>1 DEF Review
  <2>. HIDE DEF x
  <2>. QED
    BY <1>2, <2>1, <2>2
<1>9. ASSUME NEW r \in Reviewer, ReviewReturns(r)
      PROVE  CommandInv'
  <2>1. UNCHANGED settle /\ review[r].stage = "asked"
    BY <1>9 DEF ReviewReturns
  <2>2. CASE ReviewOver(r)
    BY <1>4, <2>1, <2>2
  <2>3. CASE ~ReviewOver(r)
    <3>. DEFINE x == [review[r] EXCEPT !.stage = "decided",
                                       !.answer = IF review[r].cancelled THEN "stay" ELSE review[r].answer]
    <3>1. review' = [review EXCEPT ![r] = x] /\ cmd' = cmd
      BY <1>0, <1>9, <2>3 DEF ReviewReturns
    <3>2. x \in Review /\ x.stage = "decided"
      BY <1>0 DEF Review
    <3>. HIDE DEF x
    <3>. QED
      BY <1>2, <2>1, <3>1, <3>2
  <2>. QED
    BY <2>2, <2>3
<1>10. ASSUME NEW r \in Reviewer, ApplyReview(r)
       PROVE  CommandInv'
  BY <1>4, <1>10 DEF ApplyReview
<1>11. CASE DenyAll
  <2>1. UNCHANGED <<settle, cmd>> /\ \A r \in Reviewer :
            \/ review'[r] = review[r]
            \/ /\ review[r].stage = "asked"
               /\ review'[r] = [review[r] EXCEPT !.answer = "stay", !.timely = (review[r].token = episode)]
    BY <1>11 DEF DenyAll
  <2>2. \A r \in Reviewer : review'[r] = review[r] \/ (review[r].stage = "asked" /\ review'[r].stage = "asked")
    BY <1>0, <2>1 DEF Review
  <2>. QED
    BY <2>1, <2>2 DEF CommandInv, Reviewer
<1>12. CASE CancelTurn
  <2>1. \A r \in Reviewer : review'[r].stage = review[r].stage /\ review'[r].answer = review[r].answer
    BY <1>0, <1>12 DEF CancelTurn, Reviewer, Review
  <2>. QED
    BY <1>12, <2>1 DEF CommandInv, Reviewer, CancelTurn
<1>13. CASE Restart
  BY <1>3, <1>13, Constants DEF Restart, CommandInv, Settler, Reviewer
<1>14. CASE \E c \in Calls : CallAct(c)
  BY <1>1, <1>14, CallFrame
<1>15. ASSUME NEW w \in Settler, BeginSettle(w) \/ CancelJobs(w) \/ JobsOver(w) \/ KillTerminal(w)
       PROVE  CommandInv'
  <2>1. /\ UNCHANGED <<review, cmd>> /\ \A v \in Settler : v # w => settle'[v] = settle[v]
        /\ w = "command" => cmd = "enter" \/ settle[w].stage # "off"
    BY <1>0, <1>15 DEF BeginSettle, CancelJobs, JobsOver, KillTerminal
  <2>. QED
    BY <2>1 DEF CommandInv, Settler
<1>16. ASSUME NEW w \in Settler, Commit(w) \/ SettleFails(w)
       PROVE  CommandInv'
  <2>1. /\ UNCHANGED review /\ settle[w].stage # "off" /\ settle' = [settle EXCEPT ![w] = NotSettling]
        /\ cmd' = IF w = "command" THEN "idle" ELSE cmd
    BY <1>16 DEF Commit, SettleFails, Waits, Returns
  <2>. QED
    BY <1>0, <2>1, Constants DEF CommandInv, Settler
<1>17. CASE EnterByCommand \/ EnterByTool
  <2>1. UNCHANGED <<review, settle>> /\ (cmd' = cmd \/ cmd = "idle")
    BY <1>17 DEF EnterByCommand, EnterByTool, Set, EnterLogged
  <2>. QED
    BY <2>1 DEF CommandInv
<1>18. CASE EnterOvertaken
  BY <1>18 DEF EnterOvertaken, CommandInv
<1>19. CASE OpenTurn \/ TurnStep \/ HookStarts \/ HookEnds
  BY <1>1, <1>19 DEF OpenTurn, TurnStep, HookStarts, HookEnds, PassBoundary, CloseTurn, EndStep
<1>20. CASE \E p \in UserPolicies : SwitchByUser(p)
  BY <1>1, <1>20 DEF SwitchByUser
<1>21. CASE BulkAct
  BY <1>11, <1>12, <1>13, <1>15, <1>21 DEF BulkAct
<1>22. CASE OtherAct
  BY <1>5, <1>6, <1>7, <1>8, <1>9, <1>10, <1>15, <1>16, <1>17, <1>18, <1>19, <1>20, <1>22 DEF OtherAct, ReviewStep
<1>. QED
  BY <1>14, <1>21, <1>22, NextSorts

\* The steps of a review keep the order of the entry.
LEMMA PlanInvReview ==
    ASSUME PermissionTypeOK, PlanInv, RestartAgrees', CommandInv', NEW r \in Reviewer,
           AskReview(r) \/ ReviewStep(r) \/ \E d \in {"edits", "default", "stay"} : AnswerReview(r, d),
           \A c \in Calls : Moves(c)
    PROVE  PlanInv'
<1>0. review \in [Reviewer -> Review] /\ \A q \in Reviewer : review[q] \in Review
  BY DEF PermissionTypeOK
<1>1. UNCHANGED callVars /\ UNCHANGED <<turn, settle, stale>> /\ UNCHANGED workVars
  BY DEF AskReview, ReviewStep, OpenReview, ProposeReview, ReviewReturns, ApplyReview, AnswerReview
<1>2. \A c \in Calls : call'[c].stage = call[c].stage /\ call'[c].background = call[c].background
  BY <1>1 DEF callVars
<1>3. turn # "step" => review'["tool"].stage = "idle"
  <2>1. turn # "step" => review["tool"].stage = "idle"
    BY DEF PlanInv, TurnInv
  <2>2. r = "tool" => turn = "step" \/ review[r].stage # "idle"
    BY DEF AskReview, ReviewStep, OpenReview, ProposeReview, ReviewReturns, ApplyReview, AnswerReview
  <2>3. \A q \in Reviewer : q # r => review'[q] = review[q]
    BY <1>0 DEF AskReview, ReviewStep, OpenReview, ProposeReview, ReviewReturns, ApplyReview, AnswerReview, ReviewOver
  <2>. QED
    BY <2>1, <2>2, <2>3 DEF Reviewer
<1>4. cmd' = "enter" => cmd = "enter"
  BY DEF AskReview, ReviewStep, OpenReview, ProposeReview, ReviewReturns, ApplyReview, AnswerReview, ReviewOver
<1>5. ASSUME cmd' = "enter"
      PROVE  \A q \in Reviewer : ~Accepts(q)'
  <2>1. \A q \in Reviewer : review[q].answer \notin {"edits", "default"}
    BY <1>4, <1>5 DEF PlanInv, SettleInv, Accepts
  <2>2. ~\E d \in {"edits", "default", "stay"} : AnswerReview(r, d)
    BY <1>4, <1>5 DEF AnswerReview, CommandIsSettled
  <2>3. NoReview.answer = "none" /\ [NoReview EXCEPT !.stage = "gate"].answer = "none"
    BY DEF NoReview
  <2>4. \/ review' = [review EXCEPT ![r] = NoReview]
        \/ review' = [review EXCEPT ![r] = [NoReview EXCEPT !.stage = "gate"]]
        \/ review' = [review EXCEPT ![r] = [review[r] EXCEPT !.stage = "open", !.token = episode]]
        \/ review' = [review EXCEPT ![r] = [review[r] EXCEPT !.stage = "asked"]]
        \/ review' = [review EXCEPT ![r] = [review[r] EXCEPT !.stage = "decided",
                                              !.answer = IF review[r].cancelled THEN "stay" ELSE review[r].answer]]
    BY <1>0, <2>2 DEF AskReview, ReviewStep, OpenReview, ProposeReview, ReviewReturns, ApplyReview, ReviewOver
  <2>5. \A q \in Reviewer : q # r => review'[q] = review[q]
    BY <1>0, <2>4
  <2>6. review'[r].answer \in {review[r].answer, "none", "stay"}
    <3>1. review[r] \in Review
      BY <1>0
    <3>2. \/ review'[r] = NoReview
          \/ review'[r] = [NoReview EXCEPT !.stage = "gate"]
          \/ review'[r] = [review[r] EXCEPT !.stage = "open", !.token = episode]
          \/ review'[r] = [review[r] EXCEPT !.stage = "asked"]
          \/ review'[r] = [review[r] EXCEPT !.stage = "decided",
                                            !.answer = IF review[r].cancelled THEN "stay" ELSE review[r].answer]
      BY <1>0, <2>4
    <3>. QED
      BY <2>3, <3>1, <3>2 DEF Review
  <2>. QED
    BY <2>1, <2>5, <2>6 DEF Accepts
<1>9. spent'.entries = spent.entries
  BY DEF AskReview, ReviewStep, OpenReview, ProposeReview, ReviewReturns, ApplyReview, AnswerReview, CountMishap,
         PermissionTypeOK
<1>10. UNCHANGED overtaken
  BY DEF AskReview, ReviewStep, OpenReview, ProposeReview, ReviewReturns, ApplyReview, AnswerReview, Accept,
         RecordReview, planVars
<1>6. CASE UNCHANGED <<active, entering>>
  BY <1>1, <1>3, <1>4, <1>5, <1>6, <1>9, <1>10, PlanInvKept DEF workVars
<1>7. CASE active' = FALSE /\ entering' = FALSE /\ Accepts(r)
  <2>1. cmd # "enter"
    BY <1>7 DEF PlanInv, SettleInv
  <2>2. \A c \in Calls : Unfinished(c)' = Unfinished(c) /\ IsJob(c)' = IsJob(c)
    BY <1>2 DEF Unfinished, IsJob
  <2>3. TurnInv'
    BY <1>1, <1>3, <2>2 DEF PlanInv, TurnInv
  <2>5. Covered("turn")'
    BY <1>1, <1>7, <2>2, CoveredStays DEF PlanInv, SettleInv, Settler
  <2>4. SettleInv'
    BY <1>1, <1>4, <1>7, <1>9, <2>1, <2>5 DEF PlanInv, SettleInv, AtBoundary
  <2>. QED
    BY <1>7, <2>3, <2>4 DEF PlanInv, CommittedPlanIsQuiet
<1>8. UNCHANGED <<active, entering>> \/ (active' = FALSE /\ entering' = FALSE /\ Accepts(r))
  BY DEF AskReview, ReviewStep, OpenReview, ProposeReview, ReviewReturns, ApplyReview, AnswerReview, Accept,
         RecordReview,
         planVars
<1>. QED
  BY <1>6, <1>7, <1>8

\* The steps of the turn do.
LEMMA PlanInvTurn ==
    ASSUME PermissionTypeOK, PlanInv, OpenTurn \/ TurnStep
    PROVE  PlanInv'
<1>0. UNCHANGED <<planVars, callVars, workVars, review, settle, cmd, stale>>
  BY DEF OpenTurn, TurnStep, PassBoundary, CloseTurn, EndStep
<1>1. UNCHANGED <<active, entering, logged, torn, overtaken, call, review, settle, hook, terminal, cmd, stale>>
  BY <1>0 DEF planVars, callVars, workVars
<1>2. TurnInv'
  <2>1. turn # "step" \/ (TurnCalls = {} /\ review["tool"].stage = "idle")
    BY DEF OpenTurn, TurnStep, PassBoundary, CloseTurn, EndStep
  <2>. QED
    BY <1>1, <2>1 DEF PlanInv, TurnInv, TurnCalls, Unfinished, IsJob
<1>3. CommandInv' /\ CommittedPlanIsQuiet' /\ RestartAgrees'
  BY <1>1 DEF PlanInv, CommandInv, CommittedPlanIsQuiet, Working, RestartAgrees, Planning
<1>4. settle["turn"].stage = "off"
  BY DEF OpenTurn, TurnStep, PassBoundary, CloseTurn, EndStep, PlanInv, SettleInv, AtBoundary
<1>5. entering => turn' # "step"
  BY DEF OpenTurn, TurnStep, PassBoundary, CloseTurn, EndStep
<1>6. spent'.entries = spent.entries
  BY DEF OpenTurn, TurnStep, PassBoundary, CloseTurn, EndStep, PermissionTypeOK
<1>7. Covered("turn")' /\ (entering' => Covered("command")')
  BY <1>1, <1>6 DEF PlanInv, SettleInv, Covered, Unfinished
<1>8. SettleInv'
  BY <1>1, <1>4, <1>5, <1>6, <1>7 DEF PlanInv, SettleInv, Accepts, Planning
<1>. QED
  BY <1>2, <1>3, <1>8 DEF PlanInv

\* Selecting Plan mode, or leaving it by the user's own switch, does.
LEMMA PlanInvSwitch ==
    ASSUME PermissionTypeOK, PlanInv, RestartAgrees', CommandInv',
           EnterByCommand \/ EnterByTool \/ \E p \in UserPolicies : SwitchByUser(p)
    PROVE  PlanInv'
<1>0. UNCHANGED <<call, review, turn, settle, stale, hook, terminal>>
  BY DEF EnterByCommand, EnterByTool, Set, SwitchByUser, callVars, workVars
<1>1. TurnInv'
  BY <1>0 DEF PlanInv, TurnInv, Unfinished, IsJob
<1>2. (active' => active) /\ UNCHANGED overtaken
  BY DEF EnterByCommand, EnterByTool, Set, EnterLogged, SwitchByUser, planVars
<1>3. CommittedPlanIsQuiet'
  BY <1>0, <1>2 DEF PlanInv, CommittedPlanIsQuiet, Working
<1>4. \/ UNCHANGED <<active, entering, cmd>>
      \/ ~active' /\ ~entering' /\ cmd = "idle" /\ cmd' = "idle"
      \/ /\ ~(active /\ ~entering) /\ UNCHANGED active /\ entering' /\ spent'.entries = spent.entries + 1
         /\ \/ turn = "step" /\ cmd' = cmd
            \/ cmd = "idle" /\ cmd' = "idle"
            \/ cmd = "idle" /\ turn \notin {"boundary", "step"}
  BY DEF EnterByCommand, EnterByTool, Set, EnterLogged, SwitchByUser, planVars, OpenInLog, PermissionTypeOK
<1>5. spent'.entries \in {spent.entries, spent.entries + 1} /\ spent.entries \in Nat
  BY DEF EnterByCommand, EnterByTool, Set, SwitchByUser, PermissionTypeOK
<1>6. SettleInv /\ CommandInv /\ \A w \in Settler : settle[w].since <= spent.entries /\ settle[w].since \in Nat
  BY DEF PlanInv, SettleInv, PermissionTypeOK, Settlement
<1>7. \A w \in Settler : settle'[w].since <= spent'.entries
  BY <1>0, <1>5, <1>6
<1>8. \A c \in Calls : Unfinished(c)' = Unfinished(c)
  BY <1>0 DEF Unfinished
<1>9. ASSUME NEW w \in Settler, Covered(w), entering' => entering \/ spent'.entries = spent.entries + 1
      PROVE  Covered(w)'
  <2>1. settle[w].since = spent'.entries => spent'.entries = spent.entries
    BY <1>5, <1>6
  <2>2. entering' /\ settle[w].since = spent'.entries => entering
    BY <1>5, <1>9, <2>1
  <2>. QED
    BY <1>0, <1>8, <1>9, <2>1, <2>2, CoveredStays
<1>10. CASE UNCHANGED <<active, entering, cmd>>
  <2>1. Covered("turn")' /\ (entering' => Covered("command")')
    BY <1>6, <1>9, <1>10 DEF SettleInv, Settler
  <2>2. SettleInv'
    BY <1>0, <1>6, <1>7, <1>10, <2>1 DEF SettleInv, AtBoundary, Accepts, Planning
  <2>. QED
    BY <1>1, <1>3, <2>2 DEF PlanInv
<1>11. CASE ~active' /\ ~entering' /\ cmd = "idle" /\ cmd' = "idle"
  <2>1. Covered("turn")'
    BY <1>6, <1>9, <1>11 DEF SettleInv, Settler
  <2>2. SettleInv'
    BY <1>0, <1>6, <1>7, <1>11, <2>1 DEF SettleInv, AtBoundary
  <2>. QED
    BY <1>1, <1>3, <2>2 DEF PlanInv
<1>12. CASE /\ ~(active /\ ~entering) /\ UNCHANGED active /\ entering' /\ spent'.entries = spent.entries + 1
            /\ \/ turn = "step" /\ cmd' = cmd
               \/ cmd = "idle" /\ cmd' = "idle"
               \/ cmd = "idle" /\ turn \notin {"boundary", "step"}
  <2>1. ~active /\ ~active' /\ entering'
    BY <1>6, <1>12 DEF SettleInv
  <2>2. Covered("turn")'
    BY <1>6, <1>9, <1>12 DEF SettleInv, Settler
  <2>3. Covered("command")'
    <3>1. CASE settle["command"].stage = "off"
      BY <1>0, <3>1 DEF Covered
    <3>2. CASE settle["command"].stage # "off"
      <4>1. entering
        BY <1>6, <2>1, <3>2 DEF SettleInv, CommandInv, Planning
      <4>. QED
        BY <1>6, <1>9, <1>12, <4>1 DEF SettleInv, Settler
    <3>. QED
      BY <3>1, <3>2
  <2>4. ASSUME cmd' = "enter"
        PROVE  turn # "step" /\ \A r \in Reviewer : ~Accepts(r)'
    <3>1. cmd = "idle" /\ turn # "step"
      BY <1>6, <1>12, <2>1, <2>4 DEF SettleInv, Planning
    <3>2. review["tool"].stage = "idle" /\ review["command"].stage = "idle"
      BY <1>6, <3>1 DEF PlanInv, TurnInv, CommandInv
    <3>3. \A r \in Reviewer : review[r].answer = "none"
      BY <1>6, <3>2 DEF CommandInv, Reviewer
    <3>. QED
      BY <1>0, <3>1, <3>3 DEF Accepts
  <2>5. SettleInv'
    BY <1>0, <1>6, <1>7, <2>1, <2>2, <2>3, <2>4 DEF SettleInv, Planning, AtBoundary
  <2>. QED
    BY <1>1, <1>3, <2>5 DEF PlanInv
<1>. QED
  BY <1>4, <1>10, <1>11, <1>12

\* The waits of a commit go through everything that is unfinished.
LEMMA PlanInvSettle ==
    ASSUME PermissionTypeOK, PlanInv, RestartAgrees', CommandInv', NEW w \in Settler,
           BeginSettle(w) \/ CancelJobs(w) \/ JobsOver(w)
    PROVE  PlanInv'
<1>0. UNCHANGED <<active, entering, overtaken, review, turn, hook, terminal, cmd, spent>>
  BY DEF BeginSettle, CancelJobs, JobsOver, planVars, workVars
<1>1. \A c \in Calls : call'[c].stage = call[c].stage /\ call'[c].background = call[c].background
  <2>. TAKE c \in Calls
  <2>1. call[c] \in ToolCall /\ (call'[c] = call[c] \/ call'[c] = [call[c] EXCEPT !.cancelled = TRUE])
    BY DEF BeginSettle, CancelJobs, JobsOver, callVars, PermissionTypeOK
  <2>. QED
    BY <2>1 DEF ToolCall
<1>2. \A c \in Calls : Unfinished(c)' = Unfinished(c) /\ IsJob(c)' = IsJob(c) /\ Working(c)' = Working(c)
  BY <1>1 DEF Unfinished, IsJob, Working
<1>3. TurnInv' /\ CommittedPlanIsQuiet'
  BY <1>0, <1>2 DEF PlanInv, TurnInv, CommittedPlanIsQuiet
<1>4. SettleInv /\ CommandInv /\ TurnInv
  BY DEF PlanInv
<1>5. settle \in [Settler -> Settlement] /\ settle[w] \in Settlement /\ spent.entries \in Nat
  BY DEF PermissionTypeOK
<1>6. \A v \in Settler : v # w => settle'[v] = settle[v]
  BY <1>5 DEF BeginSettle, CancelJobs, JobsOver
<1>7. \/ BeginSettle(w) /\ settle'[w].stage = "hooks" /\ settle'[w].since = spent.entries
      \/ /\ CancelJobs(w) /\ settle[w].stage = "hooks" /\ ~hook /\ settle'[w].stage = "jobs"
         /\ settle'[w].awaits = LiveJobs /\ settle'[w].since = settle[w].since
      \/ /\ JobsOver(w) /\ settle[w].stage = "jobs" /\ QuietFor(w) /\ settle'[w].stage = "terminals"
         /\ settle'[w].since = settle[w].since
  BY <1>5 DEF BeginSettle, CancelJobs, JobsOver, Settlement
<1>8. \A v \in Settler : settle'[v].since <= spent'.entries
  BY <1>0, <1>4, <1>5, <1>6, <1>7 DEF SettleInv
<1>9. settle'["turn"].stage # "off" => AtBoundary'
  <2>1. w = "turn" => AtBoundary
    BY <1>4, <1>7 DEF BeginSettle, SettleInv
  <2>. QED
    BY <1>0, <1>4, <1>6, <2>1 DEF SettleInv, AtBoundary, Settler
<1>10. \A v \in Settler : v # w /\ Covered(v) => Covered(v)'
  BY <1>0, <1>2, <1>6, CoveredStays
<1>11. ASSUME w = "turn" \/ entering
       PROVE  Covered(w)'
  <2>1. CASE BeginSettle(w) /\ settle'[w].stage = "hooks"
    BY <2>1 DEF Covered
  <2>2. CASE CancelJobs(w) /\ settle'[w].stage = "jobs" /\ settle'[w].awaits = LiveJobs /\ ~hook
    <3>1. turn # "step"
      BY <1>4, <1>7, <1>11, <2>2 DEF SettleInv, CommandInv, AtBoundary, CancelJobs, Settler
    <3>2. \A c \in Calls : Unfinished(c) => c \in LiveJobs
      BY <1>4, <3>1 DEF TurnInv, LiveJobs
    <3>. QED
      BY <1>0, <1>2, <2>2, <3>2 DEF Covered
  <2>3. CASE /\ JobsOver(w) /\ settle[w].stage = "jobs" /\ QuietFor(w) /\ settle'[w].stage = "terminals"
             /\ settle'[w].since = settle[w].since
    <3>1. Covered(w)
      BY <1>4, <1>11 DEF SettleInv, Settler
    <3>2. \A c \in Calls : ~Unfinished(c)
      BY <2>3, <3>1 DEF Covered, QuietFor
    <3>. QED
      BY <1>0, <1>2, <2>3, <3>1, <3>2 DEF Covered
  <2>. QED
    BY <1>7, <2>1, <2>2, <2>3
<1>12. Covered("turn")' /\ (entering' => Covered("command")')
  BY <1>0, <1>4, <1>10, <1>11 DEF SettleInv, Settler
<1>13. SettleInv'
  BY <1>0, <1>4, <1>8, <1>9, <1>12 DEF SettleInv, Planning, Accepts
<1>. QED
  BY <1>3, <1>13 DEF PlanInv

\* The last part commits an entry that is still pending only when nothing is unfinished,
\* no terminal is listed, and no hook runs or the entry was selected once more.
LEMMA PlanInvCommit ==
    ASSUME PermissionTypeOK, PlanInv, RestartAgrees', CommandInv', NEW w \in Settler, Commit(w) \/ SettleFails(w)
    PROVE  PlanInv'
<1>0. /\ settle[w].stage # "off" /\ UNCHANGED <<call, review, hook>>
      /\ settle' = [settle EXCEPT ![w] = NotSettling]
      /\ cmd' = IF w = "command" THEN "idle" ELSE cmd
      /\ terminal' = "open" => terminal = "open"
  BY DEF Commit, SettleFails, Waits, Returns, callVars, workVars
<1>1. \/ UNCHANGED <<active, entering, overtaken>>
      \/ /\ entering /\ settle[w].stage = "terminals" /\ terminal # "open" /\ UNCHANGED terminal
         /\ active' = TRUE /\ entering' = FALSE /\ overtaken' = (settle[w].since # spent.entries)
  BY DEF Commit, CommitEntry, SettleFails, planVars, workVars
<1>2. settle \in [Settler -> Settlement] /\ spent.entries \in Nat
  BY DEF PermissionTypeOK
<1>3. \A v \in Settler : settle'[v] = IF v = w THEN NotSettling ELSE settle[v]
  BY <1>0, <1>2
<1>4. spent'.entries = spent.entries
  BY DEF Commit, SettleFails, CountMishap, PermissionTypeOK
<1>5. SettleInv /\ CommandInv
  BY DEF PlanInv
<1>6. w \in {"turn", "command"}
  BY DEF Settler
<1>7. (w = "turn" => turn # "step") /\ (w = "command" => turn' = turn)
  BY <1>0, <1>5 DEF Commit, SettleFails, Returns, SettleInv, AtBoundary
<1>8. w = "turn" => turn' # "step" \/ ~entering'
  BY DEF Commit, CommitEntry, SettleFails, Returns, planVars
<1>9. TurnInv'
  <2>1. turn' # "step" => turn # "step"
    BY <1>6, <1>7
  <2>. QED
    BY <1>0, <2>1 DEF PlanInv, TurnInv, Unfinished, IsJob
<1>10. CommittedPlanIsQuiet'
  <2>1. CASE UNCHANGED <<active, entering, overtaken>>
    BY <1>0, <2>1 DEF PlanInv, CommittedPlanIsQuiet, Working
  <2>2. CASE /\ entering /\ settle[w].stage = "terminals" /\ terminal # "open" /\ UNCHANGED terminal
             /\ active' = TRUE /\ entering' = FALSE /\ overtaken' = (settle[w].since # spent.entries)
    <3>1. Covered(w)
      BY <1>5, <1>6, <2>2 DEF SettleInv
    <3>2. (\A c \in Calls : ~Unfinished(c)) /\ (settle[w].since = spent.entries => ~hook)
      BY <2>2, <3>1 DEF Covered
    <3>3. \A c \in Calls : ~Working(c)'
      BY <1>0, <3>2 DEF Unfinished, Working
    <3>4. hook' => overtaken'
      BY <1>0, <2>2, <3>2
    <3>. QED
      BY <2>2, <3>3, <3>4 DEF CommittedPlanIsQuiet
  <2>. QED
    BY <1>1, <2>1, <2>2
<1>11. SettleInv'
  <2>1. ~(active /\ entering)'
    BY <1>1, <1>5 DEF SettleInv
  <2>2. \A v \in Settler : settle'[v].since <= spent'.entries
    <3>1. NotSettling.since = 0 /\ 0 <= spent.entries
      BY <1>2 DEF NotSettling
    <3>2. \A v \in Settler : settle[v].since <= spent.entries
      BY <1>5 DEF SettleInv
    <3>. QED
      BY <1>3, <1>4, <3>1, <3>2
  <2>3. settle'["turn"].stage # "off" => AtBoundary'
    BY <1>3, <1>5, <1>6, <1>7, Constants DEF SettleInv, Settler, AtBoundary
  <2>4. ASSUME NEW v \in Settler, Covered(v) \/ v = w
        PROVE  Covered(v)'
    <3>1. CASE v = w
      <4>1. settle'[v].stage = "off"
        BY <1>3, <3>1, Constants
      <4>. QED
        BY <4>1 DEF Covered
    <3>2. CASE v # w
      <4>1. settle'[v] = settle[v] /\ Covered(v)
        BY <1>3, <2>4, <3>2
      <4>2. \A c \in Calls : Unfinished(c)' => Unfinished(c)
        BY <1>0 DEF Unfinished
      <4>3. entering' => entering
        BY <1>1
      <4>. QED
        BY <1>0, <1>4, <4>1, <4>2, <4>3, CoveredStays
    <3>. QED
      BY <3>1, <3>2
  <2>5. Covered("turn")' /\ (entering' => Covered("command")')
    BY <1>1, <1>5, <2>4 DEF SettleInv, Settler
  <2>6. ASSUME cmd' = "enter"
        PROVE  Planning' /\ (\A r \in Reviewer : ~Accepts(r)') /\ (entering' => turn' # "step")
    <3>1. cmd = "enter" /\ w = "turn"
      BY <1>0, <1>6, <2>6
    <3>. QED
      BY <1>0, <1>1, <1>5, <1>8, <3>1 DEF SettleInv, Planning, Accepts
  <2>. QED
    BY <2>1, <2>2, <2>3, <2>5, <2>6 DEF SettleInv
<1>. QED
  BY <1>9, <1>10, <1>11 DEF PlanInv

\* So do the steps that reach every call at once, the hooks and the terminals, and the
\* end of a command.
LEMMA PlanInvRest ==
    ASSUME PermissionTypeOK, PlanInv, RestartAgrees', CommandInv', \A c \in Calls : Moves(c),
           \/ DenyAll \/ CancelTurn \/ Restart \/ EnterOvertaken \/ HookStarts \/ HookEnds
           \/ \E w \in Settler : KillTerminal(w)
    PROVE  PlanInv'
<1>0. review \in [Reviewer -> Review] /\ \A r \in Reviewer : review[r] \in Review
  BY DEF PermissionTypeOK
<1>1. CASE EnterOvertaken \/ HookStarts \/ HookEnds \/ \E w \in Settler : KillTerminal(w)
  <2>1. UNCHANGED <<active, entering, overtaken, turn, settle, review, spent>> /\ cmd' \in {"idle", cmd}
    BY <1>1 DEF EnterOvertaken, HookStarts, HookEnds, KillTerminal, planVars
  <2>2. (hook' => hook \/ ~Planning) /\ (terminal' = "open" => terminal = "open")
    BY <1>1 DEF EnterOvertaken, HookStarts, HookEnds, KillTerminal, workVars
  <2>3. turn # "step" => review'["tool"].stage = "idle"
    BY <2>1 DEF PlanInv, TurnInv
  <2>4. cmd' = "enter" => cmd = "enter" /\ \A r \in Reviewer : ~Accepts(r)'
    BY <2>1 DEF PlanInv, SettleInv, Accepts
  <2>. QED
    BY <2>1, <2>2, <2>3, <2>4, PlanInvKept
<1>2. CASE DenyAll \/ CancelTurn
  <2>1. UNCHANGED <<active, entering, overtaken, turn, settle, cmd, hook, terminal>>
    BY <1>2 DEF DenyAll, CancelTurn, planVars, workVars
  <2>2. spent'.entries = spent.entries
    BY <1>2 DEF DenyAll, CancelTurn, PermissionTypeOK
  <2>3. \A r \in Reviewer : /\ review'[r].stage = review[r].stage
                            /\ review'[r].answer = review[r].answer \/ review'[r].answer = "stay"
    <3>1. CASE DenyAll
      <4>. TAKE r \in Reviewer
      <4>1. \/ review'[r] = review[r]
            \/ review'[r] = [review[r] EXCEPT !.answer = "stay", !.timely = (review[r].token = episode)]
        BY <3>1 DEF DenyAll
      <4>. QED
        BY <1>0, <4>1 DEF Review
    <3>2. CASE CancelTurn
      BY <1>0, <3>2 DEF CancelTurn, Review, Reviewer
    <3>. QED
      BY <1>2, <3>1, <3>2
  <2>4. turn # "step" => review'["tool"].stage = "idle"
    BY <2>3 DEF PlanInv, TurnInv, Reviewer
  <2>5. cmd' = "enter" => cmd = "enter" /\ \A r \in Reviewer : ~Accepts(r)'
    BY <2>1, <2>3 DEF PlanInv, SettleInv, Accepts
  <2>. QED
    BY <2>1, <2>2, <2>4, <2>5, PlanInvKept
<1>3. CASE Restart
  <2>1. \A c \in Calls : call'[c].stage \in {"idle", "refused"}
    BY <1>3, RestartInv
  <2>2. /\ review'["tool"].stage = "idle"
        /\ \A w \in Settler : settle'[w].stage = "off" /\ settle'[w].since = 0
    BY <1>3, Constants DEF Restart, NoReview, Reviewer
  <2>3. cmd' = "idle" /\ entering' = FALSE /\ hook' = FALSE /\ terminal' = "none"
    BY <1>3 DEF Restart
  <2>4. TurnInv' /\ CommittedPlanIsQuiet'
    BY <2>1, <2>2, <2>3 DEF TurnInv, CommittedPlanIsQuiet, Unfinished, Working
  <2>5. Covered("turn")' /\ Covered("command")'
    BY <2>2 DEF Covered, Settler
  <2>6. spent'.entries \in Nat
    BY <1>3 DEF Restart, PermissionTypeOK
  <2>7. SettleInv'
    BY <2>2, <2>3, <2>5, <2>6 DEF SettleInv, Settler
  <2>. QED
    BY <2>4, <2>7 DEF PlanInv
<1>. QED
  BY <1>1, <1>2, <1>3

\* Every step keeps the order of the entry.
LEMMA PlanInvStep ==
    ASSUME PermissionTypeOK, \A c \in Calls : CallInv(c), PlanInv, Next
    PROVE  PlanInv'
<1>1. RestartAgrees' /\ CommandInv' /\ \A c \in Calls : Moves(c)
  BY RestartAgreesStep, CommandInvStep, CallsMove DEF PlanInv
<1>2. CASE \E c \in Calls : CallAct(c)
  BY <1>1, <1>2, PlanInvCall
<1>3. CASE BulkAct
  BY <1>1, <1>3, PlanInvSettle, PlanInvRest DEF BulkAct
<1>4. CASE OtherAct
  BY <1>1, <1>4, PlanInvReview, PlanInvTurn, PlanInvSwitch, PlanInvSettle, PlanInvCommit, PlanInvRest DEF OtherAct
<1>. QED
  BY <1>2, <1>3, <1>4, NextSorts

-----------------------------------------------------------------------------
(* The theorems                                                            *)

PermissionInv == PermissionTypeOK /\ (\A c \in Calls : CallInv(c)) /\ GrantInv /\ ReviewInv /\ PlanInv

\* It holds when the process starts.
LEMMA PermissionInvInit == Init => PermissionInv
<1>. SUFFICES ASSUME Init PROVE PermissionInv
  OBVIOUS
<1>1. PermissionTypeOK
  <2>1. call \in [Calls -> ToolCall] /\ review \in [Reviewer -> Review] /\ settle \in [Settler -> Settlement]
    BY Constants DEF Init
  <2>2. policy \in Policy
    BY CallAssumption DEF Init
  <2>3. spent \in [turns : Nat, entries : Nat, switches : Nat, reviews : Nat, mishaps : Nat]
    BY DEF Init
  <2>4. gate \in [Instance -> Calls \union {Nobody}] /\ grants \in [Instance -> SUBSET (AllInputs \union {"none"})]
    BY DEF Init
  <2>5. consent \subseteq Consent
    BY DEF Init
  <2>. QED
    BY <2>1, <2>2, <2>3, <2>4, <2>5 DEF Init, PermissionTypeOK
<1>2. \A c \in Calls : call[c] = Unasked /\ call[c].stage = "idle" /\ call[c].said = "none"
  BY DEF Init, Unasked
<1>3. \A c \in Calls : CallInv(c)
  BY <1>2 DEF CallInv
<1>4. GrantInv
  BY DEF Init, GrantInv
<1>5. \A r \in Reviewer : /\ review[r].stage = "idle" /\ review[r].token = 0
                          /\ review[r].answer = "none" /\ review[r].timely
  BY DEF Init, NoReview
<1>6. ReviewInv
  BY <1>5 DEF Init, ReviewInv, Dated
<1>7. \A w \in Settler : settle[w].stage = "off" /\ settle[w].since = 0
  BY Constants DEF Init
<1>8. TurnInv /\ CommandInv
  BY <1>2, <1>5, <1>7 DEF Init, TurnInv, CommandInv, Unfinished, Reviewer, Settler
<1>10. SettleInv
  <2>1. Covered("turn") /\ Covered("command")
    BY <1>7 DEF Covered, Settler
  <2>. QED
    BY <1>7, <2>1 DEF Init, SettleInv, Settler
<1>9. CommittedPlanIsQuiet /\ RestartAgrees
  BY DEF Init, CommittedPlanIsQuiet, RestartAgrees, Planning
<1>. QED
  BY <1>1, <1>3, <1>4, <1>6, <1>8, <1>9, <1>10 DEF PermissionInv, PlanInv

\* A step that changes nothing keeps it.
LEMMA PermissionInvStutter ==
    ASSUME PermissionInv, UNCHANGED vars
    PROVE  PermissionInv'
<1>1. PermissionTypeOK'
  BY DEF PermissionInv, vars, PermissionTypeOK
<1>2. \A c \in Calls : CallInv(c)'
  <2>1. consent \subseteq consent' /\ call' = call
    BY DEF vars
  <2>. QED
    BY <2>1, CallKept DEF PermissionInv
<1>3. GrantInv' /\ ReviewInv'
  BY DEF PermissionInv, vars, GrantInv, ReviewInv
<1>4. TurnInv' /\ CommandInv'
  BY DEF PermissionInv, PlanInv, vars, TurnInv, CommandInv, Unfinished, IsJob
<1>5. SettleInv'
  BY DEF PermissionInv, PlanInv, vars, SettleInv, Covered, AtBoundary, Unfinished, Planning, Accepts
<1>6. CommittedPlanIsQuiet' /\ RestartAgrees'
  BY DEF PermissionInv, PlanInv, vars, CommittedPlanIsQuiet, Working, RestartAgrees, Planning
<1>. QED
  BY <1>1, <1>2, <1>3, <1>4, <1>5, <1>6 DEF PermissionInv, PlanInv

\* Every step keeps it.
LEMMA PermissionInvStep == PermissionInv /\ [Next]_vars => PermissionInv'
<1>1. ASSUME PermissionInv, Next
      PROVE  PermissionInv'
  <2>1. PermissionTypeOK /\ (\A c \in Calls : CallInv(c)) /\ GrantInv /\ ReviewInv /\ PlanInv
    BY <1>1 DEF PermissionInv
  <2>2. PermissionTypeOK'
    BY <1>1, <2>1, TypeStep
  <2>3. (\A c \in Calls : CallInv(c))' /\ GrantInv' /\ ReviewInv' /\ PlanInv'
    BY <1>1, <2>1, CallInvStep, GrantInvStep, ReviewInvStep, PlanInvStep
  <2>. QED
    BY <2>2, <2>3 DEF PermissionInv
<1>. QED
  BY <1>1, PermissionInvStutter

\* The inductive invariant of the component, on which the theorems below rest: what is
\* known of each call, of the remembered rules, of the reviews and of the entry.
THEOREM PermissionInvariant == Spec => []PermissionInv
BY PermissionInvInit, PermissionInvStep, PTL DEF Spec

\* The mode, the policy, the calls, the reviews and the settlements stay well formed in
\* every order of commands, answers, cancellations, failed writes and restarts.
THEOREM PermissionsTypeCorrect == Spec => []PermissionTypeOK
<1>1. PermissionInv => PermissionTypeOK
  BY DEF PermissionInv
<1>. QED
  BY <1>1, PermissionInvariant, PTL

\* Once Plan mode is committed no mutating call is past the guard, no terminal of the
\* session is listed and no hook runs on, but for the one that began between two
\* selections: the commit has waited for the hooks, the turn's batch, every job and the
\* terminals, and nothing passes the guard after the selection.
THEOREM PlanAlwaysQuiet == Spec => []CommittedPlanIsQuiet
<1>1. PermissionInv => CommittedPlanIsQuiet
  BY DEF PermissionInv, PlanInv
<1>. QED
  BY <1>1, PermissionInvariant, PTL

\* PlanMode::from_log yields the mode the process was in, whatever was entered, left,
\* reviewed or failed to be written before, but for an exit whose flush failed.
THEOREM LogAlwaysAgrees == Spec => []RestartAgrees
<1>1. PermissionInv => RestartAgrees
  BY DEF PermissionInv, PlanInv
<1>. QED
  BY <1>1, PermissionInvariant, PTL

\* A call that passed the guard was allowed, in this process and for its own input, by
\* everybody decide_with_child_policy had to ask about it, under the policy of its
\* admission and the ceiling of its child; that policy is the configured one, one the
\* user switched to, or that of the last accepted plan, also after a restart.
THEOREM ConsentAlwaysCovers == Spec => []ConsentCovers
<1>1. PermissionInv => ConsentCovers
  BY CallInvCovers DEF PermissionInv
<1>. QED
  BY <1>1, PermissionInvariant, PTL

\* A decision that is applied was given while its review's episode was current.
THEOREM DecisionsTimely == Spec => []TimelyDecision
<1>1. PermissionInv => TimelyDecision
  BY DEF PermissionInv, ReviewInv, Dated, TimelyDecision
<1>. QED
  BY <1>1, PermissionInvariant, PTL
=============================================================================
