------------------------- MODULE SessionStoreProofs -------------------------
(***************************************************************************)
(* Proofs about SessionStore for every set of sessions and hosts and any   *)
(* number of crashes, under the quiet discipline: sessions nobody used are *)
(* neither forked nor opened while their creator leaves them, and the sync *)
(* after a restore succeeds.  The README shows, for each condition, what   *)
(* happens without it.                                                     *)
(***************************************************************************)
EXTENDS SessionStore, TLAPS

-----------------------------------------------------------------------------
(* When a session stays openable                                           *)

\* Sessions outside D survive the loss of D when no live session descends
\* directly from D: a chain without D is still a chain.
LEMMA OpensStays ==
    ASSUME NEW D \in SUBSET Session, NEW s \in Session, s \notin D, Opens(s),
           \A x \in Session : (place[x] = "live" /\ x \notin D) =>
                place'[x] = "live" /\ parent'[x] = parent[x] /\ parent[x] \notin D
    PROVE  Opens(s)'
<1>1. PICK chain \in SUBSET Session :
        /\ s \in chain
        /\ \A x \in chain : place[x] = "live" /\ (parent[x] # NoSession => parent[x] \in chain)
  BY DEF Opens
<1>2. /\ chain \ D \in SUBSET Session /\ s \in chain \ D
      /\ \A x \in chain \ D : place'[x] = "live" /\ (parent'[x] # NoSession => parent'[x] \in chain \ D)
  BY <1>1
<1> QED BY <1>2 DEF Opens

\* Nothing is lost when directories only appear.
LEMMA OpensGrows ==
    ASSUME NEW s \in Session, Opens(s),
           \A x \in Session : place[x] = "live" => place'[x] = "live" /\ parent'[x] = parent[x]
    PROVE  Opens(s)'
BY DEF Opens

\* A session that cannot be opened is in nobody's chain.
LEMMA OpensWithout ==
    ASSUME NEW s \in Session, NEW r \in Session, Opens(s), ~Opens(r), parent' = parent,
           \A x \in Session : (place[x] = "live" /\ x # r) => place'[x] = "live"
    PROVE  Opens(s)'
<1>1. PICK chain \in SUBSET Session :
        /\ s \in chain
        /\ \A x \in chain : place[x] = "live" /\ (parent[x] # NoSession => parent[x] \in chain)
  BY DEF Opens
<1>2. r \notin chain
  BY <1>1 DEF Opens
<1>3. /\ s \in chain
      /\ \A x \in chain : place'[x] = "live" /\ (parent'[x] # NoSession => parent'[x] \in chain)
  BY <1>1, <1>2
<1> QED BY <1>3 DEF Opens

\* A session that opens is in the store, and so is its parent, which opens too.
LEMMA OpensLive ==
    ASSUME NEW s \in Session, Opens(s)
    PROVE  place[s] = "live" /\ (parent[s] # NoSession => place[parent[s]] = "live")
BY DEF Opens

\* A root opens as soon as its directory exists, a fork as soon as its parent opens.
LEMMA OpensNew ==
    ASSUME NEW s \in Session, place'[s] = "live",
           parent'[s] = NoSession \/ (parent'[s] \in Session /\ Opens(parent[s])')
    PROVE  Opens(s)'
<1>1. CASE parent'[s] = NoSession
  <2>1. {s} \in SUBSET Session /\ \A x \in {s} : place'[x] = "live" /\ parent'[x] = NoSession
    BY <1>1
  <2> QED BY <2>1 DEF Opens
<1>2. CASE parent'[s] \in Session /\ Opens(parent[s])'
  <2>1. PICK chain \in SUBSET Session :
        /\ parent'[s] \in chain
        /\ \A x \in chain : place'[x] = "live" /\ (parent'[x] # NoSession => parent'[x] \in chain)
    BY <1>2 DEF Opens
  <2>2. /\ chain \union {s} \in SUBSET Session /\ s \in chain \union {s}
        /\ \A x \in chain \union {s} :
            place'[x] = "live" /\ (parent'[x] # NoSession => parent'[x] \in chain \union {s})
    BY <2>1
  <2> QED BY <2>2 DEF Opens
<1> QED BY <1>1, <1>2

\* Opens depends on nothing but where the directories are and what they name.
LEMMA OpensSame ==
    ASSUME UNCHANGED <<place, parent>>
    PROVE  \A s \in Session : Opens(s)' <=> Opens(s)
BY DEF Opens

-----------------------------------------------------------------------------
(* Typing                                                                  *)

LEMMA TypeStep ==
    ASSUME TypeOK, LockHeld, Next
    PROVE  TypeOK'
<1> USE StoreAssumption DEF TypeOK, LockHeld, Place, Stage, Idle, Begin, Finish
<1> PICK h \in Host : HostStep(h)
  BY DEF Next
<1>1. ASSUME NEW s \in Session,
             Create(h, s) \/ Resume(h, s) \/ Use(h, s) \/ Close(h, s)
      PROVE  TypeOK'
  <2>1. CASE Create(h, s)
    BY <2>1 DEF Create
  <2>2. CASE Resume(h, s)
    BY <2>2 DEF Resume
  <2>3. CASE Use(h, s)
    BY <2>3 DEF Use
  <2>4. CASE Close(h, s)
    BY <2>4 DEF Close
  <2> QED BY <1>1, <2>1, <2>2, <2>3, <2>4
<1>2. ASSUME NEW s \in Session,
             ForkOpen(h, s) \/ DeleteScan(h, s) \/ RestoreMove(h, s) \/ ArchiveOpen(h, s)
      PROVE  TypeOK'
  <2>1. CASE ForkOpen(h, s)
    BY <2>1 DEF ForkOpen
  <2>2. CASE DeleteScan(h, s)
    BY <2>2 DEF DeleteScan
  <2>3. CASE RestoreMove(h, s)
    BY <2>3 DEF RestoreMove
  <2>4. CASE ArchiveOpen(h, s)
    BY <2>4 DEF ArchiveOpen
  <2> QED BY <1>2, <2>1, <2>2, <2>3, <2>4
<1>3. CASE ForkLock(h)
  BY <1>3 DEF ForkLock
<1>4. CASE ForkPublish(h)
  <2>1. lineage' = NoHost /\ op' \in [Host -> [stage : Stage, on : Session \union {NoSession}]]
    BY <1>4 DEF ForkPublish
  <2>2. /\ place' \in [Session -> Place] /\ parent' \in [Session -> Session \union {NoSession}]
        /\ writes' \in [Host -> SUBSET Session]
    <3>1. CASE UNCHANGED <<place, parent, writes>>
      BY <3>1
    <3>2. ASSUME NEW child \in Session, place' = [place EXCEPT ![child] = "live"],
                 parent' = [parent EXCEPT ![child] = op[h].on],
                 writes' = [writes EXCEPT ![h] = @ \union {child}]
          PROVE  /\ place' \in [Session -> Place] /\ parent' \in [Session -> Session \union {NoSession}]
                 /\ writes' \in [Host -> SUBSET Session]
      <4>1. place' \in [Session -> Place]
        BY <3>2
      <4>2. parent' \in [Session -> Session \union {NoSession}]
        BY <3>2
      <4>3. writes' \in [Host -> SUBSET Session]
        BY <3>2
      <4> QED BY <4>1, <4>2, <4>3
    <3> QED BY <1>4, <3>1, <3>2 DEF ForkPublish
  <2> QED BY <1>4, <2>1, <2>2 DEF ForkPublish
<1>5. CASE DeleteMove(h)
  BY <1>5 DEF DeleteMove
<1>6. CASE RestoreCheck(h)
  BY <1>6 DEF RestoreCheck
<1>7. CASE ArchiveMark(h)
  BY <1>7 DEF ArchiveMark
<1>8. CASE Exit(h)
  BY <1>8 DEF Exit
<1>9. CASE DiscardCheck(h)
  BY <1>9, SMTT(30) DEF DiscardCheck
<1>10. CASE DiscardRemove(h)
  BY <1>10 DEF DiscardRemove
<1>11. CASE Crash(h)
  BY <1>11 DEF Crash
<1> QED
  BY <1>1, <1>2, <1>3, <1>4, <1>5, <1>6, <1>7, <1>8, <1>9, <1>10, <1>11 DEF HostStep

-----------------------------------------------------------------------------
(* The inductive step                                                      *)

\* Steps that move no directory: every session opens exactly when it did.
LEMMA HandleStep ==
    ASSUME StoreInv, ~ForkUnused, ~Intruding, TypeOK', NEW h \in Host, NEW s \in Session,
           Resume(h, s) \/ Use(h, s) \/ Close(h, s)
    PROVE  StoreInv'
<1> USE StoreAssumption DEF Idle
<1>0. \A x \in Session : Opens(x)' <=> Opens(x)
  BY OpensSame DEF Resume, Use, Close
<1>1. op' = op /\ place' = place /\ parent' = parent /\ lineage' = lineage /\ unverified' = unverified
  BY DEF Resume, Use, Close
<1>2. LockHeld' /\ ScanHolds' /\ OnMinted' /\ Openable'
  BY <1>0, <1>1 DEF StoreInv, LockHeld, ScanHolds, OnMinted, Openable, Children
<1>3. CASE Resume(h, s)
  <2>1. \A g \in Host : op[g].on = s => op[g].stage \notin {"exiting", "discarding"}
    BY <1>3 DEF Intruding, Leaving, Resume, StoreInv, TypeOK
  <2>2. UsedKept' /\ HandlesOpen'
    BY <1>0, <1>1, <1>3 DEF Resume, StoreInv, TypeOK, UsedKept, HandlesOpen, OnMinted
  <2>3. WritersApart'
    BY <1>1, <1>3, <2>1 DEF Resume, StoreInv, TypeOK, WritersApart, Writers
  <2> QED BY <1>2, <2>2, <2>3 DEF StoreInv
<1>4. CASE Use(h, s)
  <2>1. place[s] = "live"
    BY <1>4, OpensLive DEF Use, StoreInv, HandlesOpen
  <2>2. UsedKept' /\ HandlesOpen'
    BY <1>0, <1>1, <1>4, <2>1 DEF Use, StoreInv, TypeOK, UsedKept, HandlesOpen, OnMinted
  <2>3. WritersApart'
    BY <1>1, <1>4 DEF Use, StoreInv, TypeOK, WritersApart, Writers
  <2> QED BY <1>2, <2>2, <2>3 DEF StoreInv
<1>5. CASE Close(h, s)
  <2>2. UsedKept' /\ HandlesOpen'
    BY <1>0, <1>1, <1>5 DEF Close, StoreInv, TypeOK, UsedKept, HandlesOpen, OnMinted
  <2>3. WritersApart'
    BY <1>1, <1>5 DEF Close, StoreInv, TypeOK, WritersApart, Writers
  <2> QED BY <1>2, <2>2, <2>3 DEF StoreInv
<1> QED BY <1>3, <1>4, <1>5

\* Steps that only move a host from one stage to the next.
LEMMA StageStep ==
    ASSUME StoreInv, ~ForkUnused, ~Intruding, TypeOK', NEW h \in Host,
           \/ \E s \in Session : ForkOpen(h, s) \/ DeleteScan(h, s) \/ ArchiveOpen(h, s)
           \/ ForkLock(h) \/ ArchiveMark(h) \/ Exit(h) \/ DiscardCheck(h) \/ Crash(h)
    PROVE  StoreInv'
<1> USE StoreAssumption DEF Idle, Begin, Finish
<1>1. /\ place' = place /\ parent' = parent /\ used' = used /\ unverified' = unverified
      /\ \A g \in Host : g # h => op'[g] = op[g]
      /\ \A g \in Host : writes'[g] \subseteq writes[g]
  BY DEF ForkOpen, DeleteScan, ArchiveOpen, ForkLock, ArchiveMark, Exit, DiscardCheck, Crash,
         StoreInv, TypeOK
<1>2. \A x \in Session : (Opens(x)' <=> Opens(x)) /\ Children(x)' = Children(x)
  BY <1>1, OpensSame DEF Children
<1>3. UsedKept' /\ Openable'
  BY <1>1, <1>2 DEF StoreInv, UsedKept, Openable
<1>4. LockHeld'
  BY DEF ForkOpen, DeleteScan, ArchiveOpen, ForkLock, ArchiveMark, Exit, DiscardCheck, Crash,
         StoreInv, TypeOK, LockHeld
<1>5. OnMinted'
  <2>1. op'[h] # Idle => op'[h].on \in Session /\ place[op'[h].on] # "none"
    BY OpensLive DEF ForkOpen, DeleteScan, ArchiveOpen, ForkLock, ArchiveMark, Exit, DiscardCheck, Crash,
       StoreInv, TypeOK, OnMinted, HandlesOpen
  <2> QED BY <1>1, <2>1 DEF StoreInv, OnMinted
<1>6. ScanHolds'
  <2>1. op'[h].stage = "delete" => Children(op'[h].on) = {}
    BY DEF ForkOpen, DeleteScan, ArchiveOpen, ForkLock, ArchiveMark, Exit, DiscardCheck, Crash,
       StoreInv, TypeOK
  <2> QED BY <1>1, <1>2, <1>5, <2>1 DEF StoreInv, ScanHolds, OnMinted
<1>7. HandlesOpen'
  <2>1. op'[h].stage \in {"fork", "forking"} => Opens(op'[h].on) /\ used[op'[h].on]
    BY DEF ForkOpen, DeleteScan, ArchiveOpen, ForkLock, ArchiveMark, Exit, DiscardCheck, Crash,
       StoreInv, TypeOK, HandlesOpen
  <2> QED BY <1>1, <1>2, <1>5, <2>1 DEF StoreInv, TypeOK, HandlesOpen, OnMinted
<1>8. WritersApart'
  <2>1. ASSUME op'[h].stage \in {"exiting", "discarding"}
        PROVE  ~used[op'[h].on] /\ \A g \in Host : op'[h].on \notin writes'[g]
    <3>1. CASE Exit(h)
      BY <3>1 DEF Exit, StoreInv, TypeOK, WritersApart
    <3>2. CASE ~Exit(h)
      <4>1. op[h].stage = "exiting" /\ op'[h].on = op[h].on
        BY <2>1, <3>2 DEF ForkOpen, DeleteScan, ArchiveOpen, ForkLock, ArchiveMark, DiscardCheck, Crash,
           StoreInv, TypeOK
      <4> QED BY <1>1, <4>1 DEF StoreInv, TypeOK, WritersApart, Writers
    <3> QED BY <3>1, <3>2
  <2>2. ASSUME NEW g \in Host, op'[g].stage \in {"exiting", "discarding"}
        PROVE  ~used[op'[g].on] /\ Writers(op[g].on)' = {}
    <3>1. CASE g = h
      BY <1>1, <2>1, <2>2, <3>1 DEF Writers
    <3>2. CASE g # h
      BY <1>1, <2>2, <3>2 DEF StoreInv, TypeOK, WritersApart, Writers
    <3> QED BY <3>1, <3>2
  <2>3. ASSUME NEW g \in Host, NEW k \in Host, NEW s \in Session, s \in writes'[g], s \in writes'[k]
        PROVE  g = k
    BY <1>1, <2>3 DEF StoreInv, WritersApart
  <2> QED BY <1>1, <2>2, <2>3 DEF WritersApart
<1> QED BY <1>3, <1>4, <1>5, <1>6, <1>7, <1>8 DEF StoreInv

\* Steps that move, create or remove a directory.
LEMMA CreateStep ==
    ASSUME StoreInv, TypeOK', NEW h \in Host, NEW s \in Session, Create(h, s)
    PROVE  StoreInv'
<1> USE StoreAssumption DEF Idle
<1>1. /\ op' = op /\ parent' = parent /\ used' = used /\ unverified' = unverified /\ lineage' = lineage
      /\ place'[s] = "live" /\ \A x \in Session : x # s => place'[x] = place[x]
      /\ place[s] = "none" /\ parent[s] = NoSession /\ ~used[s]
      /\ \A x \in Session : parent[x] # s
  BY DEF Create, StoreInv, TypeOK, UsedKept
<1>2. ASSUME NEW x \in Session, Opens(x) PROVE Opens(x)'
  BY <1>1, <1>2, OpensGrows
<1>3. Opens(s)'
  BY <1>1, OpensNew
<1>4. UsedKept' /\ LockHeld' /\ OnMinted' /\ Openable'
  BY <1>1, <1>2, <1>3 DEF StoreInv, TypeOK, UsedKept, LockHeld, OnMinted, Openable
<1>5. ScanHolds'
  BY <1>1 DEF StoreInv, TypeOK, ScanHolds, OnMinted, Children
<1>6. HandlesOpen'
  BY <1>1, <1>2, <1>3 DEF Create, StoreInv, TypeOK, HandlesOpen, OnMinted
<1>7. \A g \in Host : s \notin writes[g]
  BY <1>1, OpensLive DEF StoreInv, HandlesOpen
<1>8. WritersApart'
  BY <1>1, <1>7 DEF Create, StoreInv, TypeOK, WritersApart, Writers, OnMinted
<1> QED BY <1>4, <1>5, <1>6, <1>8 DEF StoreInv

LEMMA ForkStep ==
    ASSUME StoreInv, TypeOK', NEW h \in Host, ForkPublish(h)
    PROVE  StoreInv'
<1> USE StoreAssumption DEF Idle, Finish
<1>0. /\ used' = used /\ unverified' = unverified /\ op'[h] = Idle
      /\ \A g \in Host : g # h => op'[g] = op[g]
      /\ lineage = h /\ op[h].on \in Session /\ Opens(op[h].on) /\ used[op[h].on]
  BY DEF ForkPublish, StoreInv, TypeOK, LockHeld, OnMinted, HandlesOpen
<1>1. LockHeld'
  BY <1>0 DEF StoreInv, LockHeld
<1>2. ScanHolds'
  BY <1>0 DEF StoreInv, LockHeld, ScanHolds
<1>3. CASE UNCHANGED <<place, parent, writes>>
  <2>1. \A x \in Session : Opens(x)' <=> Opens(x)
    BY <1>3, OpensSame
  <2>2. UsedKept' /\ OnMinted' /\ Openable' /\ HandlesOpen'
    <3>1. UsedKept' /\ OnMinted'
      <4>1. UsedKept'
        BY <1>0, <1>3 DEF StoreInv, UsedKept
      <4>2. ASSUME NEW g \in Host, op'[g] # Idle
            PROVE  op'[g].on \in Session /\ place'[op'[g].on] # "none"
        <5>1. op'[g] = op[g]
          BY <1>0, <4>2
        <5> QED BY <1>3, <4>2, <5>1 DEF StoreInv, OnMinted
      <4> QED BY <4>1, <4>2 DEF OnMinted
    <3>2. Openable'
      BY <1>0, <1>3, <2>1 DEF StoreInv, TypeOK, Openable
    <3>3. HandlesOpen'
      <4>1. ASSUME NEW g \in Host, NEW s \in writes'[g] PROVE Opens(s)'
        <5>1. s \in Session /\ Opens(s)
          BY <1>3, <4>1 DEF StoreInv, TypeOK, HandlesOpen
        <5> QED BY <2>1, <5>1
      <4>2. ASSUME NEW g \in Host, op'[g].stage \in {"fork", "forking"}
            PROVE  Opens(op[g].on)' /\ used'[op'[g].on] /\ op'[g] = op[g]
        <5>1. g # h /\ op'[g] = op[g]
          BY <1>0, <4>2
        <5>2. op[g].on \in Session /\ Opens(op[g].on) /\ used[op[g].on]
          BY <4>2, <5>1 DEF StoreInv, OnMinted, HandlesOpen
        <5>3. Opens(op[g].on)'
          BY <1>3, <5>1, <5>2 DEF Opens
        <5> QED BY <1>0, <5>1, <5>2, <5>3
      <4> QED BY <4>1, <4>2 DEF HandlesOpen
    <3> QED BY <3>1, <3>2, <3>3
  <2>3. WritersApart'
    BY <1>0, <1>3 DEF StoreInv, WritersApart, Writers
  <2> QED BY <1>1, <1>2, <2>2, <2>3 DEF StoreInv
<1>4. CASE \E child \in Session :
            /\ place[child] = "none"
            /\ place' = [place EXCEPT ![child] = "live"]
            /\ parent' = [parent EXCEPT ![child] = op[h].on]
            /\ writes' = [writes EXCEPT ![h] = @ \union {child}]
  <2>1. PICK c \in Session :
            /\ place[c] = "none"
            /\ place' = [place EXCEPT ![c] = "live"]
            /\ parent' = [parent EXCEPT ![c] = op[h].on]
            /\ writes' = [writes EXCEPT ![h] = @ \union {c}]
    BY <1>4
  <2>2. /\ place'[c] = "live" /\ parent'[c] = op[h].on /\ ~used[c]
        /\ \A x \in Session : x # c => place'[x] = place[x] /\ parent'[x] = parent[x]
        /\ \A g \in Host : writes'[g] \subseteq writes[g] \union {c}
        /\ \A g \in Host : g # h => writes'[g] = writes[g]
    BY <2>1 DEF StoreInv, TypeOK, UsedKept
  <2>3. ASSUME NEW x \in Session, Opens(x) PROVE Opens(x)'
    <3>1. \A y \in Session : place[y] = "live" => place'[y] = "live" /\ parent'[y] = parent[y]
      BY <2>1, <2>2
    <3> QED BY <2>3, <3>1, OpensGrows
  <2>4. Opens(op[h].on)
    BY <1>0
  <2>5. Opens(c)'
    <3> DEFINE p == op[h].on
    <3>1. p \in Session /\ p = parent'[c]
      BY <1>0, <2>2
    <3>2. PICK chain \in SUBSET Session :
            /\ p \in chain
            /\ \A x \in chain : place[x] = "live" /\ (parent[x] # NoSession => parent[x] \in chain)
      BY <2>4 DEF Opens
    <3>3. c \notin chain
      BY <2>1, <3>2
    <3>4. /\ chain \union {c} \in SUBSET Session
          /\ \A x \in chain \union {c} :
                place'[x] = "live" /\ (parent'[x] # NoSession => parent'[x] \in chain \union {c})
      BY <2>2, <3>1, <3>2, <3>3
    <3> QED BY <3>4 DEF Opens
  <2>6. UsedKept' /\ OnMinted' /\ Openable'
    <3>1. UsedKept'
      <4>1. ASSUME NEW x \in Session
            PROVE  /\ used[x] => place'[x] \in {"live", "trash"}
                   /\ parent'[x] # NoSession => used[parent'[x]]
                   /\ place'[x] = "none" => parent'[x] = NoSession
        <5>1. CASE x = c
          BY <1>0, <2>2, <5>1
        <5>2. CASE x # c
          BY <2>2, <5>2 DEF StoreInv, UsedKept
        <5> QED BY <5>1, <5>2
      <4> QED BY <1>0, <4>1 DEF UsedKept
    <3>2. OnMinted'
      BY <1>0, <2>1, <2>2 DEF StoreInv, OnMinted
    <3>3. Openable'
      BY <1>0, <2>2, <2>3, <2>5 DEF StoreInv, Openable
    <3> QED BY <3>1, <3>2, <3>3
  <2>7. HandlesOpen'
    BY <1>0, <2>2, <2>3, <2>5 DEF StoreInv, TypeOK, HandlesOpen, OnMinted
  <2>8. \A g \in Host : c \notin writes[g]
    BY <2>1, OpensLive DEF StoreInv, HandlesOpen
  <2>9. WritersApart'
    BY <1>0, <2>1, <2>2, <2>8 DEF StoreInv, TypeOK, WritersApart, Writers, OnMinted
  <2> QED BY <1>1, <1>2, <2>6, <2>7, <2>9 DEF StoreInv
<1> QED BY <1>3, <1>4 DEF ForkPublish

\* A session that leaves the store takes nothing with it when no live session
\* names it as its parent and no handle is open on it.
LEMMA LossStep ==
    ASSUME StoreInv, TypeOK', NEW h \in Host, NEW d \in Session,
           \A x \in Session : place[x] = "live" => parent[x] # d,
           \A g \in Host : d \notin writes[g],
           \A g \in Host : op[g].on = d => op[g].stage \notin {"fork", "forking"},
           place'[d] \in {"trash", "gone"}, used[d] => place'[d] = "trash",
           \A x \in Session : x # d => place'[x] = place[x],
           UNCHANGED <<parent, used, unverified, writes>>,
           place[d] = "live", op'[h] = Idle, \A g \in Host : g # h => op'[g] = op[g],
           \A g \in Host : op'[g].stage \in {"forking", "delete", "restore"} => lineage' = g
    PROVE  StoreInv'
<1> USE StoreAssumption DEF Idle
<1>1. ASSUME NEW x \in Session, Opens(x), x # d PROVE Opens(x)'
  <2>1. \A y \in Session : (place[y] = "live" /\ y \notin {d}) =>
            place'[y] = "live" /\ parent'[y] = parent[y] /\ parent[y] \notin {d}
    OBVIOUS
  <2>2. {d} \in SUBSET Session /\ x \notin {d}
    BY <1>1
  <2> QED BY <1>1, <2>1, <2>2, OpensStays
<1>2. UsedKept' /\ LockHeld' /\ OnMinted'
  BY DEF StoreInv, UsedKept, LockHeld, OnMinted
<1>3. Openable'
  BY <1>1 DEF StoreInv, Openable
<1>4. ScanHolds'
  BY DEF StoreInv, ScanHolds, Children
<1>5. HandlesOpen'
  BY <1>1 DEF StoreInv, TypeOK, HandlesOpen, OnMinted
<1>6. WritersApart'
  BY DEF StoreInv, WritersApart, Writers
<1> QED BY <1>2, <1>3, <1>4, <1>5, <1>6 DEF StoreInv

\* Operations that end without moving anything.
LEMMA ReturnStep ==
    ASSUME StoreInv, TypeOK', NEW h \in Host,
           UNCHANGED <<place, parent, used, writes>>,
           \A s \in Session :
                (s \in unverified /\ s \notin unverified' /\ place[s] = "live") => Opens(s),
           unverified' \subseteq unverified,
           op'[h] = Idle, \A g \in Host : g # h => op'[g] = op[g],
           \A g \in Host : op'[g].stage \in {"forking", "delete", "restore"} => lineage' = g
    PROVE  StoreInv'
<1> USE StoreAssumption DEF Idle
<1>1. \A x \in Session : Opens(x)' <=> Opens(x)
  BY OpensSame
<1>2. UsedKept' /\ LockHeld' /\ OnMinted'
  BY DEF StoreInv, UsedKept, LockHeld, OnMinted
<1>3. Openable'
  BY <1>1 DEF StoreInv, Openable
<1>4. ScanHolds'
  BY DEF StoreInv, ScanHolds, Children
<1>5. HandlesOpen'
  BY <1>1 DEF StoreInv, TypeOK, HandlesOpen, OnMinted
<1>6. WritersApart'
  BY DEF StoreInv, WritersApart, Writers
<1> QED BY <1>2, <1>3, <1>4, <1>5, <1>6 DEF StoreInv

LEMMA DeleteStep ==
    ASSUME StoreInv, TypeOK', NEW h \in Host, DeleteMove(h)
    PROVE  StoreInv'
<1> USE StoreAssumption DEF Idle, Finish
<1> DEFINE d == op[h].on
<1>1. /\ d \in Session /\ lineage = h /\ Children(d) = {} /\ op'[h] = Idle
      /\ \A g \in Host : g # h => op'[g] = op[g]
      /\ \A g \in Host : op'[g].stage \notin {"forking", "delete", "restore"}
      /\ UNCHANGED <<parent, used, unverified, writes>>
  <2>1. op[h].stage = "delete" /\ d \in Session /\ lineage = h /\ Children(d) = {}
    BY DEF DeleteMove, StoreInv, LockHeld, ScanHolds, OnMinted
  <2>2. op'[h] = Idle /\ \A g \in Host : g # h => op'[g] = op[g]
    BY DEF DeleteMove, StoreInv, TypeOK
  <2>3. \A g \in Host : op'[g].stage \notin {"forking", "delete", "restore"}
    BY <2>1, <2>2 DEF StoreInv, LockHeld
  <2> QED BY <2>1, <2>2, <2>3 DEF DeleteMove
<1>2. CASE UNCHANGED place
  BY <1>1, <1>2, ReturnStep
<1>3. CASE Opens(d) /\ Readers(d) \union Writers(d) = {} /\ place' = [place EXCEPT ![d] = "trash"]
  <2>1. place[d] = "live" /\ place'[d] = "trash" /\ \A x \in Session : x # d => place'[x] = place[x]
    BY <1>1, <1>3, OpensLive DEF StoreInv, TypeOK
  <2>2. \A x \in Session : place[x] = "live" => parent[x] # d
    BY <1>1 DEF Children
  <2>3. \A g \in Host : d \notin writes[g]
    BY <1>3 DEF Writers
  <2>4. \A g \in Host : op[g].on = d => op[g].stage \notin {"fork", "forking"}
    BY <1>3 DEF Readers
  <2> QED BY <1>1, <2>1, <2>2, <2>3, <2>4, LossStep
<1> QED BY <1>2, <1>3 DEF DeleteMove

LEMMA DiscardStep ==
    ASSUME StoreInv, TypeOK', NEW h \in Host, DiscardRemove(h)
    PROVE  StoreInv'
<1> USE StoreAssumption DEF Idle, Finish
<1> DEFINE d == op[h].on
<1>1. /\ d \in Session /\ ~used[d] /\ op'[h] = Idle
      /\ \A g \in Host : g # h => op'[g] = op[g]
      /\ \A g \in Host : op'[g].stage \in {"forking", "delete", "restore"} => lineage' = g
      /\ UNCHANGED <<parent, used, unverified, writes>>
  BY DEF DiscardRemove, StoreInv, TypeOK, LockHeld, WritersApart, OnMinted
<1>2. CASE place[d] # "live"
  <2>1. place' = place
    BY <1>2 DEF DiscardRemove, StoreInv, TypeOK
  <2> QED BY <1>1, <2>1, ReturnStep
<1>3. CASE place[d] = "live"
  <2>1. place'[d] = "gone" /\ \A x \in Session : x # d => place'[x] = place[x]
    BY <1>1, <1>3 DEF DiscardRemove, StoreInv, TypeOK
  <2>2. \A x \in Session : place[x] = "live" => parent[x] # d
    BY <1>1 DEF StoreInv, UsedKept
  <2>3. \A g \in Host : d \notin writes[g]
    BY DEF DiscardRemove, StoreInv, WritersApart, Writers
  <2>4. \A g \in Host : op[g].on = d => op[g].stage \notin {"fork", "forking"}
    BY <1>1 DEF StoreInv, HandlesOpen
  <2> QED BY <1>1, <1>3, <2>1, <2>2, <2>3, <2>4, LossStep
<1> QED BY <1>2, <1>3

LEMMA RestoreMoveStep ==
    ASSUME StoreInv, TypeOK', NEW h \in Host, NEW s \in Session, RestoreMove(h, s)
    PROVE  StoreInv'
<1> USE StoreAssumption DEF Idle, Begin
<1>1. /\ place[s] = "trash" /\ place'[s] = "live" /\ \A x \in Session : x # s => place'[x] = place[x]
      /\ UNCHANGED <<parent, used, writes>> /\ unverified' = unverified \union {s}
      /\ op'[h] = [stage |-> "restore", on |-> s] /\ \A g \in Host : g # h => op'[g] = op[g]
      /\ lineage = NoHost /\ lineage' = h
  BY DEF RestoreMove, StoreInv, TypeOK
<1>2. ASSUME NEW x \in Session, Opens(x) PROVE Opens(x)'
  <2>1. \A y \in Session : place[y] = "live" => place'[y] = "live" /\ parent'[y] = parent[y]
    BY <1>1
  <2> QED BY <1>2, <2>1, OpensGrows
<1>3. \A g \in Host : op[g].stage \notin {"forking", "delete", "restore"}
  BY <1>1 DEF StoreInv, LockHeld
<1>4. UsedKept' /\ LockHeld' /\ OnMinted' /\ ScanHolds'
  BY <1>1, <1>3 DEF StoreInv, UsedKept, LockHeld, OnMinted, ScanHolds
<1>5. Openable'
  BY <1>1, <1>2 DEF StoreInv, Openable
<1>6. HandlesOpen'
  <2>1. ASSUME NEW g \in Host, NEW x \in writes'[g] PROVE Opens(x)'
    BY <1>1, <1>2 DEF StoreInv, TypeOK, HandlesOpen
  <2>2. ASSUME NEW g \in Host, op'[g].stage \in {"fork", "forking"}
        PROVE  Opens(op[g].on)' /\ used'[op'[g].on]
    <3>1. op'[g] = op[g]
      BY <1>1, <2>2
    <3>2. op[g].on \in Session /\ Opens(op[g].on) /\ used[op[g].on]
      BY <2>2, <3>1 DEF StoreInv, HandlesOpen, OnMinted
    <3>3. PICK x \in Session : x = op[g].on
      BY <3>2
    <3>4. Opens(x)'
      BY <1>2, <3>2, <3>3
    <3> QED BY <1>1, <3>1, <3>2, <3>3, <3>4
  <2> QED BY <2>1, <2>2 DEF HandlesOpen
<1>7. WritersApart'
  BY <1>1 DEF StoreInv, WritersApart, Writers
<1> QED BY <1>4, <1>5, <1>6, <1>7 DEF StoreInv

LEMMA RestoreCheckStep ==
    ASSUME StoreInv, ~SyncFails, TypeOK', NEW h \in Host, RestoreCheck(h)
    PROVE  StoreInv'
<1> USE StoreAssumption DEF Idle, Finish
<1> DEFINE r == op[h].on
<1>1. /\ r \in Session /\ lineage = h /\ op'[h] = Idle
      /\ \A g \in Host : g # h => op'[g] = op[g]
      /\ \A g \in Host : op'[g].stage \notin {"forking", "delete", "restore"}
      /\ UNCHANGED <<parent, used, writes>> /\ unverified' = unverified \ {r}
  BY DEF RestoreCheck, StoreInv, TypeOK, LockHeld, OnMinted
<1>2. CASE Opens(r)
  <2>1. UNCHANGED place
    BY <1>2 DEF RestoreCheck
  <2> QED BY <1>1, <1>2, <2>1, ReturnStep
<1>3. CASE ~Opens(r)
  <2>1. /\ place'[r] # "live" /\ place'[r] # "none" /\ (used[r] => place'[r] = "trash")
        /\ \A x \in Session : x # r => place'[x] = place[x]
    BY <1>1, <1>3 DEF RestoreCheck, StoreInv, TypeOK, Place, UsedKept, OnMinted
  <2>2. ASSUME NEW x \in Session, Opens(x) PROVE Opens(x)'
    BY <1>1, <1>3, <2>1, <2>2, OpensWithout
  <2>3. UsedKept' /\ LockHeld' /\ OnMinted' /\ ScanHolds'
    BY <1>1, <2>1 DEF StoreInv, UsedKept, LockHeld, OnMinted, ScanHolds
  <2>4. Openable'
    BY <1>1, <2>1, <2>2 DEF StoreInv, Openable
  <2>5. HandlesOpen'
    BY <1>1, <2>2 DEF StoreInv, TypeOK, HandlesOpen, OnMinted
  <2>6. WritersApart'
    BY <1>1 DEF StoreInv, WritersApart, Writers
  <2> QED BY <2>3, <2>4, <2>5, <2>6 DEF StoreInv
<1> QED BY <1>2, <1>3

LEMMA StoreInit == Init => StoreInv
<1> SUFFICES ASSUME Init PROVE StoreInv
  OBVIOUS
<1> USE StoreAssumption DEF Init, Idle
<1>1. TypeOK
  BY DEF TypeOK, Place, Stage
<1>2. UsedKept /\ LockHeld /\ ScanHolds /\ HandlesOpen /\ Openable /\ WritersApart /\ OnMinted
  BY DEF UsedKept, LockHeld, ScanHolds, HandlesOpen, Openable, WritersApart, OnMinted
<1> QED BY <1>1, <1>2 DEF StoreInv

LEMMA StoreStutter ==
    ASSUME StoreInv, UNCHANGED vars
    PROVE  StoreInv'
<1>1. \A x \in Session : Opens(x)' <=> Opens(x)
  BY OpensSame DEF vars
<1>2. TypeOK' /\ UsedKept' /\ LockHeld' /\ ScanHolds' /\ WritersApart' /\ OnMinted'
  BY DEF vars, StoreInv, TypeOK, UsedKept, LockHeld, ScanHolds, Children, WritersApart, Writers,
         OnMinted
<1>3. HandlesOpen' /\ Openable'
  BY <1>1, StoreAssumption DEF vars, StoreInv, TypeOK, HandlesOpen, Openable, OnMinted, Idle
<1> QED BY <1>2, <1>3 DEF StoreInv

LEMMA StoreStep ==
    ASSUME StoreInv, ~ForkUnused, ~SyncFails, [Next /\ ~Intruding]_vars
    PROVE  StoreInv'
<1>1. CASE UNCHANGED vars
  BY <1>1, StoreStutter
<1>2. CASE Next /\ ~Intruding
  <2>1. TypeOK'
    BY <1>2, TypeStep DEF StoreInv
  <2>2. PICK h \in Host : HostStep(h)
    BY <1>2 DEF Next
  <2>3. CASE \E s \in Session : Create(h, s)
    BY <2>1, <2>3, CreateStep
  <2>4. CASE \E s \in Session : Resume(h, s) \/ Use(h, s) \/ Close(h, s)
    BY <1>2, <2>1, <2>4, HandleStep
  <2>5. CASE \/ \E s \in Session : ForkOpen(h, s) \/ DeleteScan(h, s) \/ ArchiveOpen(h, s)
             \/ ForkLock(h) \/ ArchiveMark(h) \/ Exit(h) \/ DiscardCheck(h) \/ Crash(h)
    BY <1>2, <2>1, <2>5, StageStep
  <2>6. CASE \E s \in Session : RestoreMove(h, s)
    BY <2>1, <2>6, RestoreMoveStep
  <2>7. CASE ForkPublish(h)
    BY <2>1, <2>7, ForkStep
  <2>8. CASE DeleteMove(h)
    BY <2>1, <2>8, DeleteStep
  <2>9. CASE RestoreCheck(h)
    BY <2>1, <2>9, RestoreCheckStep
  <2>10. CASE DiscardRemove(h)
    BY <2>1, <2>10, DiscardStep
  <2> QED
    BY <2>2, <2>3, <2>4, <2>5, <2>6, <2>7, <2>8, <2>9, <2>10 DEF HostStep
<1> QED BY <1>1, <1>2

\* Under the quiet discipline the store stays in the inductive invariant,
\* whatever creates, forks, deletes, restores, discards and crashes interleave.
THEOREM StoreInvariant ==
    ASSUME ~ForkUnused, ~SyncFails
    PROVE  QuietSpec => []StoreInv
<1>1. Init => StoreInv
  BY StoreInit
<1>2. StoreInv /\ [Next /\ ~Intruding]_vars => StoreInv'
  BY StoreStep
<1> QED BY <1>1, <1>2, PTL DEF QuietSpec

\* Every variable keeps its type: places, parents, locks and the stage of
\* each host's operation (session.rs Session, query.rs delete and restore).
THEOREM StoreTypeCorrect ==
    ASSUME ~ForkUnused, ~SyncFails
    PROVE  QuietSpec => []TypeOK
<1>1. StoreInv => TypeOK
  BY DEF StoreInv
<1> QED BY <1>1, StoreInvariant, PTL

\* No live session loses its parent (query.rs delete and restore_deleted,
\* session.rs fork_with_metadata), for any number of hosts and sessions.
THEOREM LineageSafe ==
    ASSUME ~ForkUnused, ~SyncFails
    PROVE  QuietSpec => []LineageIntact
<1>1. StoreInv => LineageIntact
  BY OpensLive DEF StoreInv, Openable, LineageIntact
<1> QED BY <1>1, StoreInvariant, PTL

\* A session some host has open for writing keeps its directory in the store.
THEOREM OpenFilesSafe ==
    ASSUME ~ForkUnused, ~SyncFails
    PROVE  QuietSpec => []OpenFileStays
<1>1. StoreInv => OpenFileStays
  BY OpensLive DEF StoreInv, TypeOK, HandlesOpen, OpenFileStays
<1> QED BY <1>1, StoreInvariant, PTL

\* Every ancestor of a deleted session is still in the store or in the trash.
THEOREM TrashSafe ==
    ASSUME ~ForkUnused, ~SyncFails
    PROVE  QuietSpec => []TrashRestorable
<1>1. StoreInv => TrashRestorable
  BY DEF StoreInv, TypeOK, UsedKept, TrashRestorable
<1> QED BY <1>1, StoreInvariant, PTL

=============================================================================
