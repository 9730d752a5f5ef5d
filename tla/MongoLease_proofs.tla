-------------------------- MODULE MongoLease_proofs --------------------------
(* Theorems of MongoLease, for every lease, every deployment of owners and   *)
(* watchers over the containers, and any number of deaths and failing calls. *)
EXTENDS MongoLease, TLAPS

(* What an owner writes is a document.                                       *)
LEMMA MineIsDoc == ASSUME TypeOK, NEW o \in Callers PROVE Mine(o) \in Docs
<1>1. Tag(o) \in (Callers \cup {"namesake"}) \X Nat
  BY DEF Tag, TypeOK
<1> QED
  BY <1>1, LeaseAssumption DEF Mine, Docs

(* Every step keeps every variable in its type.                              *)
LEMMA TypeStep == TypeOK /\ [Next]_vars => TypeOK'
<1> SUFFICES ASSUME TypeOK, [Next]_vars PROVE TypeOK'
  OBVIOUS
<1>1. doc \in Docs /\ seen \in [Callers -> Docs] /\ NoDoc \in Docs
  BY DEF TypeOK, Docs, NoDoc, Unset
<1> USE LeaseAssumption DEF TypeOK, Goto, Callers
<1>2. CASE Tick
  BY <1>2 DEF Tick, Unset, Docs
<1>3. ASSUME NEW o \in Callers, Step(o) PROVE TypeOK'
  <2>1. CASE Begin(o) \/ FindFresh(o)
    BY <2>1 DEF Begin, FindFresh, AfterClear, ClearsFirst
  <2>2. CASE FindStale(o)
    BY <1>1, <2>2 DEF FindStale
  <2>3. CASE Erase(o)
    <3>1. doc' \in Docs /\ seen' \in [Callers -> Docs]
      BY <1>1, <2>3 DEF Erase, NoDoc, Unset, Docs
    <3> QED
      BY <2>3, <3>1 DEF Erase, AfterClear, Losers, Docs
  <2>4. CASE Update(o) \/ Insert(o)
    <3>1. doc' = doc \/ doc' = Mine(o)
      BY <2>4 DEF Update, Insert
    <3>2. doc' \in Docs
      BY <1>1, <3>1, MineIsDoc
    <3> QED
      BY <2>4, <3>2 DEF Update, Insert, Docs
  <2>5. CASE Release(o)
    <3>1. doc' \in Docs
      BY <1>1, <2>5 DEF Release, Docs
    <3>2. robbed' \subseteq Owners
      BY <2>5 DEF Release, Losers
    <3> QED
      BY <2>5, <3>1, <3>2 DEF Release, Docs
  <2>6. CASE Peek(o) \/ Go(o)
    BY <2>6 DEF Peek, Go
  <2> QED
    BY <1>3, <2>1, <2>2, <2>3, <2>4, <2>5, <2>6 DEF Step
<1>4. ASSUME NEW o \in Callers, CallRaises(o) \/ Crash(o) PROVE TypeOK'
  <2>1. seen' \in [Callers -> Docs]
    BY <1>1, <1>4 DEF CallRaises, Crash
  <2> QED
    BY <1>4, <2>1 DEF CallRaises, Crash, Docs
<1>5. CASE UNCHANGED vars
  BY <1>5 DEF vars
<1> QED
  BY <1>2, <1>3, <1>4, <1>5 DEF Next

(* The initial state is of type.                                             *)
LEMMA InitType == Init => TypeOK
<1> SUFFICES ASSUME Init PROVE TypeOK
  OBVIOUS
<1>1. NoDoc \in Docs /\ [NoDoc EXCEPT !.here = TRUE] \in Docs
  BY DEF NoDoc, Docs, Unset
<1>2. doc \in Docs /\ seen \in [Callers -> Docs]
  BY <1>1 DEF Init
<1>3. \A o \in Callers : pc[o] = "idle"
  BY DEF Init
<1> QED
  BY <1>2, <1>3, LeaseAssumption DEF Init, TypeOK, Callers

(* Type correctness, for every kind of lease.                                *)
THEOREM LeaseTypeCorrect == Spec => []TypeOK
  BY InitType, TypeStep, PTL DEF Spec

----------------------------------------------------------------------------
(* A punctual owner whose lease nobody ended has the document, unexpired and *)
(* in its name.                                                              *)
Own == \A p \in Punctual : pc[p] = "held" /\ p \notin robbed => Held /\ doc.holder = Tag(p)

(* Its claim on the document outlasts every step: who ends its lease robs it.*)
LEMMA OwnStep == TypeOK /\ Own /\ [Next]_vars => Own'
<1> SUFFICES ASSUME TypeOK, Own, [Next]_vars,
                    NEW p \in Punctual, pc'[p] = "held", p \notin robbed'
             PROVE  (Held /\ doc.holder = Tag(p))'
  BY DEF Own
<1> USE LeaseAssumption DEF TypeOK, Goto, Callers
<1>1. CASE Tick
  BY <1>1 DEF Tick, Own, Held, Tag, Unset, Docs
<1>2. ASSUME NEW o \in Callers, Step(o) PROVE (Held /\ doc.holder = Tag(p))'
  <2>1. CASE Begin(o) \/ FindStale(o) \/ FindFresh(o) \/ Peek(o) \/ Go(o)
    BY <2>1 DEF Begin, FindStale, FindFresh, Peek, Go, AfterClear, Own, Held, Tag
  <2>2. CASE Erase(o)
    <3>1. pc[p] = "held" /\ p \notin robbed /\ p \notin Losers({})
      BY <2>2 DEF Erase, AfterClear
    <3> QED
      BY <3>1 DEF Own, Losers
  <2>3. CASE Update(o) \/ Insert(o)
    <3>1. CASE p = o
      BY <2>3, <3>1 DEF Update, Insert, Mine, Held, Tag
    <3>2. CASE p # o
      <4>1. Held /\ doc.holder = Tag(p)
        BY <2>3, <3>2 DEF Update, Insert, Own
      <4>2. doc' = doc /\ pid' = pid
        BY <2>3, <4>1 DEF Update, Insert, Held
      <4> QED
        BY <4>1, <4>2 DEF Held, Tag
    <3> QED
      BY <3>1, <3>2
  <2>4. CASE Release(o)
    <3>1. p # o /\ pc[p] = "held" /\ p \notin robbed
      BY <2>4 DEF Release
    <3>2. Held /\ doc.holder = Tag(p)
      BY <3>1 DEF Own
    <3>3. doc.holder # Tag(o)
      BY <2>4, <3>1, <3>2 DEF Release, Losers, Held
    <3> QED
      BY <2>4, <3>2, <3>3 DEF Release, Held, Tag
  <2> QED
    BY <1>2, <2>1, <2>2, <2>3, <2>4 DEF Step
<1>3. ASSUME NEW o \in Callers, CallRaises(o) \/ Crash(o)
      PROVE  (Held /\ doc.holder = Tag(p))'
  BY <1>3 DEF CallRaises, Crash, Own, Held, Tag
<1>4. CASE UNCHANGED vars
  BY <1>4 DEF vars, Own, Held, Tag
<1> QED
  BY <1>1, <1>2, <1>3, <1>4 DEF Next

(* Nobody comes to hold the lease beside an owner that was not robbed.       *)
LEMMA ExclusionStep == TypeOK /\ Own /\ MutualExclusion /\ [Next]_vars => MutualExclusion'
<1> SUFFICES ASSUME TypeOK, Own, MutualExclusion, [Next]_vars,
                    NEW a \in Punctual, NEW b \in Punctual, a # b,
                    pc'[a] = "held", pc'[b] = "held", a \notin robbed', b \notin robbed'
             PROVE  FALSE
  BY DEF MutualExclusion
<1> USE LeaseAssumption DEF TypeOK, Goto, Callers
<1>1. CASE Tick \/ UNCHANGED vars
  BY <1>1 DEF Tick, vars, MutualExclusion
<1>2. ASSUME NEW o \in Callers, Step(o) PROVE FALSE
  <2>1. CASE Begin(o) \/ FindStale(o) \/ FindFresh(o) \/ Erase(o) \/ Peek(o) \/ Go(o) \/ Release(o)
    BY <2>1 DEF Begin, FindStale, FindFresh, Erase, Peek, Go, Release, AfterClear,
                MutualExclusion
  <2>2. CASE Update(o) \/ Insert(o)
    BY <2>2 DEF Update, Insert, MutualExclusion, Own, Held
  <2> QED
    BY <1>2, <2>1, <2>2 DEF Step
<1>3. ASSUME NEW o \in Callers, CallRaises(o) \/ Crash(o) PROVE FALSE
  BY <1>3 DEF CallRaises, Crash, MutualExclusion
<1> QED
  BY <1>1, <1>2, <1>3 DEF Next

(* Two punctual owners of one lease run at once only where a running lease   *)
(* was ended under one of them, whichever lease it is, who clears it and     *)
(* from which container; deaths, failing calls and late owners, expiry and   *)
(* the retried insert never do it.                                           *)
THEOREM LeaseExcludes == Spec => []MutualExclusion
<1>1. Init => Own /\ MutualExclusion
  BY LeaseAssumption DEF Init, Own, MutualExclusion, Callers
<1> QED
  BY <1>1, LeaseTypeCorrect, OwnStep, ExclusionStep, PTL DEF Spec

----------------------------------------------------------------------------
(* No document names a process that is yet to start.                         *)
Past(d) == \A p \in Owners \ Alike, n \in Nat : d.holder = <<p, n>> => n <= pid[p]

(* Who erases a document it read as running has judged processes that are    *)
(* gone, among those of its own host.                                        *)
Judged(o) ==
  pc[o] = "erase" /\ seen[o].left # 0 =>
    \A p \in Owners \ Alike, n \in Nat :
      SameHost(o, p) /\ seen[o].holder = <<p, n>> => n < pid[p]

Judgement == Past(doc) /\ \A o \in Callers : Past(seen[o]) /\ Judged(o)

(* Every step keeps these two facts about the documents read and written.    *)
LEMMA JudgementStep == TypeOK /\ Judgement /\ [Next]_vars => Judgement'
<1> SUFFICES ASSUME TypeOK, Judgement, [Next]_vars PROVE Judgement'
  OBVIOUS
<1> USE LeaseAssumption DEF TypeOK
<1>1. CASE Tick
  <2>1. doc'.holder = doc.holder
    BY <1>1 DEF Tick, Docs
  <2> QED
    BY <1>1, <2>1 DEF Tick, Judgement, Past, Judged
<1>2. ASSUME NEW o \in Callers, Step(o) PROVE Judgement'
  <2>1. CASE Begin(o) \/ FindFresh(o) \/ Peek(o) \/ Go(o)
    BY <2>1 DEF Begin, FindFresh, Peek, Go, Goto, AfterClear, Judgement, Past, Judged
  <2>2. CASE FindStale(o)
    <3>1. ASSUME NEW p \in Owners \ Alike, NEW n \in Nat, doc.left # 0,
                 SameHost(o, p), doc.holder = <<p, n>>
          PROVE  n < pid[p]
      <4>1. doc.holder # Tag(p) /\ Tag(p) = <<p, pid[p]>>
        BY <2>2, <3>1 DEF FindStale, MayLookDead, Known, Tag, Callers
      <4>2. n <= pid[p] /\ n # pid[p] /\ pid[p] \in Nat
        BY <3>1, <4>1 DEF Judgement, Past, Callers
      <4> QED
        BY <4>2
    <3> QED
      BY <2>2, <3>1 DEF FindStale, Goto, Judgement, Past, Judged
  <2>3. CASE Erase(o)
    <3>1. doc'.holder = <<>> /\ seen'[o].holder = <<>>
      BY <2>3 DEF Erase, NoDoc
    <3>2. \A p, n : <<>> # <<p, n>>
      OBVIOUS
    <3>3. Past(doc)' /\ Past(seen[o])'
      BY <3>1, <3>2 DEF Past
    <3>4. pid' = pid /\ pc'[o] # "erase" /\ \A q \in Callers \ {o} : seen'[q] = seen[q] /\ pc'[q] = pc[q]
      BY <2>3 DEF Erase, Goto, AfterClear
    <3> QED
      BY <3>3, <3>4 DEF Judgement, Past, Judged
  <2>4. CASE Update(o) \/ Insert(o)
    <3>1. doc' = doc \/ doc' = Mine(o)
      BY <2>4 DEF Update, Insert
    <3>2. Past(Mine(o))
      BY DEF Past, Mine, Tag, Callers
    <3>3. Past(doc)'
      BY <2>4, <3>1, <3>2 DEF Update, Insert, Judgement, Past
    <3> QED
      BY <2>4, <3>3 DEF Update, Insert, Goto, Judgement, Past, Judged
  <2>5. CASE Release(o)
    <3>1. doc'.holder = doc.holder
      BY <2>5 DEF Release, Docs
    <3> QED
      BY <2>5, <3>1 DEF Release, Goto, Judgement, Past, Judged
  <2> QED
    BY <1>2, <2>1, <2>2, <2>3, <2>4, <2>5 DEF Step
<1>3. ASSUME NEW o \in Callers, CallRaises(o) \/ Crash(o) PROVE Judgement'
  <2>1. \A p \in Callers : pid[p] \in Nat /\ pid'[p] \in Nat /\ pid[p] <= pid'[p]
    BY <1>3 DEF CallRaises, Crash
  <2>2. seen'[o].holder = <<>> /\ pc'[o] # "erase" /\ doc' = doc
    BY <1>3 DEF CallRaises, Crash, Goto, NoDoc
  <2>3. \A q \in Callers \ {o} : seen'[q] = seen[q] /\ pc'[q] = pc[q]
    BY <1>3 DEF CallRaises, Crash, Goto
  <2>4. Past(doc)'
    BY <2>1, <2>2 DEF Judgement, Past, Callers
  <2>5. ASSUME NEW q \in Callers PROVE Past(seen[q])' /\ Judged(q)'
    <3>1. CASE q = o
      BY <2>2, <3>1 DEF Past, Judged
    <3>2. CASE q # o
      <4>1. Past(seen[q]) /\ Judged(q) /\ seen'[q] = seen[q] /\ pc'[q] = pc[q]
        BY <2>3, <3>2 DEF Judgement
      <4>2. ASSUME NEW p \in Owners \ Alike, NEW n \in Nat, seen[q].holder = <<p, n>>
            PROVE  n <= pid'[p]
        BY <2>1, <4>1, <4>2 DEF Past, Callers
      <4>3. ASSUME pc[q] = "erase", seen[q].left # 0, NEW p \in Owners \ Alike, NEW n \in Nat,
                   SameHost(q, p), seen[q].holder = <<p, n>>
            PROVE  n < pid'[p]
        <5>1. n < pid[p]
          BY <4>1, <4>3 DEF Judged
        <5> QED
          BY <2>1, <5>1 DEF Callers
      <4> QED
        BY <4>1, <4>2, <4>3 DEF Past, Judged, SameHost
    <3> QED
      BY <3>1, <3>2
  <2> QED
    BY <2>4, <2>5 DEF Judgement
<1>4. CASE UNCHANGED vars
  BY <1>4 DEF vars, Judgement, Past, Judged
<1> QED
  BY <1>1, <1>2, <1>3, <1>4 DEF Next

(* A running lease is ended by time, by its holder's name, or by an erase    *)
(* that is excused: an owner that overran its lease does no harm to its      *)
(* successor, and on one host nobody judges a living owner dead.             *)
THEOREM LeaseRespectedAlways == Spec => LeaseRespected
<1> DEFINE Ends ==
      \/ doc' = doc
      \/ doc' = [doc EXCEPT !.left = @ - 1]
      \/ \E o \in Owners : /\ doc.holder = Tag(o) /\ pc[o] = "held"
                           /\ pc'[o] = "idle" /\ doc' = [doc EXCEPT !.left = 0]
      \/ \E o \in Callers : /\ pc[o] = "erase" /\ doc'.left = Unset
                            /\ \A p \in Owners : pc[p] = "held" /\ doc.holder = Tag(p)
                                                   => Excused(o, p)
<1>1. ASSUME Init PROVE Judgement
  <2>1. doc.holder = <<>> /\ \A o \in Callers : seen[o].holder = <<>> /\ pc[o] = "idle"
    BY <1>1 DEF Init, NoDoc
  <2>2. \A p, n : <<>> # <<p, n>>
    OBVIOUS
  <2> QED
    BY <2>1, <2>2 DEF Judgement, Past, Judged
<1>2. ASSUME TypeOK, Judgement, [Next]_vars, Held PROVE Ends
  <2>1. CASE Tick \/ UNCHANGED vars
    BY <2>1 DEF Tick, vars
  <2>2. ASSUME NEW o \in Callers, CallRaises(o) \/ Crash(o) \/ (Step(o) /\ ~Release(o) /\ ~Erase(o))
        PROVE  doc' = doc
    BY <1>2, <2>2 DEF Step, Begin, FindStale, FindFresh, Update, Insert, Peek, Go,
                      CallRaises, Crash, Held
  <2>3. ASSUME NEW o \in Callers, Release(o)
        PROVE  doc' = doc \/ /\ o \in Owners /\ doc.holder = Tag(o) /\ pc[o] = "held"
                             /\ pc'[o] = "idle" /\ doc' = [doc EXCEPT !.left = 0]
    BY <1>2, <2>3 DEF Release, TypeOK, Goto, Callers
  <2>4. ASSUME NEW o \in Callers, Erase(o) PROVE Ends
    <3>1. pc[o] = "erase" /\ doc'.left = Unset
      BY <2>4 DEF Erase, NoDoc
    <3>2. ASSUME NEW p \in Owners, pc[p] = "held", doc.holder = Tag(p), ~Excused(o, p)
          PROVE  FALSE
      <4>1. p \in Owners \ Alike /\ SameHost(o, p) /\ seen[o].left # 0 /\ seen[o].holder = <<p, pid[p]>>
        BY <3>2 DEF Excused, Tag
      <4>2. pid[p] \in Nat /\ Judged(o)
        BY <1>2 DEF Judgement, TypeOK, Callers
      <4> QED
        BY <3>1, <4>1, <4>2 DEF Judged
    <3> QED
      BY <3>1, <3>2
  <2> QED
    BY <1>2, <2>1, <2>2, <2>3, <2>4 DEF Next
<1>3. TypeOK /\ Judgement /\ [Next]_vars => [Held => Ends]_vars
  BY <1>2
<1> QED
  BY <1>1, <1>3, LeaseTypeCorrect, JudgementStep, PTL DEF Spec, LeaseRespected
=============================================================================
