-------------------------- MODULE AutoRunner_proofs --------------------------
(* Theorems about the auto runner: what is proved of PipelineQueue holds     *)
(* under it, too; the guard is never left behind, the auto_drain lease only  *)
(* by a release that raised; and the guard makes the drains and repair jobs  *)
(* of each process take turns.                                               *)
EXTENDS AutoRunner, PipelineQueue_proofs

(* The death of threads is a crash of their drain, the end of their repair   *)
(* job, or nothing to the queue.                                             *)
LEMMA DeathIsAllowed ==
  ASSUME NEW T, T \subseteq Drains, QueueDies(T)
  PROVE  [Next]_vars
<1>1. CASE \E d \in T : Crash(d)
  BY <1>1 DEF Next
<1>2. CASE \E h \in T \cap Healers : HealStops(h)
  BY <1>2 DEF Next, HealStep
<1>3. CASE UNCHANGED queue
  BY <1>3 DEF queue
<1> QED
  BY <1>1, <1>2, <1>3 DEF QueueDies

(* What drain_pending_queue_if_needed does to the queue, a drain or a repair *)
(* job may do.                                                               *)
LEMMA RunnerIsAllowed ==
  ASSUME NEW t \in Runners, Runner(t) \/ Kick(t) \/ CallRaises(t)
  PROVE  [Next]_vars
<1>1. CASE Heal(t)
  <2>1. HealStep(t)
    BY <1>1 DEF Heal, HealStep
  <2> QED
    BY <2>1, RunnerAssumption DEF Next
<1>2. CASE BeginDrain(t)
  BY <1>2, RunnerAssumption DEF BeginDrain, Next
<1>3. CASE ~Heal(t) /\ ~BeginDrain(t)
  BY <1>3 DEF Runner, Kick, FindPending, FindProcessing, YieldToCycle, NoCycleSeen, TakeGuard,
     TakeLock, LockElsewhere, EndDrain, Unlock, Unguard, CallRaises, queue
<1> QED
  BY <1>1, <1>2, <1>3

(* So is what run_news_cycle does.                                           *)
LEMMA CycleIsAllowed ==
  ASSUME NEW c \in Cycles, CycleStep(c) \/ CycleDies(c)
  PROVE  [Next]_vars
<1>1. CASE CycleDrain(c)
  BY <1>1, RunnerAssumption DEF CycleDrain, Next
<1>2. CASE CycleDies(c)
  BY <1>2, DeathIsAllowed, RunnerAssumption DEF CycleDies
<1>3. CASE ClearAuto(c) \/ TakeCycle(c) \/ CycleEnds(c)
  BY <1>3 DEF ClearAuto, TakeCycle, CycleEnds, queue
<1> QED
  BY <1>1, <1>2, <1>3 DEF CycleStep

(* The auto runner drives the queue by the queue's own actions.              *)
LEMMA KeepsQueue == AutoSpec => Spec
<1>1. AutoInit => Init
  BY DEF AutoInit
<1>2. [AutoNext]_avars => [Next]_vars
  <2> SUFFICES ASSUME [AutoNext]_avars PROVE [Next]_vars
    OBVIOUS
  <2>1. CASE Boot \/ TimesOut \/ Clear \/ Lapse \/ UNCHANGED avars
    BY <2>1 DEF Boot, TimesOut, Clear, Lapse, avars, queue
  <2>2. CASE QueueStep
    BY <2>2 DEF QueueStep, RunWorker, RunDrain, Next
  <2>3. ASSUME NEW p \in Procs, ProcessDies(p) PROVE [Next]_vars
    BY <2>3, DeathIsAllowed, RunnerAssumption DEF ProcessDies, Of
  <2> QED
    BY <2>1, <2>2, <2>3, RunnerIsAllowed, CycleIsAllowed DEF AutoNext
<1> QED
  BY <1>1, <1>2, PTL DEF AutoSpec, Spec

(* Hence a row that says done has had its output stored under the auto       *)
(* runner and run_news_cycle, too.                                           *)
THEOREM RunnerDoneHasOutput == AutoSpec => []DoneHasOutput
  BY KeepsQueue, DoneHasOutputAlways

(* And no drain of the loop, of a kick or of a cycle overshoots a batch or   *)
(* max_articles by a full pool.                                              *)
THEOREM RunnerBatchOvershoot == AutoSpec => []BatchOvershoot
  BY KeepsQueue, BatchOvershootAlways

----------------------------------------------------------------------------
(* The guard and the lease are read off the program counters: the three      *)
(* facts together are inductive.                                             *)
Leases == [live : BOOLEAN, holder : Runners \cup Cycles \cup {"nobody", "dead"}]
Places == {"boot", "pause", "clear", "off", "count", "countBusy", "yield", "guard"} \cup Guarded
RunnerInv ==
  /\ apc \in [Runners -> Places] /\ auto \in Leases
  /\ GuardExact /\ LeaseNotForgotten

(* A thread that stays on its side of the guard leaves the guard exact.      *)
LEMMA GuardStays ==
  ASSUME RunnerInv, NEW t \in Runners, NEW l \in Places, To(t, l), guard' = guard,
         apc[t] \in Guarded <=> l \in Guarded
  PROVE  apc' \in [Runners -> Places] /\ GuardExact'
<1>1. apc' \in [Runners -> Places] /\ Inside' = Inside
  BY DEF RunnerInv, To, Inside
<1> QED
  BY <1>1 DEF RunnerInv, GuardExact

(* A thread that does not leave its drain does not forget the lease.         *)
LEMMA LeaseStays ==
  ASSUME RunnerInv, NEW t \in Runners, NEW l \in Places, To(t, l), auto' = auto,
         unreleased' = unreleased, apc[t] \in Draining => l \in Draining
  PROVE  auto' \in Leases /\ LeaseNotForgotten'
  BY DEF RunnerInv, To, LeaseNotForgotten, Leases

(* A step of drain_pending_queue_if_needed keeps the invariant.              *)
LEMMA RunnerKeeps ==
  ASSUME RunnerInv, NEW t \in Runners, Runner(t)
  PROVE  RunnerInv'
<1> USE DEF Places, Guarded, Draining
<1>1. CASE \/ FindPending(t) \/ FindProcessing(t) \/ YieldToCycle(t) \/ NoCycleSeen(t)
           \/ LockElsewhere(t) \/ EndDrain(t) \/ BeginDrain(t)
  <2>1. PICK l \in Places : /\ To(t, l) /\ guard' = guard /\ auto' = auto
                            /\ unreleased' = unreleased
                            /\ apc[t] \in Guarded <=> l \in Guarded
                            /\ apc[t] \in Draining => l \in Draining
    BY <1>1 DEF FindPending, FindProcessing, YieldToCycle, NoCycleSeen, LockElsewhere,
       EndDrain, BeginDrain, Back, past
  <2> QED
    BY <2>1, GuardStays, LeaseStays DEF RunnerInv
<1>2. CASE TakeGuard(t)
  <2>1. auto' \in Leases /\ LeaseNotForgotten'
    BY <1>2, LeaseStays DEF TakeGuard, Back, past
  <2>2. CASE Proc(t) \in guard
    BY <1>2, <2>1, <2>2, GuardStays DEF TakeGuard, Back, RunnerInv
  <2>3. CASE Proc(t) \notin guard
    <3>1. apc' = [apc EXCEPT ![t] = "lock"] /\ guard' = guard \cup {Proc(t)}
      BY <1>2, <2>3 DEF TakeGuard, To
    <3>2. apc' \in [Runners -> Places] /\ Inside' = Inside \cup {t}
      BY <3>1 DEF RunnerInv, Inside
    <3>3. \A u \in Inside : Proc(u) # Proc(t)
      BY <2>3 DEF RunnerInv, GuardExact
    <3>4. GuardExact'
      BY <3>1, <3>2, <3>3 DEF RunnerInv, GuardExact, Proc
    <3> QED
      BY <2>1, <3>2, <3>4 DEF RunnerInv
  <2> QED
    BY <2>2, <2>3
<1>3. CASE TakeLock(t)
  <2>1. apc' \in [Runners -> Places] /\ GuardExact'
    BY <1>3, GuardStays DEF TakeLock
  <2>2. auto' \in Leases /\ LeaseNotForgotten'
    BY <1>3 DEF TakeLock, LeaseOf, Leases, LeaseNotForgotten, To, RunnerInv
  <2> QED
    BY <2>1, <2>2 DEF RunnerInv
<1>4. CASE Heal(t)
  <2>1. CASE UNCHANGED apc
    BY <1>4, <2>1 DEF Heal, RunnerInv, GuardExact, Inside, LeaseNotForgotten, past
  <2>2. CASE apc[t] = "heal" /\ To(t, "healing")
    BY <1>4, <2>2, GuardStays, LeaseStays DEF Heal, RunnerInv, past
  <2> QED
    BY <1>4, <2>1, <2>2 DEF Heal
<1>5. CASE Unlock(t)
  <2>1. apc' \in [Runners -> Places] /\ GuardExact'
    BY <1>5, GuardStays DEF Unlock
  <2>2. auto' \in Leases /\ LeaseNotForgotten'
    BY <1>5 DEF Unlock, LeaseEnded, Leases, LeaseNotForgotten, To, RunnerInv, past
  <2> QED
    BY <2>1, <2>2 DEF RunnerInv
<1>6. CASE Unguard(t)
  <2>1. auto' \in Leases /\ LeaseNotForgotten'
    BY <1>6, LeaseStays DEF Unguard, Back, past
  <2>2. apc' = [apc EXCEPT ![t] = Back(t)] /\ guard' = guard \ {Proc(t)} /\ t \in Inside
    BY <1>6 DEF Unguard, To, Inside
  <2>3. apc' \in [Runners -> Places] /\ Inside' = Inside \ {t}
    BY <2>2 DEF RunnerInv, Inside, Back
  <2>4. GuardExact'
    BY <2>2, <2>3 DEF RunnerInv, GuardExact, Proc
  <2> QED
    BY <2>1, <2>3, <2>4 DEF RunnerInv
<1> QED
  BY <1>1, <1>2, <1>3, <1>4, <1>5, <1>6 DEF Runner

(* A call that raises leaves the guard by its finally clause; if it was the  *)
(* release, the lease stays, and the history says so.                        *)
LEMMA RaiseKeeps ==
  ASSUME RunnerInv, NEW t \in Runners, CallRaises(t)
  PROVE  RunnerInv'
<1> USE DEF Places, Guarded, Draining
<1>1. PICK l \in Places : To(t, l) /\ (apc[t] \in Guarded <=> l \in Guarded)
  BY DEF CallRaises, Back
<1>2. apc' \in [Runners -> Places] /\ GuardExact'
  BY <1>1, GuardStays DEF CallRaises
<1>3. auto' \in Leases /\ (auto' = auto \/ ~auto'.live)
  <2>1. auto' = auto \/ auto' = NoLease
    BY DEF CallRaises
  <2>2. NoLease \in Leases /\ ~NoLease.live
    BY DEF NoLease, Leases
  <2> QED
    BY <2>1, <2>2 DEF RunnerInv
<1>4. \A u \in Runners : apc[u] \in Draining \/ u \in unreleased
                          => apc'[u] \in Draining \/ u \in unreleased'
  BY DEF CallRaises, To, RunnerInv
<1> QED
  BY <1>2, <1>3, <1>4 DEF RunnerInv, LeaseNotForgotten

(* So do the loop's waits, kicks, cycles, time and deaths.                   *)
LEMMA RestKeeps ==
  ASSUME RunnerInv,
         \/ Boot \/ TimesOut \/ Clear \/ QueueStep \/ Lapse
         \/ \E t \in Runners : Kick(t)
         \/ \E c \in Cycles : CycleStep(c) \/ CycleDies(c)
         \/ \E p \in Procs : ProcessDies(p)
  PROVE  RunnerInv'
<1> USE DEF Places, Guarded, Draining
<1>1. CASE Boot \/ TimesOut \/ Clear
  <2>1. Loop \in Runners
    BY DEF Runners
  <2>2. PICK l \in Places : /\ To(Loop, l) /\ guard' = guard /\ auto' = auto
                            /\ unreleased' = unreleased
                            /\ apc[Loop] \notin Guarded /\ l \notin Guarded
    BY <1>1 DEF Boot, TimesOut, Clear, past
  <2> QED
    BY <2>1, <2>2, GuardStays, LeaseStays DEF RunnerInv
<1>2. ASSUME NEW t \in Runners, Kick(t) PROVE RunnerInv'
  BY <1>2, GuardStays, LeaseStays DEF Kick, RunnerInv, past
<1>3. CASE UNCHANGED <<apc, guard, unreleased>> /\ auto' \in Leases /\ (auto'.live => auto' = auto)
  BY <1>3 DEF RunnerInv, GuardExact, Inside, LeaseNotForgotten
<1>4. CASE QueueStep
  BY <1>3, <1>4 DEF QueueStep, RunWorker, RunDrain, Alone, RunnerInv, past
<1>5. CASE Lapse
  BY <1>3, <1>5 DEF Lapse, RunnerInv, Leases, past
<1>6. ASSUME NEW c \in Cycles, CycleStep(c) \/ CycleDies(c) PROVE RunnerInv'
  <2>1. UNCHANGED <<apc, guard, unreleased>>
    BY <1>6 DEF CycleStep, CycleDies, ClearAuto, TakeCycle, CycleDrain, CycleEnds, past
  <2>2. auto' = auto \/ auto' = NoLease
    BY <1>6 DEF CycleStep, CycleDies, ClearAuto, TakeCycle, CycleDrain, CycleEnds
  <2>3. NoLease \in Leases /\ ~NoLease.live
    BY DEF NoLease, Leases
  <2> QED
    BY <1>3, <2>1, <2>2, <2>3 DEF RunnerInv
<1>7. ASSUME NEW p \in Procs, ProcessDies(p) PROVE RunnerInv'
  <2>1. apc' \in [Runners -> Places]
    BY <1>7 DEF ProcessDies, RunnerInv
  <2>2. Inside' = {t \in Inside : Proc(t) # p}
    BY <1>7 DEF ProcessDies, RunnerInv, Inside, Of
  <2>3. guard' = guard \ {p}
    BY <1>7 DEF ProcessDies
  <2>4. GuardExact'
    BY <2>2, <2>3 DEF RunnerInv, GuardExact, Proc
  <2>5. auto' \in Leases
    BY <1>7 DEF ProcessDies, Orphan, RunnerInv, Leases
  <2>6. LeaseNotForgotten'
    <3>1. SUFFICES ASSUME auto'.live, auto'.holder \in Runners
                   PROVE  apc'[auto'.holder] \in Draining \/ auto'.holder \in unreleased'
      BY DEF LeaseNotForgotten
    <3>2. "dead" \notin Runners
      BY RunnerAssumption
    <3>3. auto' = auto /\ auto.holder \notin Of(p)
      BY <1>7, <3>1, <3>2 DEF ProcessDies, Orphan, RunnerInv, Leases
    <3> QED
      BY <1>7, <3>1, <3>3 DEF ProcessDies, RunnerInv, LeaseNotForgotten
  <2> QED
    BY <2>1, <2>4, <2>5, <2>6 DEF RunnerInv
<1> QED
  BY <1>1, <1>2, <1>4, <1>5, <1>6, <1>7

(* The invariant holds at the start and is kept.                             *)
LEMMA RunnerInvAlways == AutoSpec => []RunnerInv
<1>1. AutoInit => RunnerInv
  BY RunnerAssumption DEF AutoInit, RunnerInv, Places, Leases, NoLease, GuardExact, Inside,
     LeaseNotForgotten, Guarded, Draining
<1>2. RunnerInv /\ [AutoNext]_avars => RunnerInv'
  <2>1. RunnerInv /\ AutoNext => RunnerInv'
    BY RunnerKeeps, RaiseKeeps, RestKeeps DEF AutoNext
  <2>2. RunnerInv /\ UNCHANGED avars => RunnerInv'
    BY DEF avars, past, RunnerInv, GuardExact, Inside, LeaseNotForgotten
  <2> QED
    BY <2>1, <2>2
<1> QED
  BY <1>1, <1>2, PTL DEF AutoSpec

(* No two drains of one process overlap, and the guard is free whenever no   *)
(* thread is in its try block.                                               *)
THEOREM GuardExactAlways == AutoSpec => []GuardExact
<1>1. RunnerInv => GuardExact
  BY DEF RunnerInv
<1> QED
  BY <1>1, RunnerInvAlways, PTL

(* No path through a drain leaves its lease running, but for a release that  *)
(* raises, which the finally clause does not catch.                          *)
THEOREM LeaseNotForgottenAlways == AutoSpec => []LeaseNotForgotten
<1>1. RunnerInv => LeaseNotForgotten
  BY DEF RunnerInv
<1> QED
  BY <1>1, RunnerInvAlways, PTL

----------------------------------------------------------------------------
(* Type correctness of the runner: what RunnerInv does not already say.      *)
CyclePlaces == {"new", "take", "leased", "bare", "drainLeased", "drainBare", "ended"}
RunnerTyped ==
  /\ cpc \in [Cycles -> CyclePlaces] /\ wake \in BOOLEAN /\ cycle \in Leases
  /\ restarts \in 0..MaxRestarts /\ raises \in 0..MaxRaises /\ unreleased \subseteq Runners

(* What any step writes into the lease of a cycle is a lease.                *)
LEMMA LeaseValues ==
  ASSUME NEW l \in Leases, NEW x \in Runners \cup Cycles, NEW T
  PROVE  /\ {NoLease, LeaseOf(x), LeaseEnded(l, x), Orphan(l, T)} \subseteq Leases
         /\ [l EXCEPT !.live = FALSE] \in Leases
<1>1. NoLease \in Leases /\ LeaseOf(x) \in Leases
  BY DEF NoLease, LeaseOf, Leases
<1>2. [l EXCEPT !.live = FALSE] \in Leases
  BY DEF Leases
<1>3. Orphan(l, T) \in Leases
  BY DEF Orphan, Leases
<1> QED
  BY <1>1, <1>2, <1>3 DEF LeaseEnded

(* Threads of the runners change none of these but the cycle lease, which    *)
(* they delete when it looks abandoned, and the wake-up flag.                *)
LEMMA RunnerTypes ==
  ASSUME RunnerTyped,
         \/ Boot \/ TimesOut \/ Clear \/ QueueStep \/ Lapse
         \/ \E t \in Runners : Kick(t) \/ Runner(t) \/ CallRaises(t)
  PROVE  RunnerTyped'
<1>1. ASSUME NEW t \in Runners, Kick(t) PROVE RunnerTyped'
  BY <1>1 DEF Kick, RunnerTyped, past
<1>2. ASSUME NEW t \in Runners, Runner(t) PROVE RunnerTyped'
  <2>1. UNCHANGED <<cpc, wake, restarts, raises>> /\ unreleased' \subseteq unreleased
    BY <1>2 DEF Runner, FindPending, FindProcessing, YieldToCycle, NoCycleSeen, TakeGuard,
       TakeLock, LockElsewhere, Heal, BeginDrain, EndDrain, Unlock, Unguard, past
  <2>2. cycle' \in {cycle, NoLease}
    BY <1>2 DEF Runner, FindPending, FindProcessing, YieldToCycle, NoCycleSeen, TakeGuard,
       TakeLock, LockElsewhere, Heal, BeginDrain, EndDrain, Unlock, Unguard
  <2>3. NoLease \in Leases
    BY DEF NoLease, Leases
  <2> QED
    BY <2>1, <2>2, <2>3 DEF RunnerTyped
<1>3. CASE Lapse
  BY <1>3 DEF Lapse, RunnerTyped, Leases, past
<1>4. CASE Boot \/ TimesOut \/ Clear \/ QueueStep
  BY <1>4 DEF Boot, TimesOut, Clear, QueueStep, RunWorker, RunDrain, Alone, RunnerTyped, past
<1>5. ASSUME NEW t \in Runners, CallRaises(t) PROVE RunnerTyped'
  <2>1. /\ UNCHANGED <<cpc, wake, restarts>> /\ raises < MaxRaises /\ raises' = raises + 1
        /\ unreleased' \subseteq unreleased \cup {t} /\ cycle' \in {cycle, NoLease}
    BY <1>5 DEF CallRaises
  <2>2. NoLease \in Leases
    BY DEF NoLease, Leases
  <2> QED
    BY <2>1, <2>2, RunnerAssumption DEF RunnerTyped
<1> QED
  BY <1>1, <1>2, <1>3, <1>4, <1>5

(* Cycles and deaths keep their places and leases.                           *)
LEMMA CycleTypes ==
  ASSUME RunnerTyped,
         \/ \E c \in Cycles : CycleStep(c) \/ CycleDies(c)
         \/ \E p \in Procs : ProcessDies(p)
  PROVE  RunnerTyped'
<1>1. ASSUME NEW c \in Cycles, CycleStep(c) PROVE RunnerTyped'
  <2>1. UNCHANGED <<wake, past>> /\ \E l \in CyclePlaces : CycleTo(c, l)
    BY <1>1 DEF CycleStep, ClearAuto, TakeCycle, CycleDrain, CycleEnds, CyclePlaces
  <2>2. cycle' \in {cycle, LeaseOf(c), LeaseEnded(cycle, c)}
    BY <1>1 DEF CycleStep, ClearAuto, TakeCycle, CycleDrain, CycleEnds
  <2>3. cycle' \in Leases
    BY <2>2, LeaseValues DEF RunnerTyped
  <2> QED
    BY <2>1, <2>3 DEF RunnerTyped, CycleTo, past
<1>2. ASSUME NEW c \in Cycles, CycleDies(c) PROVE RunnerTyped'
  <2>1. /\ UNCHANGED wake /\ CycleTo(c, "ended") /\ restarts' = restarts + 1
        /\ restarts < MaxRestarts /\ UNCHANGED <<raises, unreleased>>
    BY <1>2 DEF CycleDies
  <2>2. cycle' \in Leases
    BY <1>2, LeaseValues DEF CycleDies, RunnerTyped
  <2> QED
    BY <2>1, <2>2, RunnerAssumption DEF RunnerTyped, CycleTo, CyclePlaces
<1>3. ASSUME NEW p \in Procs, ProcessDies(p) PROVE RunnerTyped'
  <2>1. /\ UNCHANGED <<cpc, cycle>> /\ wake' \in BOOLEAN
        /\ restarts' = restarts + 1 /\ restarts < MaxRestarts /\ raises' = raises
        /\ unreleased' \subseteq unreleased
    BY <1>3 DEF ProcessDies, RunnerTyped
  <2> QED
    BY <2>1, RunnerAssumption DEF RunnerTyped
<1> QED
  BY <1>1, <1>2, <1>3

(* Type correctness: places, leases, guard and flags keep their types.       *)
THEOREM AutoTypeCorrect == AutoSpec => []AutoTypeOK
<1>1. AutoInit => RunnerTyped
  <2>1. NoLease \in Leases /\ 0 \in 0..MaxRestarts /\ 0 \in 0..MaxRaises
    BY RunnerAssumption DEF NoLease, Leases
  <2> QED
    BY <2>1 DEF AutoInit, RunnerTyped, CyclePlaces
<1>2. RunnerTyped /\ [AutoNext]_avars => RunnerTyped'
  <2>1. RunnerTyped /\ AutoNext => RunnerTyped'
    BY RunnerTypes, CycleTypes DEF AutoNext
  <2>2. RunnerTyped /\ UNCHANGED avars => RunnerTyped'
    BY DEF avars, past, RunnerTyped
  <2> QED
    BY <2>1, <2>2
<1>3. RunnerInv /\ RunnerTyped => AutoTypeOK
  BY DEF RunnerInv, RunnerTyped, AutoTypeOK, Places, Leases, CyclePlaces, GuardExact, Inside,
     Procs
<1> QED
  BY RunnerInvAlways, <1>1, <1>2, <1>3, PTL DEF AutoSpec
----------------------------------------------------------------------------
(* Drains in turn.                                                           *)

(* A thread drains or repairs only at its place in the loop.                 *)
Placed == \A t \in Runners : /\ dpc[t] # "off" => apc[t] = "drain"
                             /\ hpc[t] # "idle" => apc[t] = "healing"

(* The queue's own variables have their types under the auto runner.         *)
LEMMA RunnerQueueTyped == AutoSpec => []TypeOK
  BY KeepsQueue, TypeCorrect

(* A queue step of one drain or repair job leaves the others' places alone.  *)
LEMMA OthersPlaces ==
  ASSUME TypeOK
  PROVE  /\ \A d \in Drains :
              StartDrain(d) \/ DrainStep(d) \/ Crash(d) =>
                hpc' = hpc /\ \A e \in Drains : e # d => dpc'[e] = dpc[e]
         /\ \A h \in Healers :
              HealStep(h) => dpc' = dpc /\ \A g \in Healers : g # h => hpc'[g] = hpc[g]
<1> USE DEF TypeOK, DrainType, HealType, heals, drains
<1>1. ASSUME NEW d \in Drains, StartDrain(d) \/ DrainStep(d) \/ Crash(d)
      PROVE  hpc' = hpc /\ \A e \in Drains : e # d => dpc'[e] = dpc[e]
  BY <1>1 DEF StartDrain, DrainStep, CountPending, CountProcessing, Sweep, Recount,
     RecountIdle, EndBatch, Crash, NextBatch, OpenBatch, GoTo
<1>2. ASSUME NEW h \in Healers, HealStep(h)
      PROVE  dpc' = dpc /\ \A g \in Healers : g # h => hpc'[g] = hpc[g]
  BY <1>2 DEF HealStep, HealLook, HealMark, HealSwallow, HealStops, HealStale, RequeueStale,
     FindTransient, RetryTransient, HealTo
<1> QED
  BY <1>1, <1>2

(* A thread begins to repair and to drain where it is supposed to, and goes  *)
(* on only when it is through.                                               *)
LEMMA RunnerPlaced ==
  ASSUME TypeOK, RunnerInv, Placed, NEW t \in Runners, Kick(t) \/ Runner(t) \/ CallRaises(t)
  PROVE  Placed'
<1> USE RunnerAssumption
<1>1. t \in Drains /\ t \in Healers /\ t \notin Cycles /\ Runners \subseteq Drains
  OBVIOUS
<1>2. \A u \in Runners : u # t => apc'[u] = apc[u]
  BY DEF Kick, Runner, FindPending, FindProcessing, YieldToCycle, NoCycleSeen, TakeGuard,
     TakeLock, LockElsewhere, Heal, BeginDrain, EndDrain, Unlock, Unguard, CallRaises, To,
     RunnerInv
<1>3. CASE Heal(t)
  <2>1. HealStep(t) /\ dpc' = dpc /\ dpc[t] = "off"
    BY <1>1, <1>3, OthersPlaces DEF Heal, HealStep, Placed
  <2>2. apc'[t] = "healing"
    BY <1>3 DEF Heal, To, RunnerInv
  <2> QED
    BY <1>1, <1>2, <2>1, <2>2, OthersPlaces DEF Placed
<1>4. CASE BeginDrain(t)
  <2>1. StartDrain(t) /\ hpc' = hpc /\ hpc[t] = "idle" /\ apc'[t] = "drain"
    BY <1>1, <1>4, OthersPlaces DEF BeginDrain, To, RunnerInv
  <2>2. \A e \in Drains : e # t => dpc'[e] = dpc[e]
    BY <1>1, <2>1, OthersPlaces
  <2> QED
    BY <1>1, <1>2, <2>1, <2>2 DEF Placed
<1>5. CASE ~Heal(t) /\ ~BeginDrain(t)
  <2>1. dpc' = dpc /\ hpc' = hpc /\ dpc[t] = "off" /\ hpc[t] = "idle"
    BY <1>5 DEF Kick, Runner, FindPending, FindProcessing, YieldToCycle, NoCycleSeen,
       TakeGuard, TakeLock, LockElsewhere, EndDrain, Unlock, Unguard, CallRaises, queue, vars,
       drains, heals, Placed
  <2> QED
    BY <1>2, <2>1 DEF Placed
<1> QED
  BY <1>3, <1>4, <1>5

(* A drain that steps has begun, and a process that dies takes the drain and *)
(* the repair job it had with it, which is one thread's.                     *)
LEMMA RestPlaced ==
  ASSUME TypeOK, RunnerInv, Placed,
         \/ Boot \/ TimesOut \/ Clear \/ QueueStep \/ Lapse
         \/ \E c \in Cycles : CycleStep(c) \/ CycleDies(c)
         \/ \E p \in Procs : ProcessDies(p)
  PROVE  Placed'
<1> USE RunnerAssumption
<1>1. CASE Boot \/ TimesOut \/ Clear
  <2>1. dpc' = dpc /\ hpc' = hpc /\ dpc[Loop] = "off" /\ hpc[Loop] = "idle" /\ Loop \in Runners
    BY <1>1 DEF Boot, TimesOut, Clear, queue, vars, drains, heals, Placed, Runners
  <2>2. \A u \in Runners : u # Loop => apc'[u] = apc[u]
    BY <1>1 DEF Boot, TimesOut, Clear, To, RunnerInv
  <2> QED
    BY <2>1, <2>2 DEF Placed
<1>2. CASE QueueStep
  <2>1. apc' = apc
    BY <1>2 DEF QueueStep, RunWorker, RunDrain, Alone
  <2>2. ASSUME NEW t \in Threads, RunWorker(t) PROVE Placed'
    BY <2>1, <2>2, WorkerBusy DEF RunWorker, Worker, CheckLimit, FindNothing, ClaimRow, Upsert,
       MarkDone, StageTransient, StageFails, StoreTransient, StoreFails, RetryLater, GiveUp,
       Raise, CountResult, heals, Placed
  <2>3. ASSUME NEW d \in Drains, RunDrain(d) PROVE Placed'
    <3>1. dpc[d] # "off" /\ DrainStep(d)
      BY <2>3 DEF RunDrain, DrainStep, CountPending, CountProcessing, Sweep, Recount,
         RecountIdle, EndBatch
    <3>2. d \in Runners => apc[d] = "drain"
      BY <3>1 DEF Placed
    <3> QED
      BY <2>1, <3>1, <3>2, OthersPlaces DEF Placed
  <2>4. ASSUME NEW a \in Articles, InsertRaw(a) \/ GrowStale(a) PROVE Placed'
    BY <2>1, <2>4 DEF InsertRaw, GrowStale, drains, heals, Placed
  <2> QED
    BY <1>2, <2>2, <2>3, <2>4 DEF QueueStep
<1>3. CASE Lapse
  BY <1>3 DEF Lapse, queue, vars, drains, heals, Placed
<1>4. ASSUME NEW c \in Cycles, CycleStep(c) \/ CycleDies(c) PROVE Placed'
  <2>1. apc' = apc
    BY <1>4 DEF CycleStep, ClearAuto, TakeCycle, CycleDrain, CycleEnds, CycleDies
  <2>2. UNCHANGED queue \/ StartDrain(c) \/ Crash(c)
    BY <1>4 DEF CycleStep, ClearAuto, TakeCycle, CycleDrain, CycleEnds, CycleDies, QueueDies
  <2>3. CASE UNCHANGED queue
    BY <2>1, <2>3 DEF queue, vars, drains, heals, Placed
  <2>4. CASE StartDrain(c) \/ Crash(c)
    <3>1. c \in Drains /\ c \notin Runners
      OBVIOUS
    <3>2. hpc' = hpc /\ \A e \in Drains : e # c => dpc'[e] = dpc[e]
      BY <2>4, <3>1, OthersPlaces
    <3> QED
      BY <2>1, <3>1, <3>2 DEF Placed
  <2> QED
    BY <2>2, <2>3, <2>4
<1>5. ASSUME NEW p \in Procs, ProcessDies(p) PROVE Placed'
  <2>1. QueueDies(Of(p)) /\ Of(p) \subseteq Runners
    BY <1>5 DEF ProcessDies, Of
  <2>2. \A t \in Runners : t \notin Of(p) => apc'[t] = apc[t]
    BY <1>5 DEF ProcessDies
  <2>3. \A t, u \in Of(p) : apc[t] \in Guarded /\ apc[u] \in Guarded => t = u
    BY DEF Of, RunnerInv, GuardExact, Inside
  <2>4. "drain" \in Guarded /\ "healing" \in Guarded
    BY DEF Guarded, Draining
  <2>5. CASE \E d \in Of(p) : Crash(d)
    <3>1. PICK d \in Of(p) : Crash(d)
      BY <2>5
    <3>2. apc[d] = "drain" /\ dpc'[d] = "off" /\ hpc' = hpc
      BY <2>1, <3>1 DEF Crash, Placed, heals, TypeOK, DrainType
    <3>3. \A t \in Of(p) : dpc'[t] = "off" /\ hpc'[t] = "idle"
      BY <2>1, <2>3, <2>4, <3>1, <3>2, OthersPlaces DEF Placed
    <3>4. \A e \in Drains : e \notin Of(p) => dpc'[e] = dpc[e]
      BY <2>1, <3>1, OthersPlaces
    <3> QED
      BY <2>1, <2>2, <3>2, <3>3, <3>4 DEF Placed
  <2>6. CASE \E h \in Of(p) \cap Healers : HealStops(h)
    <3>1. PICK h \in Of(p) : HealStops(h)
      BY <2>6
    <3>2. apc[h] = "healing" /\ hpc'[h] = "idle" /\ dpc' = dpc /\ HealStep(h)
      BY <2>1, <3>1 DEF HealStops, HealStep, HealTo, Placed, drains, TypeOK, HealType
    <3>3. \A t \in Of(p) : dpc'[t] = "off" /\ hpc'[t] = "idle"
      BY <2>1, <2>3, <2>4, <3>1, <3>2, OthersPlaces DEF Placed
    <3>4. \A g \in Healers : g \notin Of(p) => hpc'[g] = hpc[g]
      BY <2>1, <3>1, <3>2, OthersPlaces
    <3> QED
      BY <2>1, <2>2, <3>2, <3>3, <3>4 DEF Placed
  <2>7. CASE /\ \A d \in Of(p) : dpc[d] = "off" /\ (d \in Healers => hpc[d] = "idle")
             /\ UNCHANGED queue
    BY <2>1, <2>2, <2>7 DEF queue, vars, drains, heals, Placed
  <2> QED
    BY <2>1, <2>5, <2>6, <2>7 DEF QueueDies
<1> QED
  BY <1>1, <1>2, <1>3, <1>4, <1>5

(* So drains and repair jobs run at their places, from the start.            *)
LEMMA PlacedAlways == AutoSpec => []Placed
<1>1. AutoInit => Placed
  BY RunnerAssumption DEF AutoInit, Init, Placed
<1>2. TypeOK /\ RunnerInv /\ Placed /\ [AutoNext]_avars => Placed'
  <2>1. UNCHANGED avars /\ Placed => Placed'
    BY DEF avars, queue, vars, drains, heals, Placed
  <2> QED
    BY <2>1, RunnerPlaced, RestPlaced DEF AutoNext
<1> QED
  BY RunnerQueueTyped, RunnerInvAlways, <1>1, <1>2, PTL DEF AutoSpec

(* The guard orders what it is there for: the drains and repair jobs of the  *)
(* threads of one process take turns, the loop and the kicks of the API just *)
(* as the kick of a scraping command, whatever becomes of the leases,        *)
(* whichever calls raise, and however often the process is restarted, beside *)
(* any number of cycles and of other processes.                              *)
THEOREM GuardTurns == AutoSpec => []OneDrainEach
<1>1. RunnerInv /\ Placed => OneDrainEach
  <2> SUFFICES ASSUME RunnerInv, Placed PROVE OneDrainEach
    OBVIOUS
  <2>1. \A t, u \in Runners :
          Proc(t) = Proc(u) /\ apc[t] \in Guarded /\ apc[u] \in Guarded => t = u
    BY DEF RunnerInv, GuardExact, Inside
  <2>2. \A t \in Runners : Engaged(t) => apc[t] \in Guarded
    BY DEF Placed, Engaged, Guarded, Draining
  <2> QED
    BY <2>1, <2>2 DEF OneDrainEach
<1> QED
  BY RunnerInvAlways, PlacedAlways, <1>1, PTL
=============================================================================
