----------------------------- MODULE AutoRunner -----------------------------
(* The auto runner on top of the queue: who starts the drains of             *)
(* PipelineQueue, and when.  The API process has a background loop and kick  *)
(* threads; a scraping command has a kick thread that dies with its process; *)
(* run_news_cycle drains under the pipeline_cycle lease.  The leases are one *)
(* step each here; MongoLease has their single database calls.  Source:      *)
(* news/pipeline/auto_runner.py and run_news_cycle.py.                       *)
EXTENDS PipelineQueue

CONSTANTS Loop,         \* the background loop thread of the API process
          ApiKicks,     \* kick threads of the API process
          CliKicks,     \* kick threads of scraping commands, a process each
          Cycles,       \* run_news_cycle processes, each runs once
          Foreign,      \* those that run in the other container
          MaxRestarts,  \* bound: processes that die
          MaxRaises     \* bound: calls of the runner's own that raise

Runners == {Loop} \cup ApiKicks \cup CliKicks

ASSUME RunnerAssumption ==
  /\ Drains = Runners \cup Cycles /\ Healers = Runners
  /\ Runners \cap Cycles = {} /\ Foreign \subseteq Drains
  /\ Loop \notin ApiKicks \cup CliKicks /\ ApiKicks \cap CliKicks = {}
  /\ {"api", "nobody", "dead"} \cap Drains = {}
  /\ MaxRestarts \in Nat /\ MaxRaises \in Nat

VARIABLES
  apc,      \* program counter of each drain_pending_queue_if_needed caller
  cpc,      \* program counter of each run_news_cycle
  guard,    \* processes whose _local_guard is taken
  wake,     \* _wake of the API process
  auto,     \* the auto_drain lease
  cycle,    \* the pipeline_cycle lease
  restarts, \* processes that died so far
  raises,   \* calls that raised so far
  unreleased \* history: threads whose last release of the lease raised

queue == vars
past  == <<restarts, raises, unreleased>>
avars == <<queue, apc, cpc, guard, wake, auto, cycle, past>>

Proc(t)  == IF t \in CliKicks THEN t ELSE "api"
Procs    == {Proc(t) : t \in Runners}
Of(p)    == {t \in Runners : Proc(t) = p}
Draining == {"heal", "healing", "drain", "unlock"}       \* the lease is taken
Guarded  == Draining \cup {"lock", "unguard"}            \* _local_guard is taken

NoLease     == [live |-> FALSE, holder |-> "nobody"]
LeaseOf(t)  == [live |-> TRUE, holder |-> t]
SameHost(t, u) == (t \in Foreign) <=> (u \in Foreign)
\* os.kill in t's container: a pid of the other one may or may not be in use there.
LooksDead(t, l) == l.holder = "dead" \/ (l.holder \in Drains /\ ~SameHost(t, l.holder))
\* Nobody's, over, or taken for abandoned: clear_stale_* and the update both go through.
Free(t, l) == ~l.live \/ LooksDead(t, l)
\* The document refuses: it runs, and its holder is not (or not always) seen as dead.
Refuses(l) == l.live
\* The filter on the holder: only the owner's own document is expired.
LeaseEnded(l, t) == IF l.holder = t THEN [l EXCEPT !.live = FALSE] ELSE l
Orphan(l, T)     == IF l.holder \in T THEN [l EXCEPT !.holder = "dead"] ELSE l

\* What a caller does after drain_pending_queue_if_needed: the loop waits, a kick ends.
Back(t)    == IF t = Loop THEN "pause" ELSE "off"
To(t, l)   == apc' = [apc EXCEPT ![t] = l]
CycleTo(c, l) == cpc' = [cpc EXCEPT ![c] = l]

AutoInit ==
  /\ Init
  /\ apc = [t \in Runners |-> IF t = Loop THEN "boot" ELSE "off"]
  /\ cpc = [c \in Cycles |-> "new"]
  /\ guard = {} /\ wake = FALSE
  /\ auto = NoLease /\ cycle = NoLease
  /\ restarts = 0 /\ raises = 0 /\ unreleased = {}

----------------------------------------------------------------------------
(* The background loop and the kicks.                                        *)

\* The first wait, on which _wake is not cleared.
Boot ==
  /\ apc[Loop] = "boot" /\ To(Loop, "count")
  /\ UNCHANGED <<queue, cpc, guard, wake, auto, cycle, past>>

\* _wake.wait(timeout) ends, by the timeout or by the event.
TimesOut ==
  /\ apc[Loop] = "pause" /\ To(Loop, "clear")
  /\ UNCHANGED <<queue, cpc, guard, wake, auto, cycle, past>>

Clear ==
  /\ apc[Loop] = "clear" /\ wake' = FALSE /\ To(Loop, "count")
  /\ UNCHANGED <<queue, cpc, guard, auto, cycle, past>>

\* schedule_immediate_drain, after a scrape or a requeue: _wake is of this process.
Kick(t) ==
  /\ t # Loop /\ apc[t] = "off" /\ To(t, "count")
  /\ wake' = (wake \/ t \in ApiKicks)
  /\ UNCHANGED <<queue, cpc, guard, auto, cycle, past>>

----------------------------------------------------------------------------
(* drain_pending_queue_if_needed.                                            *)

\* The two counts of pipeline_backlog_count are two calls.
FindPending(t) ==
  /\ apc[t] = "count"
  /\ To(t, IF With("pending") = {} THEN "countBusy" ELSE "yield")
  /\ UNCHANGED <<queue, cpc, guard, wake, auto, cycle, past>>

\* Mutant of FindProcessing: the backlog is the pending count alone.
PendingOnly(t) ==
  /\ apc[t] = "countBusy" /\ To(t, Back(t))
  /\ UNCHANGED <<queue, cpc, guard, wake, auto, cycle, past>>

FindProcessing(t) ==
  /\ apc[t] = "countBusy"
  /\ To(t, IF With("processing") = {} THEN Back(t) ELSE "yield")
  /\ UNCHANGED <<queue, cpc, guard, wake, auto, cycle, past>>

\* external_pipeline_cycle_active is True.
YieldToCycle(t) ==
  /\ apc[t] = "yield" /\ Refuses(cycle) /\ To(t, Back(t))
  /\ UNCHANGED <<queue, cpc, guard, wake, auto, cycle, past>>

\* It is False: an expired lease, or one that looks abandoned, is deleted on the way.
NoCycleSeen(t) ==
  /\ apc[t] = "yield" /\ Free(t, cycle)
  /\ cycle' = NoLease /\ To(t, "guard")
  /\ UNCHANGED <<queue, cpc, guard, wake, auto, past>>

\* Mutants of TakeGuard: the answer of acquire(blocking=False) is not looked at; every
\* thread has a guard of its own.
TakeGuardAny(t) ==
  /\ apc[t] = "guard" /\ guard' = guard \cup {Proc(t)} /\ To(t, "lock")
  /\ UNCHANGED <<queue, cpc, wake, auto, cycle, past>>

TakeGuardOwn(t) ==
  /\ apc[t] = "guard" /\ guard' = guard \cup {t} /\ To(t, "lock")
  /\ UNCHANGED <<queue, cpc, wake, auto, cycle, past>>

\* _local_guard.acquire(blocking=False).
TakeGuard(t) ==
  /\ apc[t] = "guard"
  /\ IF Proc(t) \in guard THEN To(t, Back(t)) /\ UNCHANGED guard
                          ELSE To(t, "lock") /\ guard' = guard \cup {Proc(t)}
  /\ UNCHANGED <<queue, cpc, wake, auto, cycle, past>>

TakeLock(t) ==
  /\ apc[t] = "lock" /\ Free(t, auto)
  /\ auto' = LeaseOf(t) /\ To(t, "heal")
  /\ unreleased' = unreleased \ {t}
  /\ UNCHANGED <<queue, cpc, guard, wake, cycle, restarts, raises>>

LockElsewhere(t) ==
  /\ apc[t] = "lock" /\ Refuses(auto) /\ To(t, "unguard")
  /\ UNCHANGED <<queue, cpc, guard, wake, auto, cycle, past>>

\* heal_stuck_raw_pipeline, whose exceptions are logged, and then run_until_empty.
Heal(t) ==
  /\ \/ apc[t] = "heal" /\ HealLook(t) /\ To(t, "healing")
     \/ apc[t] = "healing" /\ hpc[t] # "idle" /\ HealStep(t) /\ UNCHANGED apc
  /\ UNCHANGED <<cpc, guard, wake, auto, cycle, past>>

BeginDrain(t) ==
  /\ apc[t] = "healing" /\ hpc[t] = "idle"
  /\ StartDrain(t) /\ To(t, "drain")
  /\ UNCHANGED <<cpc, guard, wake, auto, cycle, past>>

\* Mutant of EndDrain: run_until_empty returns while its pool is at work.
EndDrainEarly(t) ==
  /\ apc[t] = "drain" /\ To(t, "unlock")
  /\ UNCHANGED <<queue, cpc, guard, wake, auto, cycle, past>>

\* run_until_empty has returned or raised.
EndDrain(t) ==
  /\ apc[t] = "drain" /\ dpc[t] = "off" /\ To(t, "unlock")
  /\ UNCHANGED <<queue, cpc, guard, wake, auto, cycle, past>>

\* Mutant of Unlock: the lease is left to run out.
UnlockNot(t) ==
  /\ apc[t] = "unlock" /\ To(t, "unguard")
  /\ UNCHANGED <<queue, cpc, guard, wake, auto, cycle, past>>

\* The two finally clauses: release_auto_lock, then _local_guard.release().
Unlock(t) ==
  /\ apc[t] = "unlock" /\ To(t, "unguard")
  /\ auto' = LeaseEnded(auto, t)
  /\ UNCHANGED <<queue, cpc, guard, wake, cycle, past>>

Unguard(t) ==
  /\ apc[t] = "unguard" /\ To(t, Back(t))
  /\ guard' = guard \ {Proc(t)}
  /\ UNCHANGED <<queue, cpc, wake, auto, cycle, past>>

\* A database call of the runner raises; a stale lease may be deleted by then.  The
\* exception passes the finally clauses it is in; the loop logs it, a kick thread ends.
CallRaises(t) ==
  /\ apc[t] \in {"count", "countBusy", "yield", "lock", "unlock"}
  /\ raises < MaxRaises /\ raises' = raises + 1
  /\ To(t, IF apc[t] \in {"lock", "unlock"} THEN "unguard" ELSE Back(t))
  /\ auto' = auto \/ (apc[t] = "lock" /\ Free(t, auto) /\ auto' = NoLease)
  /\ cycle' = cycle \/ (apc[t] = "yield" /\ Free(t, cycle) /\ cycle' = NoLease)
  /\ unreleased' = IF apc[t] = "unlock" THEN unreleased \cup {t} ELSE unreleased
  /\ UNCHANGED <<queue, cpc, guard, wake, restarts>>

Runner(t) ==
  \/ FindPending(t) \/ FindProcessing(t) \/ YieldToCycle(t) \/ NoCycleSeen(t)
  \/ TakeGuard(t) \/ TakeLock(t) \/ LockElsewhere(t) \/ Heal(t) \/ BeginDrain(t)
  \/ EndDrain(t) \/ Unlock(t) \/ Unguard(t)

----------------------------------------------------------------------------
(* run_news_cycle: it takes the pipeline_cycle lease if it can, and goes on  *)
(* without it if it cannot; it never looks at the guard or the auto lease.   *)

\* try_acquire_pipeline_cycle_lock first drops a stale auto_drain lease.
ClearAuto(c) ==
  /\ cpc[c] = "new" /\ CycleTo(c, "take")
  /\ auto' \in (IF Free(c, auto) THEN {NoLease} ELSE {}) \cup (IF Refuses(auto) THEN {auto} ELSE {})
  /\ UNCHANGED <<queue, apc, guard, wake, cycle, past>>

TakeCycle(c) ==
  /\ cpc[c] = "take"
  /\ IF cycle.live THEN CycleTo(c, "bare") /\ UNCHANGED cycle
                   ELSE CycleTo(c, "leased") /\ cycle' = LeaseOf(c)
  /\ UNCHANGED <<queue, apc, guard, wake, auto, past>>

\* The scrape phase is over (InsertRaw); run_ai_pipeline --all drains the queue.
CycleDrain(c) ==
  /\ cpc[c] \in {"leased", "bare"}
  /\ StartDrain(c)
  /\ CycleTo(c, IF cpc[c] = "leased" THEN "drainLeased" ELSE "drainBare")
  /\ UNCHANGED <<apc, guard, wake, auto, cycle, past>>

\* The drain is over, or --skip-pipeline left it out.
CycleEnds(c) ==
  /\ cpc[c] \in {"leased", "bare", "drainLeased", "drainBare"} /\ dpc[c] = "off"
  /\ cycle' = IF cpc[c] \in {"leased", "drainLeased"} THEN LeaseEnded(cycle, c) ELSE cycle
  /\ CycleTo(c, "ended")
  /\ UNCHANGED <<queue, apc, guard, wake, auto, past>>

CycleStep(c) == ClearAuto(c) \/ TakeCycle(c) \/ CycleDrain(c) \/ CycleEnds(c)

----------------------------------------------------------------------------
(* Time and processes.                                                       *)

Lapse ==
  /\ \/ auto.live /\ auto' = [auto EXCEPT !.live = FALSE] /\ UNCHANGED cycle
     \/ cycle.live /\ cycle' = [cycle EXCEPT !.live = FALSE] /\ UNCHANGED auto
  /\ UNCHANGED <<queue, apc, cpc, guard, wake, past>>

\* What the death of the threads T does to the queue: their drain stops with its pool.
QueueDies(T) ==
  \/ \E d \in T : Crash(d)
  \/ \E h \in T \cap Healers : HealStops(h)
  \/ /\ \A d \in T : dpc[d] = "off" /\ (d \in Healers => hpc[d] = "idle")
     /\ UNCHANGED queue

\* A process ends with its daemon threads.  The API's container starts it again.
ProcessDies(p) ==
  /\ restarts < MaxRestarts /\ restarts' = restarts + 1
  /\ QueueDies(Of(p))
  /\ apc' = [t \in Runners |-> IF t \notin Of(p) THEN apc[t]
                               ELSE IF t = Loop THEN "boot" ELSE "off"]
  /\ guard' = guard \ {p} /\ wake' = (wake /\ p # "api")
  /\ auto' = Orphan(auto, Of(p)) /\ unreleased' = unreleased \ Of(p)
  /\ UNCHANGED <<cpc, cycle, raises>>

\* It dies, or one of its calls raises, the release included.
CycleDies(c) ==
  /\ cpc[c] # "ended" /\ restarts < MaxRestarts /\ restarts' = restarts + 1
  /\ QueueDies({c})
  /\ CycleTo(c, "ended")
  /\ cycle' = Orphan(cycle, {c})
  /\ UNCHANGED <<apc, guard, wake, auto, raises, unreleased>>

\* The drains' own steps, and new rows.
Alone == UNCHANGED <<apc, cpc, guard, wake, auto, cycle, past>>
RunWorker(t) == Worker(t) /\ Alone
RunDrain(d)  == DrainStep(d) /\ Alone
QueueStep ==
  \/ \E t \in Threads : RunWorker(t)
  \/ \E d \in Drains : RunDrain(d)
  \/ \E a \in Articles : (InsertRaw(a) \/ GrowStale(a)) /\ Alone

AutoNext ==
  \/ Boot \/ TimesOut \/ Clear \/ QueueStep \/ Lapse
  \/ \E t \in Runners : Kick(t) \/ Runner(t) \/ CallRaises(t)
  \/ \E c \in Cycles : CycleStep(c) \/ CycleDies(c)
  \/ \E p \in Procs : ProcessDies(p)

AutoSpec == AutoInit /\ [][AutoNext]_avars

(* Threads run, the loop's waits time out, leases lapse.  Kicks, new rows    *)
(* and deaths are under no fairness, and nothing is assumed to start drains. *)
AutoFair ==
  /\ AutoSpec
  /\ WF_avars(Boot) /\ WF_avars(TimesOut) /\ WF_avars(Clear) /\ WF_avars(Lapse)
  /\ \A t \in Runners : WF_avars(Runner(t))
  /\ \A c \in Cycles : WF_avars(CycleStep(c))
  /\ \A t \in Threads : WF_avars(RunWorker(t))
  /\ \A d \in Drains : WF_avars(RunDrain(d))

----------------------------------------------------------------------------
(* Every variable keeps its type.                                            *)
AutoTypeOK ==
  LET Lease == [live : BOOLEAN, holder : Runners \cup Cycles \cup {"nobody", "dead"}]
  IN /\ apc \in [Runners -> {"boot", "pause", "clear", "off", "count", "countBusy", "yield",
                             "guard"} \cup Guarded]
     /\ cpc \in [Cycles -> {"new", "take", "leased", "bare", "drainLeased", "drainBare", "ended"}]
     /\ guard \subseteq Procs /\ wake \in BOOLEAN
     /\ auto \in Lease /\ cycle \in Lease
     /\ restarts \in 0..MaxRestarts /\ raises \in 0..MaxRaises
     /\ unreleased \subseteq Runners

(* _local_guard is taken exactly while one thread of the process is in its   *)
(* try block: two drains of one process never overlap, and no early return   *)
(* leaves the guard behind, which would end all draining in that process.    *)
Inside == {t \in Runners : apc[t] \in Guarded}
GuardExact ==
  /\ \A t, u \in Inside : Proc(t) = Proc(u) => t = u
  /\ guard = {Proc(t) : t \in Inside}

(* A running auto_drain lease in the name of a live thread belongs to one    *)
(* that is draining, or to one whose release raised: whatever other path the *)
(* drain took, the lease did not outlive it, and the next drain need not     *)
(* wait for it to lapse.                                                     *)
LeaseNotForgotten ==
  auto.live /\ auto.holder \in Runners =>
    apc[auto.holder] \in Draining \/ auto.holder \in unreleased

(* The drains and the repair jobs of one process take turns, whatever        *)
(* happens to the leases, which calls raise and however often it is          *)
(* restarted: the guard covers a drain to the end of its pool.  (It says     *)
(* nothing of other processes, and nothing of repairs and drains that the    *)
(* dashboard and the admin view start beside the runner.)                    *)
Engaged(t) == dpc[t] # "off" \/ hpc[t] # "idle"
OneDrainEach == \A t, u \in Runners : Proc(t) = Proc(u) /\ Engaged(t) /\ Engaged(u) => t = u

(* Nothing but the loop, its timeouts and the leases makes every queued      *)
(* article leave the queue: no lost kick, dead process or orphaned lease     *)
(* stops the draining for good.                                              *)
Drained == Lifecycle!Spec
=============================================================================
