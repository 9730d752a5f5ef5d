---------------------------- MODULE PipelineQueue ---------------------------
(* The AI pipeline's work queue: the raw_articles rows of MongoDB, the       *)
(* worker threads that claim and process them, the drains (run_until_empty,  *)
(* run_batch) that start those threads, the repair jobs the dashboard polls, *)
(* and the operators.  Every database call is one step; between two calls of *)
(* one thread any other actor may move.  Source: news/pipeline/orchestrator. *)
EXTENDS Integers, FiniteSets

CONSTANTS Articles,      \* raw articles, as numbers in order of fetched_at
          Drains,        \* callers of run_until_empty / run_batch
          Slots,         \* thread slots of one ThreadPoolExecutor
          Healers,       \* callers of heal_stuck_raw_pipeline
          Legacy,        \* rows an older build left failed on a transient error
          BatchSize,     \* batch_size of a drain, limit of a single batch
          MaxArticles,   \* max_articles of run_until_empty, 0 for no limit
          MaxAging,      \* bound: rows that outlive the stale cutoff
          MaxCrashes,    \* bound: drain processes that die
          MaxTransient,  \* bound: transient failures of the ML stages
          MaxDbErrors,   \* bound: MongoDB calls that raise
          MaxOps         \* bound: operator commands

ASSUME QueueAssumption ==
  /\ Articles \subseteq Nat /\ IsFiniteSet(Articles)
  /\ Legacy \subseteq Articles
  /\ IsFiniteSet(Slots)
  /\ BatchSize \in Nat \ {0}
  /\ {MaxArticles, MaxAging, MaxCrashes, MaxTransient, MaxDbErrors, MaxOps} \subseteq Nat

NoArticle == -1         \* a thread that holds no row

VARIABLES
  status,   \* pipeline_status of the row
  started,  \* processing_started_at, as its relation to the stale cutoff
  err,      \* pipeline_error, by its class in errors.py
  proc,     \* the processed_articles document of the article's URL
  wpc,      \* program counter of each worker thread
  wdoc,     \* the row the thread claimed
  dpc,      \* program counter of each drain
  limit,    \* limit of the drain's current batch
  counted,  \* shared["processed"] + shared["errors"] of that batch
  total,    \* total_ok + total_errors of the drain
  hpc,      \* program counter of each repair job
  hfound,   \* ids the repair job read and is about to update
  used      \* how much of each bound has been spent

rows    == <<status, started, err, proc>>
threads == <<wpc, wdoc>>
drains  == <<dpc, limit, counted, total>>
heals   == <<hpc, hfound>>
vars    == <<rows, threads, drains, heals, used>>

Threads  == Drains \X Slots
Pool(d)  == {t \in Threads : t[1] = d}
Stored   == {"initial", "decided"}      \* a document is there
Present(a)    == status[a] \notin {"absent", "deleted"}
With(s)       == {a \in Articles : status[a] = s}
Live(t)       == wpc[t] \in {"stages", "stored"}
\* Mutant of Stale: the cutoff is dropped from the filter.
StaleAny      == With("processing")
Stale         == {a \in With("processing") : started[a] # "fresh"}

Limits == [aging |-> MaxAging, crash |-> MaxCrashes, transient |-> MaxTransient,
           db |-> MaxDbErrors, ops |-> MaxOps]
Spend(k) == used[k] < Limits[k] /\ used' = [used EXCEPT ![k] = @ + 1]

\* Mutant of SetAll: the update revives deleted rows (upsert).
SetAllUpsert(S, s) == [a \in Articles |-> IF a \in S THEN s ELSE status[a]]

\* update_many: every row of S gets the status s; rows deleted meanwhile match nothing.
SetAll(S, s) == [a \in Articles |-> IF a \in S /\ Present(a) THEN s ELSE status[a]]
\* $unset of processing_started_at or pipeline_error on the rows of S.
Unset(S, f, none) == [a \in Articles |-> IF a \in S /\ Present(a) THEN none ELSE f[a]]

Init ==
  /\ status \in {[a \in Articles |-> IF a \in Legacy THEN "failed"
                                     ELSE IF a <= n THEN "pending" ELSE "absent"]
                   : n \in {0} \cup Articles}
  /\ started = [a \in Articles |-> "unset"]
  /\ err = [a \in Articles |-> IF a \in Legacy THEN "transient" ELSE "none"]
  /\ proc = [a \in Articles |-> "none"]
  /\ wpc = [t \in Threads |-> "idle"]
  /\ wdoc = [t \in Threads |-> NoArticle]
  /\ dpc = [d \in Drains |-> "off"]
  /\ limit = [d \in Drains |-> 0]
  /\ counted = [d \in Drains |-> 0]
  /\ total = [d \in Drains |-> 0]
  /\ hpc = [h \in Healers |-> "idle"]
  /\ hfound = [h \in Healers |-> {}]
  /\ used = [k \in DOMAIN Limits |-> 0]

----------------------------------------------------------------------------
(* A worker thread: _worker_loop, claim_next_pending, _process_claimed_raw   *)
(* and process_one_raw.                                                      *)

\* Mutant of CheckLimit: > for >=.
CheckLimitLate(t) ==
  /\ wpc[t] = "check"
  /\ wpc' = [wpc EXCEPT ![t] = IF counted[t[1]] > limit[t[1]] THEN "returned" ELSE "claim"]
  /\ UNCHANGED <<rows, wdoc, drains, heals, used>>

\* The limit test under _batch_lock; the claim that follows it is outside the lock.
CheckLimit(t) ==
  /\ wpc[t] = "check"
  /\ wpc' = [wpc EXCEPT ![t] = IF counted[t[1]] >= limit[t[1]] THEN "returned" ELSE "claim"]
  /\ UNCHANGED <<rows, wdoc, drains, heals, used>>

\* Mutants of ClaimRow: a plain find; a claim without processing_started_at.
ClaimByRead(t, a) ==
  /\ wpc[t] = "claim" /\ a \in With("pending")
  /\ wpc' = [wpc EXCEPT ![t] = "stages"]
  /\ wdoc' = [wdoc EXCEPT ![t] = a]
  /\ UNCHANGED <<rows, drains, heals, used>>

ClaimUnstamped(t, a) ==
  /\ wpc[t] = "claim" /\ a \in With("pending")
  /\ status' = [status EXCEPT ![a] = "processing"]
  /\ wpc' = [wpc EXCEPT ![t] = "stages"]
  /\ wdoc' = [wdoc EXCEPT ![t] = a]
  /\ UNCHANGED <<started, err, proc, drains, heals, used>>

\* find_one_and_update pending -> processing, oldest fetched_at first.
ClaimRow(t, a) ==
  /\ wpc[t] = "claim"
  /\ a \in With("pending") /\ \A b \in With("pending") : a <= b
  /\ status' = [status EXCEPT ![a] = "processing"]
  /\ started' = [started EXCEPT ![a] = "fresh"]
  /\ wpc' = [wpc EXCEPT ![t] = "stages"]
  /\ wdoc' = [wdoc EXCEPT ![t] = a]
  /\ UNCHANGED <<err, proc, drains, heals, used>>

FindNothing(t) ==
  /\ wpc[t] = "claim" /\ With("pending") = {}
  /\ wpc' = [wpc EXCEPT ![t] = "returned"]
  /\ UNCHANGED <<rows, wdoc, drains, heals, used>>

\* The ML stages succeed: replace_one(upsert) rewrites the whole processed document,
\* with moderation_status computed afresh.
Upsert(t) ==
  /\ wpc[t] = "stages"
  /\ proc' = [proc EXCEPT ![wdoc[t]] = "initial"]
  /\ wpc' = [wpc EXCEPT ![t] = "stored"]
  /\ UNCHANGED <<status, started, err, wdoc, drains, heals, used>>

\* update_one({_id}, status done): neither the status nor the claim is looked at again.
MarkDone(t) ==
  /\ wpc[t] = "stored"
  /\ status' = SetAll({wdoc[t]}, "done")
  /\ wpc' = [wpc EXCEPT ![t] = "count"]
  /\ wdoc' = [wdoc EXCEPT ![t] = NoArticle]
  /\ UNCHANGED <<started, err, proc, drains, heals, used>>

\* Mutant of RetryLater: a requeued article is counted as an error.
RetryCounted(t) ==
  /\ status' = SetAll({wdoc[t]}, "pending")
  /\ err' = Unset({wdoc[t]}, err, "none")
  /\ wpc' = [wpc EXCEPT ![t] = "count"]
  /\ wdoc' = [wdoc EXCEPT ![t] = NoArticle]
  /\ UNCHANGED <<started, proc, drains, heals>>

\* The except branch for a transient error: back to pending, not counted.
RetryLater(t) ==
  /\ status' = SetAll({wdoc[t]}, "pending")
  /\ err' = Unset({wdoc[t]}, err, "none")
  /\ wpc' = [wpc EXCEPT ![t] = "check"]
  /\ wdoc' = [wdoc EXCEPT ![t] = NoArticle]
  /\ UNCHANGED <<started, proc, drains, heals>>

\* The except branch for any other error: failed, with the error kept on the row.
GiveUp(t) ==
  /\ status' = SetAll({wdoc[t]}, "failed")
  /\ err' = Unset({wdoc[t]}, err, "permanent")
  /\ wpc' = [wpc EXCEPT ![t] = "count"]
  /\ wdoc' = [wdoc EXCEPT ![t] = NoArticle]
  /\ UNCHANGED <<started, proc, drains, heals>>

StageTransient(t) == wpc[t] = "stages" /\ Spend("transient") /\ RetryLater(t)
StageFails(t)     == wpc[t] = "stages" /\ GiveUp(t) /\ UNCHANGED used
\* find_one or update_one raises after the upsert: the same except branches.
StoreTransient(t) == wpc[t] = "stored" /\ Spend("db") /\ RetryLater(t)
StoreFails(t)     == wpc[t] = "stored" /\ Spend("db") /\ GiveUp(t)

\* The claim, or the update inside the except branch, raises: the thread ends and its
\* future carries the exception; a claimed row stays in processing.
Raise(t) ==
  /\ wpc[t] \in {"claim", "stages", "stored"} /\ Spend("db")
  /\ wpc' = [wpc EXCEPT ![t] = "raised"]
  /\ wdoc' = [wdoc EXCEPT ![t] = NoArticle]
  /\ UNCHANGED <<rows, drains, heals>>

\* shared["processed"] or shared["errors"] += 1 under _batch_lock.
CountResult(t) ==
  /\ wpc[t] = "count"
  /\ counted' = [counted EXCEPT ![t[1]] = @ + 1]
  /\ wpc' = [wpc EXCEPT ![t] = "check"]
  /\ UNCHANGED <<rows, wdoc, dpc, limit, total, heals, used>>

Worker(t) ==
  \/ CheckLimit(t) \/ FindNothing(t) \/ \E a \in Articles : ClaimRow(t, a)
  \/ Upsert(t) \/ MarkDone(t) \/ StageTransient(t) \/ StageFails(t)
  \/ StoreTransient(t) \/ StoreFails(t) \/ Raise(t) \/ CountResult(t)

----------------------------------------------------------------------------
(* A drain: run_until_empty and run_batch.                                   *)

Smaller(x, y) == IF x <= y THEN x ELSE y

\* The totals are locals of the call: they end with it.
GoTo(d, pc) ==
  /\ dpc' = [dpc EXCEPT ![d] = pc]
  /\ total' = IF pc = "off" THEN [total EXCEPT ![d] = 0] ELSE total
  /\ UNCHANGED <<limit, counted>>

\* run_batch: a fresh shared dict and one _worker_loop per slot.
OpenBatch(d, pc, n) ==
  /\ dpc' = [dpc EXCEPT ![d] = pc]
  /\ limit' = [limit EXCEPT ![d] = n]
  /\ counted' = [counted EXCEPT ![d] = 0]
  /\ wpc' = [t \in Threads |-> IF t \in Pool(d) THEN "check" ELSE wpc[t]]
  /\ UNCHANGED wdoc

\* Mutant of CloseBatch: the threads outlive their batch.
CloseBatchKeeps(d) ==
  /\ wdoc' = [t \in Threads |-> IF t \in Pool(d) THEN NoArticle ELSE wdoc[t]]
  /\ UNCHANGED wpc

CloseBatch(d) ==
  /\ wpc' = [t \in Threads |-> IF t \in Pool(d) THEN "idle" ELSE wpc[t]]
  /\ wdoc' = [t \in Threads |-> IF t \in Pool(d) THEN NoArticle ELSE wdoc[t]]

StartDrain(d) ==
  /\ dpc[d] = "off"
  /\ GoTo(d, "top")
  /\ UNCHANGED <<rows, threads, heals, used>>

\* An operator's run_ai_pipeline --limit, or admin run without drain_queue.
StartSingleBatch(d) ==
  /\ dpc[d] = "off" /\ Spend("ops")
  /\ OpenBatch(d, "single", BatchSize)
  /\ UNCHANGED <<rows, total, heals>>

\* What the loop does with a non-zero pending count: the max_articles test and the batch.
NextBatch(d) ==
  LET left == Cardinality(With("pending"))
      room == IF MaxArticles - total[d] > 1 THEN MaxArticles - total[d] ELSE 1
      n    == Smaller(BatchSize, left)
  IN IF MaxArticles > 0 /\ total[d] >= MaxArticles
     THEN GoTo(d, "off") /\ UNCHANGED threads
     ELSE /\ OpenBatch(d, "batch", IF MaxArticles > 0 THEN Smaller(n, room) ELSE n)
          /\ UNCHANGED total

CountPending(d) ==
  /\ dpc[d] = "top"
  /\ IF With("pending") = {} THEN GoTo(d, "topBusy") /\ UNCHANGED threads ELSE NextBatch(d)
  /\ UNCHANGED <<rows, heals, used>>

\* The second count_documents of the loop head, read when nothing was pending.
CountProcessing(d) ==
  /\ dpc[d] = "topBusy"
  /\ GoTo(d, IF With("processing") = {} THEN "off" ELSE "sweep")
  /\ UNCHANGED <<rows, threads, heals, used>>

\* requeue_abandoned_processing: every processing row, whoever claimed it.
RequeueAbandoned ==
  /\ status' = SetAll(With("processing"), "pending")
  /\ started' = Unset(With("processing"), started, "unset")
  /\ UNCHANGED <<err, proc>>

Sweep(d) ==
  /\ dpc[d] \in {"sweep", "sweepIdle"}
  /\ GoTo(d, IF dpc[d] = "sweep" THEN "recount" ELSE "recountIdle")
  /\ RequeueAbandoned
  /\ UNCHANGED <<threads, heals, used>>

Recount(d) ==
  /\ dpc[d] = "recount"
  /\ IF With("pending") = {} THEN GoTo(d, "off") /\ UNCHANGED threads ELSE NextBatch(d)
  /\ UNCHANGED <<rows, heals, used>>

RecountIdle(d) ==
  /\ dpc[d] = "recountIdle"
  /\ GoTo(d, IF With("pending") = {} THEN "off" ELSE "top")
  /\ UNCHANGED <<rows, threads, heals, used>>

\* The pool's with-block waits for every thread before fut.result() re-raises or the
\* batch is added up.
Ended(d) == \A t \in Pool(d) : wpc[t] \in {"returned", "raised"}

\* Mutant of EndBatch: the pool is not waited for.
EndBatchEarly(d) ==
  /\ dpc[d] = "batch"
  /\ GoTo(d, IF counted[d] = 0 THEN "sweepIdle" ELSE "top")
  /\ UNCHANGED <<rows, threads, heals, used>>

EndBatch(d) ==
  /\ dpc[d] \in {"batch", "single"} /\ Ended(d)
  /\ CloseBatch(d)
  /\ LET over == dpc[d] = "single" \/ \E t \in Pool(d) : wpc[t] = "raised"
     IN /\ dpc' = [dpc EXCEPT ![d] = IF over THEN "off"
                                     ELSE IF counted[d] = 0 THEN "sweepIdle" ELSE "top"]
        /\ total' = [total EXCEPT ![d] = IF over THEN 0 ELSE @ + counted[d]]
  /\ limit' = [limit EXCEPT ![d] = 0]
  /\ counted' = [counted EXCEPT ![d] = 0]
  /\ UNCHANGED <<rows, heals, used>>

\* The process of a drain dies with all its threads; the rows stay as they are.
Crash(d) ==
  /\ dpc[d] # "off" /\ Spend("crash")
  /\ CloseBatch(d)
  /\ dpc' = [dpc EXCEPT ![d] = "off"]
  /\ limit' = [limit EXCEPT ![d] = 0]
  /\ counted' = [counted EXCEPT ![d] = 0]
  /\ total' = [total EXCEPT ![d] = 0]
  /\ UNCHANGED <<rows, heals>>

DrainStep(d) == \/ CountPending(d) \/ CountProcessing(d) \/ Sweep(d)
                \/ Recount(d) \/ RecountIdle(d) \/ EndBatch(d)

----------------------------------------------------------------------------
(* A repair job: heal_stuck_raw_pipeline and the two functions it calls.  It *)
(* reads ids in one call and updates them by _id in a later one.             *)

HealTo(h, pc, found) ==
  /\ hpc' = [hpc EXCEPT ![h] = pc]
  /\ hfound' = [hfound EXCEPT ![h] = found]

\* Mutant of HealLook: the $lookup of the processed document is dropped.
HealLookAll(h) ==
  /\ hpc[h] = "idle"
  /\ HealTo(h, IF Stale = {} THEN "stale" ELSE "mark", Stale)
  /\ UNCHANGED <<rows, threads, drains, used>>

\* The aggregate: stale processing rows whose processed document is there.
HealLook(h) ==
  /\ hpc[h] = "idle"
  /\ LET stuck == {a \in Stale : proc[a] \in Stored}
     IN HealTo(h, IF stuck = {} THEN "stale" ELSE "mark", stuck)
  /\ UNCHANGED <<rows, threads, drains, used>>

HealMark(h) ==
  /\ hpc[h] = "mark"
  /\ status' = SetAll(hfound[h], "done")
  /\ started' = Unset(hfound[h], started, "unset")
  /\ HealTo(h, "stale", {})
  /\ UNCHANGED <<err, proc, threads, drains, used>>

\* Either call above raises: swallowed, healed = 0.
HealSwallow(h) ==
  /\ hpc[h] = "mark" /\ Spend("db")
  /\ HealTo(h, "stale", {})
  /\ UNCHANGED <<rows, threads, drains>>

\* requeue_stale_processing: filter and update in one call.
RequeueStale ==
  /\ status' = SetAll(Stale, "pending")
  /\ started' = Unset(Stale, started, "unset")
  /\ UNCHANGED <<err, proc>>

HealStale(h) ==
  /\ hpc[h] = "stale"
  /\ RequeueStale
  /\ HealTo(h, "failed", {})
  /\ UNCHANGED <<threads, drains, used>>

\* requeue_transient_failures, first half: failed rows whose error is a transient one.
\* The command requeue_failed_pipeline calls it alone.
FindTransient(h) ==
  /\ hpc[h] \in {"idle", "failed"}
  /\ LET ids == {a \in With("failed") : err[a] = "transient"}
     IN HealTo(h, IF ids = {} THEN "idle" ELSE "retry", ids)
  /\ UNCHANGED <<rows, threads, drains, used>>

\* Second half: those ids go back to pending, whatever their status is by now.
RetryTransient(h) ==
  /\ hpc[h] = "retry"
  /\ status' = SetAll(hfound[h], "pending")
  /\ err' = Unset(hfound[h], err, "none")
  /\ HealTo(h, "idle", {})
  /\ UNCHANGED <<started, proc, threads, drains, used>>

\* The process dies, or a call outside the try block raises to the caller.
HealStops(h) ==
  /\ hpc[h] # "idle"
  /\ Spend("crash") \/ (hpc[h] # "mark" /\ Spend("db"))
  /\ HealTo(h, "idle", {})
  /\ UNCHANGED <<rows, threads, drains>>

HealStep(h) == \/ HealLook(h) \/ HealMark(h) \/ HealSwallow(h) \/ HealStale(h)
               \/ FindTransient(h) \/ RetryTransient(h) \/ HealStops(h)

----------------------------------------------------------------------------
(* Operators, scrapers and time.                                             *)

Command == Spend("ops") /\ UNCHANGED <<threads, drains, heals>>

\* mark_raw_for_reprocess: run_ai_pipeline --reprocess, requeue_failed_pipeline --all.
MarkForReprocess ==
  LET S == With("done") \cup With("failed")
  IN /\ Command /\ S # {}
     /\ status' = SetAll(S, "pending")
     /\ err' = Unset(S, err, "none")
     /\ UNCHANGED <<started, proc>>

\* requeue_failed_raw_by_id: the status read is repeated in the update's filter, so the
\* read and the write act as one step on an unchanged status.
RequeueById(a) ==
  /\ Command /\ status[a] \in {"failed", "processing"}
  /\ status' = SetAll({a}, "pending")
  /\ err' = Unset({a}, err, "none")
  /\ started' = Unset({a}, started, "unset")
  /\ UNCHANGED proc

\* run_ai_pipeline --requeue-stale.
RequeueStaleNow == Command /\ Stale # {} /\ RequeueStale

RequeueAllFailed ==
  LET S == With("failed")
  IN /\ Command /\ S # {}
     /\ status' = SetAll(S, "pending")
     /\ err' = Unset(S, err, "none")
     /\ started' = Unset(S, started, "unset")
     /\ UNCHANGED proc

DeleteAllFailed ==
  /\ Command /\ With("failed") # {}
  /\ status' = SetAll(With("failed"), "deleted")
  /\ UNCHANGED <<started, err, proc>>

\* DELETE on one raw or one processed article, whatever its state.
DeleteRaw(a) ==
  /\ Command /\ Present(a)
  /\ status' = SetAll({a}, "deleted")
  /\ UNCHANGED <<started, err, proc>>

DeleteProcessed(a) ==
  /\ Command /\ proc[a] \in Stored
  /\ proc' = [proc EXCEPT ![a] = "removed"]
  /\ UNCHANGED <<status, started, err>>

\* PATCH of moderation_status on a processed article.
Moderate(a) ==
  /\ Command /\ proc[a] \in Stored
  /\ proc' = [proc EXCEPT ![a] = "decided"]
  /\ UNCHANGED <<status, started, err>>

Operator == \/ MarkForReprocess \/ RequeueStaleNow \/ RequeueAllFailed \/ DeleteAllFailed
            \/ \E a \in Articles : \/ RequeueById(a) \/ DeleteRaw(a)
                                   \/ DeleteProcessed(a) \/ Moderate(a)

\* insert_raw_if_new: the next article in order of fetched_at.
InsertRaw(a) ==
  /\ status[a] = "absent" /\ \A b \in Articles : b < a => status[b] # "absent"
  /\ status' = [status EXCEPT ![a] = "pending"]
  /\ UNCHANGED <<started, err, proc, threads, drains, heals, used>>

\* A processing row outlives PIPELINE_STALE_MINUTES.
GrowStale(a) ==
  /\ status[a] = "processing" /\ started[a] = "fresh" /\ Spend("aging")
  /\ started' = [started EXCEPT ![a] = "stale"]
  /\ UNCHANGED <<status, err, proc, threads, drains, heals>>

Next == \/ \E t \in Threads : Worker(t)
        \/ \E d \in Drains : StartDrain(d) \/ StartSingleBatch(d) \/ DrainStep(d) \/ Crash(d)
        \/ \E h \in Healers : HealStep(h)
        \/ \E a \in Articles : InsertRaw(a) \/ GrowStale(a)
        \/ Operator

Spec == Init /\ [][Next]_vars

----------------------------------------------------------------------------
RowType ==
  /\ status \in [Articles -> {"absent", "pending", "processing", "done", "failed", "deleted"}]
  /\ started \in [Articles -> {"unset", "fresh", "stale"}]
  /\ err \in [Articles -> {"none", "transient", "permanent"}]
  /\ proc \in [Articles -> {"none", "initial", "decided", "removed"}]
ThreadType ==
  /\ wpc \in [Threads -> {"idle", "check", "claim", "stages", "stored", "count",
                          "returned", "raised"}]
  /\ wdoc \in [Threads -> Articles \cup {NoArticle}]
  /\ \A t \in Threads : Live(t) => wdoc[t] \in Articles
DrainType ==
  /\ dpc \in [Drains -> {"off", "top", "topBusy", "sweep", "recount", "batch", "single",
                         "sweepIdle", "recountIdle"}]
  /\ limit \in [Drains -> Nat] /\ counted \in [Drains -> Nat] /\ total \in [Drains -> Nat]
HealType ==
  /\ hpc \in [Healers -> {"idle", "mark", "stale", "failed", "retry"}]
  /\ hfound \in [Healers -> SUBSET Articles]

(* Every variable keeps its type, and a thread that is processing holds a    *)
(* row of raw_articles (_worker_loop clears it before the batch ends).       *)
TypeOK == /\ RowType /\ ThreadType /\ DrainType /\ HealType
          /\ used \in [DOMAIN Limits -> Nat]

(* A row that says done has had its processed_articles document stored, in   *)
(* spite of late workers, repair jobs acting on ids they read earlier, and   *)
(* requeues.  (An operator may have removed the document since.)             *)
DoneHasOutput == \A a \in With("done") : proc[a] # "none"

(* One claim at a time: while one drain and one repair job run, no row       *)
(* outlives the cutoff and no operator has touched the queue, no two threads *)
(* process the same row, whichever calls fail or processes die.              *)
ExclusiveClaim ==
  used.ops = 0 => \A t, u \in Threads : t # u /\ Live(t) /\ Live(u) => wdoc[t] # wdoc[u]

(* Under the same conditions the processing count of the dashboard includes  *)
(* every row in flight: the repair job it polls takes no recent row away.    *)
InFlightCounted ==
  used.ops = 0 => \A t \in Threads : Live(t) => status[wdoc[t]] = "processing"

(* A batch may overshoot its limit, and a drain its max_articles, since the  *)
(* limit is tested before the claim, but by less than the number of threads. *)
InHand(d) == Cardinality({t \in Pool(d) : Live(t) \/ wpc[t] = "count"})

BatchOvershoot ==
  \A d \in Drains :
    /\ dpc[d] \in {"batch", "single"} =>
         counted[d] + InHand(d) <= limit[d] + Cardinality(Slots) - 1
    /\ dpc[d] = "batch" /\ MaxArticles > 0 =>
         total[d] + counted[d] + InHand(d) <= MaxArticles + Cardinality(Slots) - 1

(* The drain's report counts every article it settled exactly once: until an *)
(* operator touches the queue, what a lone drain counted (or is about to)    *)
(* and the rows that are done or failed grow by the same number in each of   *)
(* its steps, through transient retries and calls that raise.                *)
Reported(d) == total[d] + counted[d] + Cardinality({t \in Pool(d) : wpc[t] = "count"})
Settled == Cardinality(With("done") \cup With("failed"))

CountedOnce ==
  [][used'.ops = 0 /\ hpc' = hpc =>
       \A d \in Drains : dpc[d] # "off" /\ dpc'[d] # "off" =>
         Reported(d)' - Reported(d) = Settled' - Settled]_vars

(* The sweep of abandoned rows at the end of a batch never takes a row one   *)
(* of the drain's own threads is processing.                                 *)
Sweeping(d) == dpc[d] \in {"sweep", "sweepIdle"} /\ dpc'[d] \in {"recount", "recountIdle"}
Taken(a) == status[a] = "processing" /\ status'[a] = "pending"

SweepSparesOwn ==
  [][\A d \in Drains : Sweeping(d) =>
       \A t \in Pool(d) : Live(t) => ~Taken(wdoc[t])]_vars

(* An admin's moderation decision is not overwritten by a pipeline pass that *)
(* was never asked to redo the article: one drain, no row beyond the cutoff, *)
(* no process that died or call that raised after the article was stored.    *)
DecisionSticks ==
  [][used.crash = 0 /\ used.db = 0 =>
       \A a \in Articles : proc[a] = "decided" => proc'[a] # "initial"]_vars

(* The queue implements the life cycle of ArticleLifecycle.                  *)
Lifecycle == INSTANCE ArticleLifecycle WITH
  stage  <- [a \in Articles |-> IF status[a] \in {"pending", "processing"} THEN "queued"
                                ELSE status[a]],
  stored <- {a \in Articles : proc[a] # "none"}

LifecycleSafe == Lifecycle!Safe
=============================================================================
