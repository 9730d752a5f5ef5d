------------------------ MODULE PipelineQueue_proofs ------------------------
(* Theorems of PipelineQueue, for any number of articles, drains, threads,   *)
(* repair jobs, and any value of the bounds.                                 *)
EXTENDS PipelineQueue, FiniteSetTheorems, TLAPS

Statuses == {"absent", "pending", "processing", "done", "failed", "deleted"}

(* update_many with a legal status keeps the rows well formed.               *)
LEMMA SetAllType ==
  ASSUME RowType, NEW S, NEW s \in Statuses
  PROVE  SetAll(S, s) \in [Articles -> Statuses]
  BY DEF SetAll, RowType, Statuses

(* $unset keeps processing_started_at and pipeline_error well formed.        *)
LEMMA UnsetType ==
  ASSUME NEW S, NEW R, NEW none \in R, NEW f \in [Articles -> R]
  PROVE  Unset(S, f, none) \in [Articles -> R]
  BY DEF Unset

(* Every count_documents is a natural number.                                *)
LEMMA CountType ==
  ASSUME NEW s
  PROVE  Cardinality(With(s)) \in Nat
  BY QueueAssumption, FS_Subset, FS_CardinalityType, With(s) \subseteq Articles DEF With

(* Counting one entry of a record of naturals up keeps the record of type.   *)
LEMMA BumpType ==
  ASSUME NEW D, NEW f \in [D -> Nat], NEW k
  PROVE  [f EXCEPT ![k] = f[k] + 1] \in [D -> Nat]
<1>1. CASE k \in D
  BY <1>1
<1>2. CASE k \notin D
  BY <1>2
<1> QED
  BY <1>1, <1>2

(* Spending a bound keeps the counters natural numbers.                      *)
LEMMA SpendType ==
  ASSUME used \in [DOMAIN Limits -> Nat], NEW k, Spend(k)
  PROVE  used' \in [DOMAIN Limits -> Nat]
  BY BumpType DEF Spend

(* The initial state is of type.                                             *)
LEMMA InitType == Init => TypeOK
  BY QueueAssumption
  DEF Init, TypeOK, RowType, ThreadType, DrainType, HealType, Live

(* A step of _worker_loop keeps every variable in its type.                  *)
LEMMA WorkerType ==
  ASSUME TypeOK, NEW t \in Threads, Worker(t)
  PROVE  TypeOK'
<1> USE DEF TypeOK, RowType, ThreadType, DrainType, HealType, Live, Threads, rows,
            threads, drains, heals
<1>1. CASE CheckLimit(t)
  BY <1>1 DEF CheckLimit
<1>2. CASE FindNothing(t)
  BY <1>2 DEF FindNothing
<1>3. ASSUME NEW a \in Articles, ClaimRow(t, a) PROVE TypeOK'
  BY <1>3 DEF ClaimRow
<1>4. CASE Upsert(t)
  BY <1>4 DEF Upsert
<1>5. CASE MarkDone(t)
  BY <1>5, SetAllType DEF MarkDone, Statuses
<1>6. CASE StageTransient(t)
  BY <1>6, SetAllType, UnsetType, SpendType DEF StageTransient, RetryLater, Statuses
<1>7. CASE StageFails(t)
  BY <1>7, SetAllType, UnsetType DEF StageFails, GiveUp, Statuses
<1>8. CASE StoreTransient(t)
  BY <1>8, SetAllType, UnsetType, SpendType DEF StoreTransient, RetryLater, Statuses
<1>9. CASE StoreFails(t)
  BY <1>9, SetAllType, UnsetType, SpendType DEF StoreFails, GiveUp, Statuses
<1>10. CASE Raise(t)
  BY <1>10, SpendType DEF Raise
<1>11. CASE CountResult(t)
  BY <1>11 DEF CountResult
<1> QED
  BY <1>1, <1>2, <1>3, <1>4, <1>5, <1>6, <1>7, <1>8, <1>9, <1>10, <1>11 DEF Worker

(* run_batch starts its threads with no row and a fresh count.               *)
LEMMA BatchType ==
  ASSUME TypeOK, NEW d \in Drains, NEW n \in Nat, NEW pc \in {"batch", "single"},
         OpenBatch(d, pc, n), UNCHANGED total
  PROVE  ThreadType' /\ DrainType'
  BY DEF OpenBatch, TypeOK, ThreadType, DrainType, Live, Threads, Pool

(* Leaving the pool leaves no thread of it with a row.                       *)
LEMMA CloseType ==
  ASSUME TypeOK, NEW d \in Drains, CloseBatch(d)
  PROVE  ThreadType'
  BY DEF CloseBatch, TypeOK, ThreadType, Live, Threads, Pool

(* A move of the drain loop keeps its counters naturals.                     *)
LEMMA GoToType ==
  ASSUME TypeOK, NEW d \in Drains, NEW pc, GoTo(d, pc),
         pc \in {"off", "top", "topBusy", "sweep", "recount", "recountIdle"}
  PROVE  DrainType'
  BY DEF GoTo, TypeOK, DrainType

(* The limit run_until_empty computes for a batch is a natural number.       *)
LEMMA NextBatchType ==
  ASSUME TypeOK, NEW d \in Drains, NextBatch(d)
  PROVE  ThreadType' /\ DrainType'
<1>1. CASE GoTo(d, "off") /\ UNCHANGED threads
  BY <1>1, GoToType DEF threads, TypeOK, ThreadType, Live
<1>2. CASE \E n \in Nat : OpenBatch(d, "batch", n) /\ UNCHANGED total
  BY <1>2, BatchType
<1>3. Cardinality(With("pending")) \in Nat
  BY CountType
<1>4. total[d] \in Nat /\ MaxArticles \in Nat /\ BatchSize \in Nat
  BY QueueAssumption DEF TypeOK, DrainType
<1> QED
  BY <1>1, <1>2, <1>3, <1>4 DEF NextBatch, Smaller

(* A step of run_until_empty or run_batch keeps every variable in its type.  *)
LEMMA DrainStepType ==
  ASSUME TypeOK, NEW d \in Drains, DrainStep(d)
  PROVE  TypeOK'
<1> USE DEF TypeOK, rows, threads, heals
<1>1. CASE CountPending(d)
  <2>1. ThreadType' /\ DrainType'
    BY <1>1, NextBatchType, GoToType DEF CountPending, ThreadType, Live
  <2> QED
    BY <1>1, <2>1 DEF CountPending, RowType, HealType
<1>2. CASE CountProcessing(d)
  <2>1. DrainType'
    BY <1>2, GoToType DEF CountProcessing
  <2> QED
    BY <1>2, <2>1 DEF CountProcessing, RowType, ThreadType, Live, HealType
<1>3. CASE Sweep(d)
  <2>1. DrainType'
    BY <1>3, GoToType DEF Sweep
  <2>2. RowType'
    BY <1>3, SetAllType, UnsetType DEF Sweep, RequeueAbandoned, RowType, Statuses
  <2> QED
    BY <1>3, <2>1, <2>2 DEF Sweep, ThreadType, Live, HealType
<1>4. CASE Recount(d)
  <2>1. ThreadType' /\ DrainType'
    BY <1>4, NextBatchType, GoToType DEF Recount, ThreadType, Live
  <2> QED
    BY <1>4, <2>1 DEF Recount, RowType, HealType
<1>5. CASE RecountIdle(d)
  <2>1. DrainType'
    BY <1>5, GoToType DEF RecountIdle
  <2> QED
    BY <1>5, <2>1 DEF RecountIdle, RowType, ThreadType, Live, HealType
<1>6. CASE EndBatch(d)
  <2>1. ThreadType'
    BY <1>6, CloseType DEF EndBatch
  <2>2. DrainType'
    BY <1>6 DEF EndBatch, DrainType
  <2> QED
    BY <1>6, <2>1, <2>2 DEF EndBatch, RowType, HealType
<1> QED
  BY <1>1, <1>2, <1>3, <1>4, <1>5, <1>6 DEF DrainStep

(* So does the start of a drain, of a single batch, and a crash.             *)
LEMMA DrainEdgeType ==
  ASSUME TypeOK, NEW d \in Drains, StartDrain(d) \/ StartSingleBatch(d) \/ Crash(d)
  PROVE  TypeOK'
<1> USE DEF TypeOK, rows, threads, heals
<1>1. CASE StartDrain(d)
  <2>1. DrainType'
    BY <1>1, GoToType DEF StartDrain
  <2> QED
    BY <1>1, <2>1 DEF StartDrain, RowType, ThreadType, Live, HealType
<1>2. CASE StartSingleBatch(d)
  <2>1. ThreadType' /\ DrainType'
    BY <1>2, BatchType, QueueAssumption DEF StartSingleBatch
  <2> QED
    BY <1>2, <2>1, SpendType DEF StartSingleBatch, RowType, HealType
<1>3. CASE Crash(d)
  <2>1. ThreadType' /\ DrainType'
    BY <1>3, CloseType DEF Crash, DrainType
  <2> QED
    BY <1>3, <2>1, SpendType DEF Crash, RowType, HealType
<1> QED
  BY <1>1, <1>2, <1>3

(* A step of heal_stuck_raw_pipeline keeps every variable in its type.       *)
LEMMA HealType_Step ==
  ASSUME TypeOK, NEW h \in Healers, HealStep(h)
  PROVE  TypeOK'
<1> USE DEF TypeOK, rows, threads, drains, HealTo, HealType
<1>1. CASE HealLook(h)
  BY <1>1 DEF HealLook, Stale, With, RowType, ThreadType, Live, DrainType
<1>2. CASE HealMark(h)
  BY <1>2, SetAllType, UnsetType DEF HealMark, RowType, Statuses, ThreadType, Live,
     DrainType
<1>3. CASE HealSwallow(h) \/ HealStops(h)
  BY <1>3, SpendType DEF HealSwallow, HealStops, RowType, ThreadType, Live, DrainType
<1>4. CASE HealStale(h)
  BY <1>4, SetAllType, UnsetType
  DEF HealStale, RequeueStale, RowType, Statuses, ThreadType, Live, DrainType
<1>5. CASE FindTransient(h)
  BY <1>5 DEF FindTransient, With, RowType, ThreadType, Live, DrainType
<1>6. CASE RetryTransient(h)
  BY <1>6, SetAllType, UnsetType
  DEF RetryTransient, RowType, Statuses, ThreadType, Live, DrainType
<1> QED
  BY <1>1, <1>2, <1>3, <1>4, <1>5, <1>6 DEF HealStep

(* An operator command, a scraper's insert and the passing of time touch the *)
(* rows only.                                                                *)
LEMMA OutsideType ==
  ASSUME TypeOK,
         Operator \/ \E a \in Articles : InsertRaw(a) \/ GrowStale(a)
  PROVE  TypeOK'
<1> USE DEF TypeOK, threads, drains, heals
<1>1. ASSUME NEW a \in Articles, InsertRaw(a) \/ GrowStale(a) PROVE TypeOK'
  BY <1>1, SpendType
  DEF InsertRaw, GrowStale, RowType, ThreadType, Live, DrainType, HealType
<1>2. CASE Command /\ RowType'
  BY <1>2, SpendType DEF Command, ThreadType, Live, DrainType, HealType
<1>3. CASE MarkForReprocess
  BY <1>3, <1>2, SetAllType, UnsetType DEF MarkForReprocess, RowType, Statuses
<1>4. CASE RequeueAllFailed
  BY <1>4, <1>2, SetAllType, UnsetType DEF RequeueAllFailed, RowType, Statuses
<1>9. CASE RequeueStaleNow
  BY <1>9, <1>2, SetAllType, UnsetType DEF RequeueStaleNow, RequeueStale, RowType, Statuses
<1>5. CASE DeleteAllFailed
  BY <1>5, <1>2, SetAllType DEF DeleteAllFailed, RowType, Statuses
<1>6. ASSUME NEW a \in Articles, RequeueById(a) PROVE TypeOK'
  BY <1>6, <1>2, SetAllType, UnsetType DEF RequeueById, RowType, Statuses
<1>7. ASSUME NEW a \in Articles, DeleteRaw(a) PROVE TypeOK'
  BY <1>7, <1>2, SetAllType DEF DeleteRaw, RowType, Statuses
<1>8. ASSUME NEW a \in Articles, DeleteProcessed(a) \/ Moderate(a) PROVE TypeOK'
  BY <1>8, <1>2 DEF DeleteProcessed, Moderate, RowType
<1> QED
  BY <1>1, <1>3, <1>4, <1>5, <1>6, <1>7, <1>8, <1>9 DEF Operator

(* Type correctness: every variable keeps its type in every reachable state. *)
THEOREM TypeCorrect == Spec => []TypeOK
<1>1. TypeOK /\ [Next]_vars => TypeOK'
  <2> SUFFICES ASSUME TypeOK, [Next]_vars PROVE TypeOK'
    OBVIOUS
  <2>1. CASE Next
    BY <2>1, WorkerType, DrainStepType, DrainEdgeType, HealType_Step, OutsideType DEF Next
  <2>2. CASE UNCHANGED vars
    BY <2>2 DEF vars, rows, threads, drains, heals, TypeOK, RowType, ThreadType, Live,
                DrainType, HealType
  <2> QED
    BY <2>1, <2>2
<1> QED
  BY InitType, <1>1, PTL DEF Spec

----------------------------------------------------------------------------
(* DoneHasOutput is not inductive: a thread marks its row done one call      *)
(* after it stored the output, and a repair job marks ids it read in an      *)
(* earlier call.  What both remember of the output has to be part of the     *)
(* invariant, and so has the fact that a thread holds a row that was there.  *)
ThreadRemembers ==
  \A t \in Threads : Live(t) =>
    /\ status[wdoc[t]] # "absent"
    /\ wpc[t] = "stored" => proc[wdoc[t]] # "none"
HealerRemembers ==
  \A h \in Healers : hpc[h] = "mark" => \A a \in hfound[h] : proc[a] # "none"
OutputInv == DoneHasOutput /\ ThreadRemembers /\ HealerRemembers

(* No step forgets that an output was stored, or makes a row unscraped.      *)
LEMMA RowsOnlyGrow ==
  ASSUME TypeOK, Next, NEW a \in Articles
  PROVE  /\ proc[a] # "none" => proc'[a] # "none"
         /\ status[a] # "absent" => status'[a] # "absent"
<1> USE DEF TypeOK, RowType, rows, SetAll, Present
<1>1. ASSUME NEW t \in Threads, Worker(t) PROVE
        /\ proc[a] # "none" => proc'[a] # "none"
        /\ status[a] # "absent" => status'[a] # "absent"
  BY <1>1 DEF Worker, CheckLimit, FindNothing, ClaimRow, Upsert, MarkDone, StageTransient,
     StageFails, StoreTransient, StoreFails, RetryLater, GiveUp, Raise, CountResult
<1>2. ASSUME NEW d \in Drains,
             StartDrain(d) \/ StartSingleBatch(d) \/ DrainStep(d) \/ Crash(d) PROVE
        /\ proc[a] # "none" => proc'[a] # "none"
        /\ status[a] # "absent" => status'[a] # "absent"
  BY <1>2 DEF StartDrain, StartSingleBatch, DrainStep, CountPending, CountProcessing, Sweep,
     RequeueAbandoned, Recount, RecountIdle, EndBatch, Crash
<1>3. ASSUME NEW h \in Healers, HealStep(h) PROVE
        /\ proc[a] # "none" => proc'[a] # "none"
        /\ status[a] # "absent" => status'[a] # "absent"
  BY <1>3 DEF HealStep, HealLook, HealMark, HealSwallow, HealStops, HealStale, RequeueStale,
     FindTransient, RetryTransient
<1>4. CASE Operator \/ \E b \in Articles : InsertRaw(b) \/ GrowStale(b)
  BY <1>4, ZenonT(60) DEF Operator, MarkForReprocess, RequeueStaleNow, RequeueStale, Stale,
     RequeueAllFailed, DeleteAllFailed, RequeueById,
     DeleteRaw, DeleteProcessed, Moderate, InsertRaw, GrowStale
<1> QED
  BY <1>1, <1>2, <1>3, <1>4 DEF Next

(* A step that makes a row done knows of its output.                         *)
LEMMA DoneStep ==
  ASSUME TypeOK, OutputInv, Next, NEW a \in Articles, status'[a] = "done"
  PROVE  proc'[a] # "none"
<1> USE DEF TypeOK, RowType, rows, SetAll, Present, With
<1>1. SUFFICES ASSUME status[a] # "done" PROVE proc[a] # "none"
  BY RowsOnlyGrow DEF OutputInv, DoneHasOutput
<1>2. ASSUME NEW t \in Threads, Worker(t) PROVE proc[a] # "none"
  <2>1. MarkDone(t)
    BY <1>1, <1>2 DEF Worker, CheckLimit, FindNothing, ClaimRow, Upsert, StageTransient,
       StageFails, StoreTransient, StoreFails, RetryLater, GiveUp, Raise, CountResult
  <2> QED
    BY <1>1, <2>1 DEF MarkDone, OutputInv, ThreadRemembers, Live
<1>3. ASSUME NEW d \in Drains,
             StartDrain(d) \/ StartSingleBatch(d) \/ DrainStep(d) \/ Crash(d)
      PROVE  proc[a] # "none"
  BY <1>1, <1>3 DEF StartDrain, StartSingleBatch, DrainStep, CountPending, CountProcessing,
     Sweep, RequeueAbandoned, Recount, RecountIdle, EndBatch, Crash
<1>4. ASSUME NEW h \in Healers, HealStep(h) PROVE proc[a] # "none"
  <2>1. HealMark(h)
    BY <1>1, <1>4 DEF HealStep, HealLook, HealSwallow, HealStops, HealStale, RequeueStale,
       FindTransient, RetryTransient
  <2> QED
    BY <1>1, <2>1 DEF HealMark, OutputInv, HealerRemembers
<1>5. CASE Operator \/ \E b \in Articles : InsertRaw(b) \/ GrowStale(b)
  BY <1>1, <1>5 DEF Operator, MarkForReprocess, RequeueStaleNow, RequeueStale, Stale,
     RequeueAllFailed, DeleteAllFailed,
     RequeueById, DeleteRaw, DeleteProcessed, Moderate, InsertRaw, GrowStale
<1> QED
  BY <1>2, <1>3, <1>4, <1>5 DEF Next

(* What a live thread remembers of its row was true when it last looked, and *)
(* rows only grow.                                                           *)
LEMMA ThreadStep ==
  ASSUME TypeOK, OutputInv, Next, NEW u \in Threads, Live(u)'
  PROVE  /\ status'[wdoc'[u]] # "absent"
         /\ wpc'[u] = "stored" => proc'[wdoc'[u]] # "none"
<1>1. CASE /\ Live(u) /\ wdoc'[u] = wdoc[u]
           /\ wpc'[u] = "stored" => wpc[u] = "stored"
  <2>1. wdoc[u] \in Articles /\ status[wdoc[u]] # "absent"
    BY <1>1 DEF TypeOK, ThreadType, OutputInv, ThreadRemembers
  <2>2. wpc'[u] = "stored" => proc[wdoc[u]] # "none"
    BY <1>1 DEF OutputInv, ThreadRemembers
  <2> QED
    BY <1>1, <2>1, <2>2, RowsOnlyGrow
<1>2. ASSUME NEW t \in Threads, Worker(t)
      PROVE  /\ status'[wdoc'[u]] # "absent"
             /\ wpc'[u] = "stored" => proc'[wdoc'[u]] # "none"
  <2>1. CASE u # t
    BY <1>1, <1>2, <2>1 DEF Worker, CheckLimit, FindNothing, ClaimRow, Upsert, MarkDone,
       StageTransient, StageFails, StoreTransient, StoreFails, RetryLater, GiveUp, Raise,
       CountResult, Live, TypeOK, ThreadType
  <2>2. ASSUME u = t, NEW a \in Articles, ClaimRow(t, a)
        PROVE  status'[wdoc'[u]] # "absent" /\ wpc'[u] = "stages"
    BY <2>2 DEF ClaimRow, TypeOK, RowType, ThreadType
  <2>3. CASE u = t /\ Upsert(t)
    <3>1. wdoc'[u] = wdoc[u] /\ wdoc[u] \in Articles /\ Live(u)
      BY <2>3 DEF Upsert, Live, TypeOK, ThreadType
    <3>2. proc'[wdoc[u]] = "initial" /\ status' = status
      BY <2>3, <3>1 DEF Upsert, TypeOK, RowType
    <3>3. status[wdoc[u]] # "absent"
      BY <3>1 DEF OutputInv, ThreadRemembers
    <3> QED
      BY <3>1, <3>2, <3>3
  <2>4. CASE u = t /\ ~Upsert(t) /\ ~\E a \in Articles : ClaimRow(t, a)
    BY <1>2, <2>4 DEF Worker, CheckLimit, FindNothing, MarkDone, StageTransient, StageFails,
       StoreTransient, StoreFails, RetryLater, GiveUp, Raise, CountResult, Live, TypeOK,
       ThreadType
  <2> QED
    BY <2>1, <2>2, <2>3, <2>4
<1>3. ASSUME NEW d \in Drains,
             StartDrain(d) \/ StartSingleBatch(d) \/ DrainStep(d) \/ Crash(d)
      PROVE  /\ Live(u) /\ wdoc'[u] = wdoc[u]
             /\ wpc'[u] = "stored" => wpc[u] = "stored"
  BY <1>3 DEF StartDrain, StartSingleBatch, DrainStep, CountPending, CountProcessing, Sweep,
     Recount, RecountIdle, EndBatch, Crash, NextBatch, OpenBatch, CloseBatch, threads, Live,
     Pool
<1>4. ASSUME NEW h \in Healers, HealStep(h)
      PROVE  Live(u) /\ wdoc' = wdoc /\ wpc' = wpc
  BY <1>4 DEF HealStep, HealLook, HealMark, HealSwallow, HealStops, HealStale,
     FindTransient,
     RetryTransient, threads, Live
<1>5. CASE Operator \/ \E b \in Articles : InsertRaw(b) \/ GrowStale(b)
  <2>1. Live(u) /\ wdoc' = wdoc /\ wpc' = wpc
    BY <1>5 DEF Operator, MarkForReprocess, RequeueStaleNow, RequeueStale, Stale,
       RequeueAllFailed, DeleteAllFailed, RequeueById,
       DeleteRaw, DeleteProcessed, Moderate, InsertRaw, GrowStale, Command, threads, Live
  <2> QED
    BY <1>1, <2>1
<1> QED
  BY <1>1, <1>2, <1>3, <1>4, <1>5 DEF Next

(* What a repair job read of the outputs stays true until it acts on it.     *)
LEMMA HealerStep ==
  ASSUME TypeOK, OutputInv, Next, NEW g \in Healers, hpc'[g] = "mark",
         NEW a \in hfound'[g]
  PROVE  proc'[a] # "none"
<1>1. CASE hpc[g] = "mark" /\ hfound'[g] = hfound[g]
  BY <1>1, RowsOnlyGrow DEF OutputInv, HealerRemembers, TypeOK, HealType
<1>2. ASSUME NEW h \in Healers, HealStep(h) PROVE proc'[a] # "none"
  <2>1. CASE g # h
    BY <1>1, <1>2, <2>1 DEF HealStep, HealLook, HealMark, HealSwallow, HealStops, HealStale,
       FindTransient, RetryTransient, HealTo, TypeOK, HealType
  <2>2. CASE g = h
    <3>1. HealLook(g)
      BY <1>2, <2>2 DEF HealStep, HealMark, HealSwallow, HealStops, HealStale,
         FindTransient,
         RetryTransient, HealTo, TypeOK, HealType
    <3> QED
      BY <3>1 DEF HealLook, HealTo, Stored, rows, TypeOK, HealType
  <2> QED
    BY <2>1, <2>2
<1>3. CASE UNCHANGED heals
  BY <1>1, <1>3 DEF heals
<1>4. CASE \/ \E t \in Threads : Worker(t)
           \/ \E d \in Drains :
                StartDrain(d) \/ StartSingleBatch(d) \/ DrainStep(d) \/ Crash(d)
           \/ \E b \in Articles : InsertRaw(b) \/ GrowStale(b)
           \/ Operator
  <2>1. UNCHANGED heals
    BY <1>4 DEF Worker, CheckLimit, FindNothing, ClaimRow, Upsert, MarkDone, StageTransient,
       StageFails, StoreTransient, StoreFails, RetryLater, GiveUp, Raise, CountResult,
       StartDrain, StartSingleBatch, DrainStep, CountPending, CountProcessing, Sweep,
       Recount, RecountIdle, EndBatch, Crash, InsertRaw, GrowStale, Operator,
       MarkForReprocess, RequeueStaleNow, RequeueStale, Stale, RequeueAllFailed,
       DeleteAllFailed, RequeueById, DeleteRaw,
       DeleteProcessed, Moderate, Command
  <2> QED
    BY <1>3, <2>1
<1> QED
  BY <1>2, <1>4 DEF Next

(* No row is done and nobody remembers anything at the start.                *)
LEMMA InitOutput == Init => OutputInv
  BY DEF Init, OutputInv, DoneHasOutput, ThreadRemembers, HealerRemembers, With, Live

(* The invariant behind DoneHasOutput is kept by every step.                 *)
LEMMA OutputStep == TypeOK /\ OutputInv /\ [Next]_vars => OutputInv'
<1> SUFFICES ASSUME TypeOK, OutputInv, [Next]_vars PROVE OutputInv'
  OBVIOUS
<1>1. CASE Next
  <2>1. DoneHasOutput'
    BY <1>1, DoneStep DEF DoneHasOutput, With
  <2>2. ThreadRemembers'
    BY <1>1, ThreadStep DEF ThreadRemembers, Threads
  <2>3. HealerRemembers'
    BY <1>1, HealerStep DEF HealerRemembers
  <2> QED
    BY <2>1, <2>2, <2>3 DEF OutputInv
<1>2. CASE UNCHANGED vars
  BY <1>2 DEF vars, rows, threads, heals, OutputInv, DoneHasOutput, ThreadRemembers,
              HealerRemembers, With, Live
<1> QED
  BY <1>1, <1>2

(* A done row has had its output stored, whatever drains, repair jobs,       *)
(* operators and crashes do: the worker's order of calls is enough.          *)
THEOREM DoneHasOutputAlways == Spec => []DoneHasOutput
<1>1. OutputInv => DoneHasOutput
  BY DEF OutputInv
<1> QED
  BY TypeCorrect, InitOutput, OutputStep, <1>1, PTL DEF Spec

----------------------------------------------------------------------------
(* The sweep of a drain: no thread of its own outlives the batch.            *)
PoolQuiet == \A d \in Drains : dpc[d] \notin {"batch", "single"} =>
               \A t \in Pool(d) : wpc[t] = "idle"

(* Outside a batch the threads of a drain stay idle.                         *)
LEMMA QuietStep ==
  ASSUME TypeOK, PoolQuiet, Next, NEW e \in Drains, dpc'[e] \notin {"batch", "single"},
         NEW u \in Pool(e)
  PROVE  wpc'[u] = "idle"
<1> USE DEF Pool, TypeOK, DrainType, ThreadType, Threads
<1>1. CASE dpc'[e] = dpc[e] /\ (wpc[u] = "idle" => wpc'[u] = wpc[u])
  BY <1>1 DEF PoolQuiet
<1>2. ASSUME NEW t \in Threads, Worker(t) PROVE wpc'[u] = "idle"
  <2>1. dpc' = dpc
    BY <1>2 DEF Worker, CheckLimit, FindNothing, ClaimRow, Upsert, MarkDone, StageTransient,
       StageFails, StoreTransient, StoreFails, RetryLater, GiveUp, Raise, CountResult,
       drains
  <2>2. wpc[t] # "idle" /\ \A v \in Threads : v # t => wpc'[v] = wpc[v]
    BY <1>2 DEF Worker, CheckLimit, FindNothing, ClaimRow, Upsert, MarkDone, StageTransient,
       StageFails, StoreTransient, StoreFails, RetryLater, GiveUp, Raise, CountResult
  <2> QED
    BY <1>1, <2>1, <2>2
<1>3. ASSUME NEW d \in Drains,
             StartDrain(d) \/ StartSingleBatch(d) \/ DrainStep(d) \/ Crash(d)
      PROVE  wpc'[u] = "idle"
  <2>1. CASE d # e
    <3>1. dpc'[e] = dpc[e] /\ wpc'[u] = wpc[u]
      BY <1>3, <2>1 DEF StartDrain, StartSingleBatch, DrainStep, CountPending,
         CountProcessing, Sweep, Recount, RecountIdle, EndBatch, Crash, NextBatch,
         OpenBatch,
         CloseBatch, GoTo, threads
    <3> QED
      BY <1>1, <3>1
  <2>2. CASE d = e /\ (EndBatch(e) \/ Crash(e))
    BY <2>2 DEF EndBatch, Crash, CloseBatch
  <2>3. CASE d = e /\ dpc[e] \notin {"batch", "single"} /\ UNCHANGED wpc
    BY <2>3 DEF PoolQuiet
  <2>4. CASE d = e /\ ~(EndBatch(e) \/ Crash(e))
    BY <1>3, <2>3, <2>4 DEF StartDrain, StartSingleBatch, DrainStep, CountPending,
       CountProcessing, Sweep, Recount, RecountIdle, NextBatch, OpenBatch, GoTo, threads
  <2> QED
    BY <2>1, <2>2, <2>4
<1>4. CASE \/ \E h \in Healers : HealStep(h)
           \/ \E b \in Articles : InsertRaw(b) \/ GrowStale(b)
           \/ Operator
  <2>1. dpc' = dpc /\ wpc' = wpc
    BY <1>4 DEF HealStep, HealLook, HealMark, HealSwallow, HealStops, HealStale,
       FindTransient,
       RetryTransient, InsertRaw, GrowStale, Operator, MarkForReprocess, RequeueStaleNow,
       RequeueStale, Stale, RequeueAllFailed,
       DeleteAllFailed, RequeueById, DeleteRaw, DeleteProcessed, Moderate, Command, drains,
       threads
  <2> QED
    BY <1>1, <2>1
<1> QED
  BY <1>2, <1>3, <1>4 DEF Next

(* A drain that is in no batch has no thread at work, in every state.        *)
LEMMA QuietAlways == Spec => []PoolQuiet
<1>1. Init => PoolQuiet
  BY DEF Init, PoolQuiet, Pool
<1>2. TypeOK /\ PoolQuiet /\ [Next]_vars => PoolQuiet'
  <2>1. TypeOK /\ PoolQuiet /\ Next => PoolQuiet'
    BY QuietStep DEF PoolQuiet, Pool, Threads
  <2>2. PoolQuiet /\ UNCHANGED vars => PoolQuiet'
    BY DEF PoolQuiet, Pool, vars, threads, drains
  <2> QED
    BY <2>1, <2>2
<1> QED
  BY TypeCorrect, <1>1, <1>2, PTL DEF Spec

(* The sweep at the end of a batch never takes a row from a thread of the    *)
(* same drain, since the pool is left only when every thread has returned.   *)
THEOREM SweepSparesOwnAlways == Spec => SweepSparesOwn
<1>1. PoolQuiet =>
        \A d \in Drains : Sweeping(d) => \A t \in Pool(d) : Live(t) => ~Taken(wdoc[t])
  BY DEF PoolQuiet, Sweeping, Live
<1> QED
  BY QuietAlways, <1>1, PTL DEF SweepSparesOwn

----------------------------------------------------------------------------
(* The queue implements ArticleLifecycle: each step is a step of the life    *)
(* cycle or leaves it alone.                                                 *)
StageBar  == [a \in Articles |-> IF status[a] \in {"pending", "processing"} THEN "queued"
                                 ELSE status[a]]
StoredBar == {a \in Articles : proc[a] # "none"}
MoveBar(S, s) == StageBar' = [a \in Articles |-> IF a \in S THEN s ELSE StageBar[a]]
Standing(S) == {a \in S : Present(a)}

(* An update_many of status moves the rows that are still there.             *)
LEMMA MoveAll ==
  ASSUME TypeOK, NEW S \in SUBSET Articles, NEW s \in Statuses, status' = SetAll(S, s)
  PROVE  /\ s \in {"pending", "processing"} => MoveBar(Standing(S), "queued")
         /\ s \notin {"pending", "processing"} => MoveBar(Standing(S), s)
  BY DEF TypeOK, RowType, SetAll, StageBar, MoveBar, Standing, Statuses

(* A row that is there is present in the abstract life cycle.                *)
LEMMA PresentBar ==
  ASSUME TypeOK, NEW a \in Articles, Present(a)
  PROVE  a \in Lifecycle!Present
  BY DEF TypeOK, RowType, Present, Lifecycle!Present

(* One update of several rows is one abstract step.                          *)
LEMMA ManyBar ==
  ASSUME NEW T \in SUBSET Articles,
         Lifecycle!Finish(T) \/ Lifecycle!Requeue(T) \/ Lifecycle!Delete(T)
  PROVE  Lifecycle!Next
  BY DEF Lifecycle!Next

(* An update_many to pending is an abstract requeue of the rows still there. *)
LEMMA RequeueBar ==
  ASSUME TypeOK, NEW S \in SUBSET Articles, status' = SetAll(S, "pending"), UNCHANGED proc
  PROVE  Lifecycle!Next
<1>1. PICK T \in SUBSET Articles : T = Standing(S)
  BY DEF Standing
<1>2. T \subseteq Lifecycle!Present
  BY <1>1, PresentBar DEF Standing
<1>3. Lifecycle!Requeue(T)
  BY <1>1, <1>2, MoveAll DEF Lifecycle!Requeue, Lifecycle!Move, MoveBar, StageBar, Statuses
<1> QED
  BY <1>3, ManyBar

(* A delete of rows is an abstract delete.                                   *)
LEMMA DeleteBar ==
  ASSUME TypeOK, NEW S \in SUBSET Articles, status' = SetAll(S, "deleted"), UNCHANGED proc
  PROVE  Lifecycle!Next
<1>1. PICK T \in SUBSET Articles : T = Standing(S)
  BY DEF Standing
<1>2. T \subseteq Lifecycle!Present
  BY <1>1, PresentBar DEF Standing
<1>3. Lifecycle!Delete(T)
  BY <1>1, <1>2, MoveAll DEF Lifecycle!Delete, Lifecycle!Move, MoveBar, StageBar, Statuses
<1> QED
  BY <1>3, ManyBar

(* Marking rows done is an abstract finish, once their output was stored.    *)
LEMMA FinishBar ==
  ASSUME TypeOK, NEW S \in SUBSET Articles, \A a \in S : proc[a] # "none",
         status' = SetAll(S, "done"), UNCHANGED proc
  PROVE  Lifecycle!Next
<1>1. PICK T \in SUBSET Articles : T = Standing(S)
  BY DEF Standing
<1>2. T \subseteq Lifecycle!Present
  BY <1>1, PresentBar DEF Standing
<1>3. Lifecycle!Finish(T)
  BY <1>1, <1>2, MoveAll DEF Lifecycle!Finish, Lifecycle!Move, MoveBar, StageBar,
     Statuses, Standing
<1> QED
  BY <1>3, ManyBar

(* Marking a row failed is an abstract failure, or nothing if it is gone.    *)
LEMMA FailBar ==
  ASSUME TypeOK, NEW a \in Articles, status' = SetAll({a}, "failed"), UNCHANGED proc
  PROVE  [Lifecycle!Next]_(Lifecycle!vars)
<1>1. MoveBar(Standing({a}), "failed")
  BY MoveAll DEF Statuses
<1>2. CASE Present(a)
  <2>1. Lifecycle!Fail(a)
    BY <1>1, <1>2, PresentBar DEF Lifecycle!Fail, Lifecycle!Move, MoveBar, StageBar,
       Standing
  <2> QED
    BY <2>1 DEF Lifecycle!Next
<1>3. CASE ~Present(a)
  BY <1>3 DEF SetAll, TypeOK, RowType, Lifecycle!vars
<1> QED
  BY <1>2, <1>3

(* A step that leaves both mapped variables alone is a stutter.              *)
LEMMA QuietBar ==
  ASSUME StageBar' = StageBar, StoredBar' = StoredBar
  PROVE  UNCHANGED Lifecycle!vars
  BY DEF StageBar, StoredBar, Lifecycle!vars

(* Every step of a worker thread maps to an abstract step or a stutter.      *)
LEMMA WorkerBar ==
  ASSUME TypeOK, OutputInv, NEW t \in Threads, Worker(t)
  PROVE  [Lifecycle!Next]_(Lifecycle!vars)
<1> USE DEF rows
<1>1. ASSUME Live(t) PROVE wdoc[t] \in Articles /\ status[wdoc[t]] # "absent"
  BY <1>1 DEF TypeOK, ThreadType, OutputInv, ThreadRemembers
<1>2. CASE CheckLimit(t) \/ FindNothing(t) \/ Raise(t) \/ CountResult(t)
  BY <1>2, QuietBar DEF CheckLimit, FindNothing, Raise, CountResult, StageBar, StoredBar
<1>3. ASSUME NEW a \in Articles, ClaimRow(t, a) PROVE UNCHANGED Lifecycle!vars
  BY <1>3, QuietBar DEF ClaimRow, With, StageBar, StoredBar, TypeOK, RowType
<1>4. CASE Upsert(t)
  <2>1. PICK a \in Articles : a = wdoc[t]
    BY <1>1, <1>4 DEF Upsert, Live
  <2>2. Lifecycle!Store(a)
    BY <1>1, <1>4, <2>1 DEF Upsert, Live, Lifecycle!Store, TypeOK, RowType
  <2> QED
    BY <2>2 DEF Lifecycle!Next
<1>5. CASE MarkDone(t)
  <2>1. wdoc[t] \in Articles /\ proc[wdoc[t]] # "none"
    BY <1>1, <1>5 DEF MarkDone, Live, OutputInv, ThreadRemembers
  <2> QED
    BY <1>5, <2>1, FinishBar DEF MarkDone
<1>6. CASE RetryLater(t) /\ Live(t)
  BY <1>1, <1>6, RequeueBar DEF RetryLater
<1>7. CASE GiveUp(t) /\ Live(t)
  <2>1. PICK a \in Articles : a = wdoc[t]
    BY <1>1, <1>7
  <2> QED
    BY <1>7, <2>1, FailBar DEF GiveUp
<1> QED
  BY <1>2, <1>3, <1>4, <1>5, <1>6, <1>7
  DEF Worker, StageTransient, StageFails, StoreTransient, StoreFails, Live

(* Every step of a drain maps to a requeue or a stutter.                     *)
LEMMA DrainBar ==
  ASSUME TypeOK, NEW d \in Drains,
         StartDrain(d) \/ StartSingleBatch(d) \/ DrainStep(d) \/ Crash(d)
  PROVE  UNCHANGED Lifecycle!vars
<1> USE DEF rows, StageBar, StoredBar
<1>1. CASE Sweep(d)
  BY <1>1, QuietBar DEF Sweep, RequeueAbandoned, SetAll, With, Present, TypeOK, RowType
<1>2. CASE ~Sweep(d)
  BY <1>2, QuietBar DEF StartDrain, StartSingleBatch, DrainStep, CountPending,
     CountProcessing, Recount, RecountIdle, EndBatch, Crash
<1> QED
  BY <1>1, <1>2

(* Every step of a repair job maps to a finish, a requeue or a stutter.      *)
LEMMA HealBar ==
  ASSUME TypeOK, OutputInv, NEW h \in Healers, HealStep(h)
  PROVE  [Lifecycle!Next]_(Lifecycle!vars)
<1> USE DEF rows
<1>1. CASE HealLook(h) \/ HealSwallow(h) \/ HealStops(h) \/ FindTransient(h)
  BY <1>1, QuietBar DEF HealLook, HealSwallow, HealStops, FindTransient, StageBar, StoredBar
<1>2. CASE HealMark(h)
  BY <1>2, FinishBar DEF HealMark, TypeOK, HealType, OutputInv, HealerRemembers
<1>3. CASE HealStale(h)
  BY <1>3, RequeueBar DEF HealStale, RequeueStale, Stale, With
<1>4. CASE RetryTransient(h)
  BY <1>4, RequeueBar DEF RetryTransient, TypeOK, HealType
<1> QED
  BY <1>1, <1>2, <1>3, <1>4 DEF HealStep

(* Operators, new articles and time map to abstract steps or stutters.       *)
LEMMA OutsideBar ==
  ASSUME TypeOK, Operator \/ \E a \in Articles : InsertRaw(a) \/ GrowStale(a)
  PROVE  [Lifecycle!Next]_(Lifecycle!vars)
<1>1. CASE MarkForReprocess
  BY <1>1, RequeueBar DEF MarkForReprocess, With
<1>2. CASE RequeueAllFailed \/ RequeueStaleNow
  BY <1>2, RequeueBar DEF RequeueAllFailed, RequeueStaleNow, RequeueStale, Stale, With
<1>3. CASE DeleteAllFailed
  BY <1>3, DeleteBar DEF DeleteAllFailed, With
<1>4. ASSUME NEW a \in Articles, RequeueById(a) PROVE Lifecycle!Next
  BY <1>4, RequeueBar DEF RequeueById
<1>5. ASSUME NEW a \in Articles, DeleteRaw(a) PROVE Lifecycle!Next
  BY <1>5, DeleteBar DEF DeleteRaw
<1>6. ASSUME NEW a \in Articles, DeleteProcessed(a) \/ Moderate(a) \/ GrowStale(a)
      PROVE  UNCHANGED Lifecycle!vars
  BY <1>6, QuietBar
  DEF DeleteProcessed, Moderate, GrowStale, Stored, StageBar, StoredBar, TypeOK, RowType
<1>7. ASSUME NEW a \in Articles, InsertRaw(a) PROVE Lifecycle!Next
  <2>1. Lifecycle!Arrive(a)
    BY <1>7 DEF InsertRaw, Lifecycle!Arrive, Lifecycle!Move, TypeOK, RowType
  <2> QED
    BY <2>1 DEF Lifecycle!Next
<1> QED
  BY <1>1, <1>2, <1>3, <1>4, <1>5, <1>6, <1>7 DEF Operator

(* The pipeline implements the life cycle of an article: no interleaving of  *)
(* its actors makes a row do anything the abstract specification forbids.    *)
THEOREM ImplementsLifecycle == Spec => LifecycleSafe
<1>1. Init => Lifecycle!Init
  BY DEF Init, Lifecycle!Init
<1>2. TypeOK /\ OutputInv /\ [Next]_vars => [Lifecycle!Next]_(Lifecycle!vars)
  <2>1. TypeOK /\ OutputInv /\ Next => [Lifecycle!Next]_(Lifecycle!vars)
    BY WorkerBar, DrainBar, HealBar, OutsideBar DEF Next
  <2>2. UNCHANGED vars => UNCHANGED Lifecycle!vars
    BY QuietBar DEF vars, rows, StageBar, StoredBar
  <2> QED
    BY <2>1, <2>2
<1> QED
  BY TypeCorrect, InitOutput, OutputStep, <1>1, <1>2, PTL
  DEF Spec, LifecycleSafe, Lifecycle!Safe
----------------------------------------------------------------------------
(* The overshoot of a batch: the limit is read before the claim, so what a   *)
(* thread past that test may still add has to be counted from the test on.   *)
AtWork  == {"claim", "stages", "stored", "count"}
Busy(d) == {t \in Pool(d) : wpc[t] \in AtWork}

WithinLimit(d) ==
  dpc[d] \in {"batch", "single"} =>
    counted[d] + Cardinality(Busy(d)) <= limit[d] + Cardinality(Slots) - 1
WithinMax(d) ==
  dpc[d] = "batch" /\ MaxArticles > 0 => total[d] + limit[d] <= MaxArticles
BatchInv == \A d \in Drains : WithinLimit(d) /\ WithinMax(d)

(* A pool has one thread for each slot.                                      *)
LEMMA PoolSize ==
  ASSUME NEW d \in Drains
  PROVE  /\ IsFiniteSet(Pool(d)) /\ Cardinality(Pool(d)) = Cardinality(Slots)
         /\ Cardinality(Slots) \in Nat
<1>1. Pool(d) = {d} \X Slots
  BY DEF Pool, Threads
<1>2. IsFiniteSet({d}) /\ Cardinality({d}) = 1 /\ IsFiniteSet(Slots)
  BY FS_Singleton, QueueAssumption
<1>3. Cardinality(Slots) \in Nat
  BY <1>2, FS_CardinalityType
<1>4. IsFiniteSet({d} \X Slots) /\ Cardinality({d} \X Slots) = 1 * Cardinality(Slots)
  BY <1>2, FS_Product, Zenon
<1> QED
  BY <1>1, <1>3, <1>4

(* The threads of a pool that are at one of some places can be counted.      *)
LEMMA PoolCount ==
  ASSUME NEW d \in Drains, NEW B, B \subseteq Pool(d)
  PROVE  /\ IsFiniteSet(B) /\ Cardinality(B) \in Nat
         /\ Cardinality(B) <= Cardinality(Slots)
  BY PoolSize, FS_Subset, FS_CardinalityType

(* What a step of _worker_loop does to the busy threads of its drain.        *)
LEMMA WorkerBusy ==
  ASSUME TypeOK, NEW t \in Threads, Worker(t)
  PROVE  /\ UNCHANGED <<dpc, limit, total>>
         /\ \A u \in Threads : u # t => wpc'[u] = wpc[u]
         /\ \/ /\ counted[t[1]] < limit[t[1]] /\ wpc'[t] = "claim" /\ counted' = counted
            \/ wpc'[t] \in AtWork /\ wpc[t] \in AtWork /\ counted' = counted
            \/ wpc'[t] \notin AtWork /\ counted' = counted
            \/ /\ wpc[t] = "count" /\ wpc'[t] = "check"
               /\ counted' = [counted EXCEPT ![t[1]] = counted[t[1]] + 1]
<1> USE DEF TypeOK, ThreadType, DrainType, drains, AtWork, Threads
<1>1. CASE CheckLimit(t)
  BY <1>1 DEF CheckLimit
<1>2. CASE FindNothing(t) \/ \E a \in Articles : ClaimRow(t, a)
  BY <1>2 DEF FindNothing, ClaimRow
<1>3. CASE Upsert(t) \/ MarkDone(t)
  BY <1>3 DEF Upsert, MarkDone
<1>4. CASE StageTransient(t) \/ StoreTransient(t)
  BY <1>4 DEF StageTransient, StoreTransient, RetryLater
<1>5. CASE StageFails(t) \/ StoreFails(t)
  BY <1>5 DEF StageFails, StoreFails, GiveUp
<1>6. CASE Raise(t)
  BY <1>6 DEF Raise
<1>7. CASE CountResult(t)
  BY <1>7 DEF CountResult
<1> QED
  BY <1>1, <1>2, <1>3, <1>4, <1>5, <1>6, <1>7 DEF Worker

(* A step of a thread keeps its batch within the overshoot.                  *)
LEMMA WorkerWithin ==
  ASSUME TypeOK, BatchInv, NEW t \in Threads, Worker(t), NEW d \in Drains
  PROVE  (WithinLimit(d) /\ WithinMax(d))'
<1>1. /\ UNCHANGED <<dpc, limit, total>>
      /\ \A u \in Threads : u # t => wpc'[u] = wpc[u]
  BY WorkerBusy
<1>2. WithinMax(d)'
  BY <1>1 DEF BatchInv, WithinMax
<1>3. CASE t \notin Pool(d)
  <2>1. t[1] # d
    BY <1>3 DEF Pool
  <2>2. Busy(d)' = Busy(d)
    BY <1>1, <1>3 DEF Busy, Pool
  <2>3. counted'[d] = counted[d]
    BY <2>1, WorkerBusy DEF TypeOK, DrainType
  <2> QED
    BY <1>1, <1>2, <2>2, <2>3 DEF BatchInv, WithinLimit
<1>4. CASE t \in Pool(d)
  <2>1. t[1] = d /\ Pool(d) \subseteq Threads /\ Busy(d) \subseteq Pool(d)
    BY <1>4 DEF Pool, Busy
  <2>2. counted[d] \in Nat /\ limit[d] \in Nat
    BY DEF TypeOK, DrainType
  <2>3. IsFiniteSet(Busy(d)) /\ Cardinality(Busy(d)) \in Nat /\ Cardinality(Slots) \in Nat
    BY <2>1, PoolCount, PoolSize
  <2>4. Busy(d)' \subseteq Pool(d) /\ Cardinality(Busy(d)') <= Cardinality(Slots)
        /\ Cardinality(Busy(d)') \in Nat
    <3>1. Busy(d)' \subseteq Pool(d)
      BY DEF Busy, Pool
    <3> QED
      BY <3>1, PoolCount
  <2>5. CASE counted[d] < limit[d] /\ counted' = counted
    BY <1>1, <1>2, <2>2, <2>3, <2>4, <2>5 DEF WithinLimit
  <2>6. CASE Busy(d)' \subseteq Busy(d) /\ counted' = counted
    <3>1. Cardinality(Busy(d)') <= Cardinality(Busy(d))
      BY <2>3, <2>6, FS_Subset
    <3> QED
      BY <1>1, <1>2, <2>2, <2>3, <2>4, <2>6, <3>1 DEF BatchInv, WithinLimit
  <2>7. CASE /\ wpc[t] = "count" /\ wpc'[t] = "check"
             /\ counted' = [counted EXCEPT ![d] = counted[d] + 1]
    <3>1. t \in Busy(d) /\ Busy(d)' = Busy(d) \ {t}
      BY <1>1, <1>4, <2>1, <2>7 DEF Busy, Pool, AtWork
    <3>2. Cardinality(Busy(d)') = Cardinality(Busy(d)) - 1
      BY <2>3, <3>1, FS_RemoveElement
    <3>3. counted'[d] = counted[d] + 1
      BY <2>7 DEF TypeOK, DrainType
    <3> QED
      BY <1>1, <1>2, <2>2, <2>3, <2>4, <3>2, <3>3 DEF BatchInv, WithinLimit
  <2>8. wpc'[t] \notin AtWork \/ wpc[t] \in AtWork => Busy(d)' \subseteq Busy(d)
    BY <1>1, <2>1 DEF Busy, Pool
  <2> QED
    BY <2>1, <2>5, <2>6, <2>7, <2>8, WorkerBusy
<1> QED
  BY <1>3, <1>4

(* A new batch has counted nothing and its limit is at least one.            *)
LEMMA OpensWithin ==
  ASSUME TypeOK, BatchInv, NEW d \in Drains, NEW n \in Nat, n >= 1,
         NEW pc \in {"batch", "single"}, OpenBatch(d, pc, n), UNCHANGED total,
         pc = "batch" /\ MaxArticles > 0 => total[d] + n <= MaxArticles
  PROVE  BatchInv'
<1>1. SUFFICES ASSUME NEW e \in Drains PROVE (WithinLimit(e) /\ WithinMax(e))'
  BY DEF BatchInv
<1>2. CASE e = d
  <2>1. dpc'[d] = pc /\ limit'[d] = n /\ counted'[d] = 0
    BY DEF OpenBatch, TypeOK, DrainType
  <2>2. Busy(d)' = {}
    BY DEF OpenBatch, Busy, Pool, AtWork
  <2>3. Cardinality(Busy(d)') = 0 /\ Cardinality(Slots) \in Nat
    BY <2>2, FS_EmptySet, PoolSize
  <2> QED
    BY <1>2, <2>1, <2>3 DEF WithinLimit, WithinMax
<1>3. CASE e # d
  <2>1. dpc'[e] = dpc[e] /\ limit'[e] = limit[e] /\ counted'[e] = counted[e]
    BY <1>3 DEF OpenBatch, TypeOK, DrainType
  <2>2. Busy(e)' = Busy(e)
    BY <1>3 DEF OpenBatch, Busy, Pool
  <2> QED
    BY <2>1, <2>2 DEF BatchInv, WithinLimit, WithinMax
<1> QED
  BY <1>2, <1>3

(* The limit run_until_empty computes is at least one and within what is     *)
(* left of max_articles.                                                     *)
LEMMA NextBatchWithin ==
  ASSUME TypeOK, BatchInv, NEW d \in Drains, NextBatch(d), With("pending") # {}
  PROVE  BatchInv' \/ (dpc' = [dpc EXCEPT ![d] = "off"] /\ UNCHANGED <<limit, counted, wpc>>
                       /\ total' = [total EXCEPT ![d] = 0])
<1>1. CASE GoTo(d, "off") /\ UNCHANGED threads
  BY <1>1 DEF GoTo, threads
<1>2. CASE ~(MaxArticles > 0 /\ total[d] >= MaxArticles)
  <2>1. Cardinality(With("pending")) \in Nat /\ Cardinality(With("pending")) # 0
    <3>1. IsFiniteSet(With("pending"))
      BY QueueAssumption, FS_Subset DEF With
    <3> QED
      BY <3>1, CountType, FS_EmptySet
  <2>2. total[d] \in Nat /\ MaxArticles \in Nat /\ BatchSize \in Nat \ {0}
    BY QueueAssumption DEF TypeOK, DrainType
  <2> DEFINE left == Cardinality(With("pending"))
             room == IF MaxArticles - total[d] > 1 THEN MaxArticles - total[d] ELSE 1
             m    == Smaller(BatchSize, left)
             n    == IF MaxArticles > 0 THEN Smaller(m, room) ELSE m
  <2>3. m \in Nat /\ m >= 1
    BY <2>1, <2>2 DEF Smaller
  <2>4. room \in Nat /\ room >= 1 /\ (MaxArticles > 0 => total[d] + room <= MaxArticles)
    BY <1>2, <2>2
  <2>5. n \in Nat /\ n >= 1 /\ (MaxArticles > 0 => total[d] + n <= MaxArticles)
    <3> HIDE DEF m, room
    <3> QED
      BY <2>2, <2>3, <2>4 DEF Smaller
  <2>6. OpenBatch(d, "batch", n) /\ UNCHANGED total
    BY <1>2 DEF NextBatch
  <2> HIDE DEF n
  <2> QED
    BY <2>5, <2>6, OpensWithin
<1> QED
  BY <1>1, <1>2 DEF NextBatch

(* A drain that is in no batch after a step has nothing to keep.             *)
LEMMA LeavesWithin ==
  ASSUME TypeOK, BatchInv, NEW d \in Drains, dpc'[d] \notin {"batch", "single"},
         \A e \in Drains : e # d =>
           /\ dpc'[e] = dpc[e] /\ limit'[e] = limit[e]
           /\ counted'[e] = counted[e] /\ total'[e] = total[e]
           /\ \A t \in Pool(e) : wpc'[t] = wpc[t]
  PROVE  BatchInv'
<1>1. SUFFICES ASSUME NEW e \in Drains, e # d PROVE (WithinLimit(e) /\ WithinMax(e))'
  BY DEF BatchInv, WithinLimit, WithinMax
<1>2. Busy(e)' = Busy(e)
  BY <1>1 DEF Busy, Pool
<1> QED
  BY <1>1, <1>2 DEF BatchInv, WithinLimit, WithinMax

(* A step of a drain keeps every batch within the overshoot.                 *)
LEMMA DrainWithin ==
  ASSUME TypeOK, BatchInv, NEW d \in Drains,
         StartDrain(d) \/ StartSingleBatch(d) \/ DrainStep(d) \/ Crash(d)
  PROVE  BatchInv'
<1> USE DEF TypeOK, DrainType, ThreadType, threads
<1>1. CASE StartDrain(d) \/ CountProcessing(d) \/ Sweep(d) \/ RecountIdle(d)
  BY <1>1, LeavesWithin DEF StartDrain, CountProcessing, Sweep, RecountIdle, GoTo, Pool
<1>2. CASE StartSingleBatch(d)
  BY <1>2, OpensWithin, QueueAssumption DEF StartSingleBatch
<1>3. CASE EndBatch(d)
  <2>1. dpc'[d] \notin {"batch", "single"}
    BY <1>3 DEF EndBatch
  <2>2. \A e \in Drains : e # d => \A t \in Pool(e) : wpc'[t] = wpc[t]
    BY <1>3 DEF EndBatch, CloseBatch, Pool
  <2> QED
    BY <1>3, <2>1, <2>2, LeavesWithin DEF EndBatch
<1>4. CASE Crash(d)
  <2>1. \A e \in Drains : e # d => \A t \in Pool(e) : wpc'[t] = wpc[t]
    BY <1>4 DEF Crash, CloseBatch, Pool
  <2> QED
    BY <1>4, <2>1, LeavesWithin DEF Crash
<1>5. CASE CountPending(d) \/ Recount(d)
  <2>1. CASE With("pending") = {}
    BY <1>5, <2>1, LeavesWithin DEF CountPending, Recount, GoTo, Pool
  <2>2. CASE With("pending") # {}
    <3>1. NextBatch(d)
      BY <1>5, <2>2 DEF CountPending, Recount
    <3> QED
      BY <2>2, <3>1, NextBatchWithin, LeavesWithin DEF Pool
  <2> QED
    BY <2>1, <2>2
<1> QED
  BY <1>1, <1>2, <1>3, <1>4, <1>5 DEF DrainStep

(* A step that leaves the drains and their threads alone keeps the counts.   *)
LEMMA StillWithin ==
  ASSUME BatchInv, UNCHANGED <<wpc, drains>>
  PROVE  BatchInv'
  BY DEF BatchInv, WithinLimit, WithinMax, Busy, Pool, drains

(* Repair jobs, operators, scrapers and time touch no drain and no thread.   *)
LEMMA OthersLeaveDrains ==
  ASSUME \/ \E h \in Healers : HealStep(h)
         \/ \E a \in Articles : InsertRaw(a) \/ GrowStale(a)
         \/ Operator
  PROVE  UNCHANGED <<threads, drains>>
<1>1. CASE \E h \in Healers : HealStep(h)
  BY <1>1 DEF HealStep, HealLook, HealMark, HealSwallow, HealStops, HealStale, FindTransient,
     RetryTransient
<1>2. CASE Operator \/ \E a \in Articles : InsertRaw(a) \/ GrowStale(a)
  BY <1>2 DEF InsertRaw, GrowStale, Operator, MarkForReprocess, RequeueStaleNow,
     RequeueAllFailed, DeleteAllFailed, RequeueById, DeleteRaw, DeleteProcessed, Moderate,
     Command
<1> QED
  BY <1>1, <1>2

(* The bound on a batch is kept by every step.                               *)
LEMMA BatchStep == TypeOK /\ BatchInv /\ [Next]_vars => BatchInv'
<1> SUFFICES ASSUME TypeOK, BatchInv, [Next]_vars PROVE BatchInv'
  OBVIOUS
<1>1. CASE UNCHANGED vars
  BY <1>1, StillWithin DEF vars, threads
<1>2. ASSUME NEW t \in Threads, Worker(t) PROVE BatchInv'
  BY <1>2, WorkerWithin DEF BatchInv
<1>3. CASE \/ \E h \in Healers : HealStep(h)
           \/ \E a \in Articles : InsertRaw(a) \/ GrowStale(a)
           \/ Operator
  BY <1>3, OthersLeaveDrains, StillWithin DEF threads
<1> QED
  BY <1>1, <1>2, <1>3, DrainWithin DEF Next

(* No batch counts, or has in its threads' hands, as much as a full pool     *)
(* above its limit, and no run_until_empty that much above max_articles,     *)
(* whatever other drains, repair jobs and operators do meanwhile.            *)
THEOREM BatchOvershootAlways == Spec => []BatchOvershoot
<1>1. Init => BatchInv
  BY DEF Init, BatchInv, WithinLimit, WithinMax
<1>2. TypeOK /\ BatchInv => BatchOvershoot
  <2> SUFFICES ASSUME TypeOK, BatchInv, NEW d \in Drains
               PROVE  /\ dpc[d] \in {"batch", "single"} =>
                           counted[d] + InHand(d) <= limit[d] + Cardinality(Slots) - 1
                      /\ dpc[d] = "batch" /\ MaxArticles > 0 =>
                           total[d] + counted[d] + InHand(d)
                             <= MaxArticles + Cardinality(Slots) - 1
    BY DEF BatchOvershoot
  <2>1. Busy(d) \subseteq Pool(d) /\ {t \in Pool(d) : Live(t) \/ wpc[t] = "count"} \subseteq Busy(d)
    BY DEF Busy, Live, AtWork
  <2>2. InHand(d) \in Nat /\ Cardinality(Busy(d)) \in Nat /\ InHand(d) <= Cardinality(Busy(d))
    <3>1. IsFiniteSet(Busy(d)) /\ Cardinality(Busy(d)) \in Nat
      BY <2>1, PoolCount
    <3> QED
      BY <2>1, <3>1, FS_Subset, FS_CardinalityType DEF InHand
  <2>3. /\ counted[d] \in Nat /\ limit[d] \in Nat /\ total[d] \in Nat
        /\ Cardinality(Slots) \in Nat /\ MaxArticles \in Nat
    BY PoolSize, QueueAssumption DEF TypeOK, DrainType
  <2> QED
    BY <2>2, <2>3 DEF BatchInv, WithinLimit, WithinMax
<1> QED
  BY TypeCorrect, <1>1, BatchStep, <1>2, PTL DEF Spec

----------------------------------------------------------------------------
(* One drain and one repair job at a time, whoever runs them, and no row     *)
(* beyond the cutoff: what the dashboard and the drain's own report may then *)
(* rely on.                                                                  *)
InTurn == /\ \A d, e \in Drains : dpc[d] # "off" /\ dpc[e] # "off" => d = e
          /\ \A g, h \in Healers : hpc[g] # "idle" /\ hpc[h] # "idle" => g = h

(* Who starts or goes on finds the other drains and their threads at rest.   *)
LEMMA OthersRest ==
  ASSUME TypeOK, PoolQuiet, InTurn, InTurn', NEW d \in Drains,
         StartDrain(d) \/ StartSingleBatch(d) \/ DrainStep(d) \/ Crash(d)
  PROVE  /\ \A e \in Drains : e # d => dpc[e] = "off" /\ dpc'[e] = "off"
         /\ \A t \in Threads : t \notin Pool(d) => wpc[t] = "idle"
<1> USE DEF TypeOK, DrainType, GoTo, OpenBatch
<1>1. CASE dpc[d] # "off"
  <2>1. \A e \in Drains : e # d => dpc[e] = "off" /\ dpc'[e] = dpc[e]
    BY <1>1 DEF InTurn, StartDrain, StartSingleBatch, DrainStep, CountPending,
       CountProcessing, Sweep, Recount, RecountIdle, NextBatch, EndBatch, Crash
  <2> QED
    BY <2>1 DEF PoolQuiet, Pool, Threads
<1>2. CASE dpc[d] = "off"
  <2>1. dpc'[d] # "off" /\ \A e \in Drains : e # d => dpc'[e] = dpc[e]
    BY <1>2 DEF StartDrain, StartSingleBatch, DrainStep, CountPending, CountProcessing,
       Sweep, Recount, RecountIdle, EndBatch, Crash
  <2>2. \A e \in Drains : e # d => dpc[e] = "off" /\ dpc'[e] = "off"
    BY <2>1 DEF InTurn
  <2> QED
    BY <2>2 DEF PoolQuiet, Pool, Threads
<1> QED
  BY <1>1, <1>2

(* A processing row was stamped by its claim and is not stale; the repair    *)
(* job finds no stuck row, and the rows it is about to retry still say       *)
(* failed; every thread's row says processing, and no other thread has it.   *)
FreshClaims == \A a \in Articles : status[a] = "processing" => started[a] = "fresh"
HealerApart ==
  \A h \in Healers : /\ hpc[h] # "mark"
                     /\ hpc[h] = "retry" => \A a \in hfound[h] : status[a] = "failed"
InFlight == \A t \in Threads : Live(t) => status[wdoc[t]] = "processing"
OwnRows  == \A t, u \in Threads : t # u /\ Live(t) /\ Live(u) => wdoc[t] # wdoc[u]
(* A stored output belongs to a done row, or to the thread about to mark it. *)
OutputHeld ==
  used.crash = 0 /\ used.db = 0 =>
    \A a \in Articles : proc[a] \in Stored =>
      status[a] = "done" \/ \E t \in Threads : wpc[t] = "stored" /\ wdoc[t] = a
LoneInv == FreshClaims /\ HealerApart /\ InFlight /\ OwnRows /\ OutputHeld

(* Every step spends one of the bounds or none.                              *)
LEMMA SpendsOne ==
  ASSUME Next
  PROVE  UNCHANGED used \/ \E k \in DOMAIN Limits : Spend(k)
<1>1. {"aging", "crash", "transient", "db", "ops"} \subseteq DOMAIN Limits
  BY DEF Limits
<1>2. CASE \E t \in Threads : Worker(t)
  BY <1>1, <1>2 DEF Worker, CheckLimit, FindNothing, ClaimRow, Upsert, MarkDone,
     StageTransient, StageFails, StoreTransient, StoreFails, Raise, CountResult
<1>3. CASE \E d \in Drains : StartDrain(d) \/ StartSingleBatch(d) \/ DrainStep(d) \/ Crash(d)
  BY <1>1, <1>3 DEF StartDrain, StartSingleBatch, DrainStep, CountPending, CountProcessing,
     Sweep, Recount, RecountIdle, EndBatch, Crash
<1>4. CASE \E h \in Healers : HealStep(h)
  BY <1>1, <1>4 DEF HealStep, HealLook, HealMark, HealSwallow, HealStops, HealStale,
     FindTransient, RetryTransient
<1>5. CASE \E a \in Articles : InsertRaw(a) \/ GrowStale(a)
  BY <1>1, <1>5 DEF InsertRaw, GrowStale
<1>6. CASE Operator
  BY <1>1, <1>6 DEF Operator, MarkForReprocess, RequeueStaleNow, RequeueAllFailed,
     DeleteAllFailed, RequeueById, DeleteRaw, DeleteProcessed, Moderate, Command
<1> QED
  BY <1>2, <1>3, <1>4, <1>5, <1>6 DEF Next

(* What is spent stays spent, and an operator's command spends one of ops.   *)
LEMMA UsedGrows ==
  ASSUME TypeOK, Next
  PROVE  /\ \A k \in DOMAIN Limits : used'[k] = 0 => used[k] = 0
         /\ Operator => used'.ops # 0
<1>1. ASSUME NEW k \in DOMAIN Limits, Spend(k)
      PROVE  used[k] \in Nat /\ used' = [used EXCEPT ![k] = used[k] + 1]
  BY <1>1 DEF Spend, TypeOK
<1>2. \A k \in DOMAIN Limits : used'[k] = 0 => used[k] = 0
  BY <1>1, SpendsOne DEF TypeOK
<1>3. CASE Operator
  <2>1. Spend("ops") /\ "ops" \in DOMAIN Limits
    BY <1>3 DEF Operator, MarkForReprocess, RequeueStaleNow, RequeueAllFailed,
       DeleteAllFailed, RequeueById, DeleteRaw, DeleteProcessed, Moderate, Command, Limits
  <2> QED
    BY <1>1, <1>2, <2>1 DEF TypeOK
<1> QED
  BY <1>2, <1>3

(* A thread that lets its row go, and says what became of it, leaves the     *)
(* others' rows alone.                                                       *)
LEMMA LetsGo ==
  ASSUME TypeOK, LoneInv, NEW t \in Threads, Live(t),
         NEW s \in {"pending", "done", "failed"}, status' = SetAll({wdoc[t]}, s),
         NEW pc \in {"check", "count"}, wpc' = [wpc EXCEPT ![t] = pc],
         wdoc' = [wdoc EXCEPT ![t] = NoArticle],
         UNCHANGED <<started, proc, heals>>,
         used'.crash = 0 /\ used'.db = 0 => /\ used.crash = 0 /\ used.db = 0
                                            /\ wpc[t] = "stored" => s = "done"
  PROVE  LoneInv'
<1>1. status[wdoc[t]] = "processing" /\ wdoc[t] \in Articles
  BY DEF LoneInv, InFlight, TypeOK, ThreadType
<1>2. status'[wdoc[t]] = s /\ \A b \in Articles : b # wdoc[t] => status'[b] = status[b]
  BY <1>1 DEF SetAll, Present
<1>3. /\ \A u \in Threads : u # t => wpc'[u] = wpc[u] /\ wdoc'[u] = wdoc[u]
      /\ wpc'[t] = pc
  BY DEF TypeOK, ThreadType
<1>4. \A u \in Threads : Live(u)' =>
        /\ u # t /\ Live(u) /\ wdoc'[u] = wdoc[u]
        /\ wdoc[u] \in Articles /\ wdoc[u] # wdoc[t]
  BY <1>3 DEF LoneInv, OwnRows, TypeOK, ThreadType, Live
<1>5. FreshClaims'
  BY <1>1, <1>2 DEF LoneInv, FreshClaims
<1>6. HealerApart'
  <2>1. SUFFICES ASSUME NEW h \in Healers
                 PROVE  /\ hpc[h] # "mark"
                        /\ hpc[h] = "retry" => \A a \in hfound[h] : status'[a] = "failed"
    BY DEF HealerApart, heals
  <2>2. hfound[h] \subseteq Articles
    BY DEF TypeOK, HealType
  <2> QED
    BY <1>1, <1>2, <2>2 DEF LoneInv, HealerApart
<1>7. InFlight'
  <2>1. SUFFICES ASSUME NEW u \in Threads, Live(u)' PROVE status'[wdoc'[u]] = "processing"
    BY DEF InFlight
  <2>2. status[wdoc[u]] = "processing"
    BY <1>4, <2>1 DEF LoneInv, InFlight
  <2> QED
    BY <1>2, <1>4, <2>1, <2>2
<1>8. OwnRows'
  BY <1>4 DEF LoneInv, OwnRows
<1>9. OutputHeld'
  <2>1. SUFFICES ASSUME used.crash = 0, used.db = 0, wpc[t] = "stored" => s = "done",
                        NEW a \in Articles, proc[a] \in Stored
                 PROVE  \/ status'[a] = "done"
                        \/ \E u \in Threads : wpc'[u] = "stored" /\ wdoc'[u] = a
    BY DEF OutputHeld
  <2>2. CASE a = wdoc[t]
    <3>1. PICK u \in Threads : wpc[u] = "stored" /\ wdoc[u] = a
      BY <1>1, <2>1, <2>2 DEF LoneInv, OutputHeld
    <3>2. u = t
      BY <2>2, <3>1 DEF LoneInv, OwnRows, Live
    <3> QED
      BY <1>2, <2>1, <2>2, <3>1, <3>2
  <2>3. CASE a # wdoc[t]
    <3>1. status[a] = "done" \/ \E u \in Threads : wpc[u] = "stored" /\ wdoc[u] = a
      BY <2>1 DEF LoneInv, OutputHeld
    <3> QED
      BY <1>2, <1>3, <2>3, <3>1
  <2> QED
    BY <2>2, <2>3
<1> QED
  BY <1>5, <1>6, <1>7, <1>8, <1>9 DEF LoneInv

(* A thread that keeps or takes no row, and touches none, keeps everything.  *)
LEMMA MovesOn ==
  ASSUME TypeOK, LoneInv, UNCHANGED <<status, started, proc, heals>>,
         \A u \in Threads : Live(u)' => Live(u) /\ wdoc'[u] = wdoc[u],
         used'.crash = 0 /\ used'.db = 0 =>
           /\ used.crash = 0 /\ used.db = 0
           /\ \A u \in Threads : wpc[u] = "stored" => wpc'[u] = "stored" /\ wdoc'[u] = wdoc[u]
  PROVE  LoneInv'
<1> USE DEF heals
<1>1. FreshClaims' /\ HealerApart'
  BY DEF LoneInv, FreshClaims, HealerApart
<1>2. InFlight' /\ OwnRows'
  BY DEF LoneInv, InFlight, OwnRows
<1>3. OutputHeld'
  BY DEF LoneInv, OutputHeld, Stored
<1> QED
  BY <1>1, <1>2, <1>3 DEF LoneInv

(* The claim gives the thread a row of its own.                              *)
LEMMA ClaimsOwn ==
  ASSUME TypeOK, LoneInv, NEW t \in Threads, NEW a \in Articles, ClaimRow(t, a)
  PROVE  LoneInv'
<1> USE DEF TypeOK, RowType, ThreadType, HealType, heals, Live
<1>1. /\ status[a] = "pending" /\ status' = [status EXCEPT ![a] = "processing"]
      /\ started' = [started EXCEPT ![a] = "fresh"] /\ ~Live(t)
      /\ wpc' = [wpc EXCEPT ![t] = "stages"] /\ wdoc' = [wdoc EXCEPT ![t] = a]
      /\ UNCHANGED <<proc, heals, used>>
  BY DEF ClaimRow, With
<1>2. FreshClaims' /\ HealerApart'
  BY <1>1 DEF LoneInv, FreshClaims, HealerApart
<1>3. InFlight'
  BY <1>1 DEF LoneInv, InFlight
<1>4. OwnRows'
  BY <1>1 DEF LoneInv, OwnRows, InFlight
<1>5. OutputHeld'
  BY <1>1 DEF LoneInv, OutputHeld, Stored
<1> QED
  BY <1>2, <1>3, <1>4, <1>5 DEF LoneInv

(* A step of _worker_loop keeps the rows apart.                              *)
LEMMA LoneWorker ==
  ASSUME TypeOK, Next, LoneInv, NEW t \in Threads, Worker(t)
  PROVE  LoneInv'
<1>1. used'.crash = 0 /\ used'.db = 0 => used.crash = 0 /\ used.db = 0
  BY UsedGrows DEF Limits
<1>2. ASSUME Spend("db") PROVE used'.db # 0
  BY <1>2 DEF Spend, TypeOK, Limits
<1>3. CASE CheckLimit(t) \/ FindNothing(t) \/ CountResult(t)
  BY <1>1, <1>3, MovesOn
  DEF CheckLimit, FindNothing, CountResult, TypeOK, ThreadType, Live, rows, heals
<1>4. CASE Raise(t)
  BY <1>1, <1>2, <1>4, MovesOn DEF Raise, TypeOK, ThreadType, Live, rows
<1>5. CASE Upsert(t)
  <2> USE DEF TypeOK, RowType, ThreadType, Live
  <2>1. /\ wdoc[t] \in Articles /\ proc' = [proc EXCEPT ![wdoc[t]] = "initial"]
        /\ wpc[t] = "stages" /\ wpc' = [wpc EXCEPT ![t] = "stored"]
        /\ UNCHANGED <<status, started, wdoc, hpc, hfound, used>>
    BY <1>5 DEF Upsert, heals
  <2>2. FreshClaims' /\ HealerApart'
    BY <2>1 DEF LoneInv, FreshClaims, HealerApart
  <2>3. InFlight' /\ OwnRows'
    BY <2>1 DEF LoneInv, InFlight, OwnRows
  <2>4. OutputHeld'
    BY <2>1 DEF LoneInv, OutputHeld, Stored
  <2> QED
    BY <2>2, <2>3, <2>4 DEF LoneInv
<1>6. CASE MarkDone(t)
  BY <1>1, <1>6, LetsGo DEF MarkDone, Live
<1>7. CASE StageTransient(t) \/ StoreTransient(t)
  BY <1>1, <1>2, <1>7, LetsGo DEF StageTransient, StoreTransient, RetryLater, Live
<1>8. CASE StageFails(t) \/ StoreFails(t)
  BY <1>1, <1>2, <1>8, LetsGo DEF StageFails, StoreFails, GiveUp, Live
<1> QED
  BY <1>3, <1>4, <1>5, <1>6, <1>7, <1>8, ClaimsOwn DEF Worker

(* Drains in turn sweep, open and close a batch only while no thread of any  *)
(* drain holds a row.                                                        *)
LEMMA LoneDrain ==
  ASSUME TypeOK, PoolQuiet, InTurn, InTurn', Next, LoneInv, NEW d \in Drains,
         StartDrain(d) \/ StartSingleBatch(d) \/ DrainStep(d) \/ Crash(d)
  PROVE  LoneInv'
<1> USE DEF TypeOK, RowType, ThreadType, DrainType, HealType, heals, threads, rows
<1>1. /\ \A t \in Threads : t \notin Pool(d) => wpc[t] = "idle"
      /\ UNCHANGED <<proc, heals>>
      /\ used'.crash = 0 /\ used'.db = 0 => used.crash = 0 /\ used.db = 0 /\ ~Crash(d)
  <2>1. \A t \in Threads : t \notin Pool(d) => wpc[t] = "idle"
    BY OthersRest
  <2>2. UNCHANGED <<proc, heals>>
    BY DEF StartDrain, StartSingleBatch, DrainStep, CountPending, CountProcessing, Sweep,
       RequeueAbandoned, Recount, RecountIdle, EndBatch, Crash
  <2>3. used'.crash = 0 /\ used'.db = 0 => used.crash = 0 /\ used.db = 0 /\ ~Crash(d)
    BY UsedGrows DEF Crash, Spend, Limits
  <2> QED
    BY <2>1, <2>2, <2>3
<1>2. \A t \in Threads : ~Live(t)'
  <2>1. CASE EndBatch(d) \/ Crash(d)
    BY <1>1, <2>1 DEF EndBatch, Crash, CloseBatch, Live
  <2>2. CASE ~EndBatch(d) /\ ~Crash(d)
    <3>1. \A t \in Threads : wpc[t] = "idle"
      BY <1>1, <2>2 DEF StartDrain, StartSingleBatch, DrainStep, CountPending,
         CountProcessing, Sweep, Recount, RecountIdle, PoolQuiet
    <3>2. UNCHANGED wpc \/ \A t \in Threads : wpc'[t] \in {"check", "idle"}
      BY <2>2, <3>1 DEF StartDrain, StartSingleBatch, DrainStep, CountPending,
         CountProcessing, Sweep, Recount, RecountIdle, NextBatch, OpenBatch
    <3> QED
      BY <3>1, <3>2 DEF Live
  <2> QED
    BY <2>1, <2>2
<1>3. \/ UNCHANGED <<status, started>>
      \/ /\ status' = SetAll(With("processing"), "pending")
         /\ started' = Unset(With("processing"), started, "unset")
  BY DEF StartDrain, StartSingleBatch, DrainStep, CountPending, CountProcessing, Sweep,
     RequeueAbandoned, Recount, RecountIdle, EndBatch, Crash
<1>4. \A a \in Articles :
        /\ status[a] # "processing" => status'[a] = status[a]
        /\ status'[a] = "processing" => status[a] = "processing" /\ started'[a] = started[a]
  BY <1>3 DEF SetAll, Unset, With, Present
<1>5. FreshClaims'
  BY <1>4 DEF LoneInv, FreshClaims
<1>6. HealerApart'
  <2>1. \A h \in Healers : hfound[h] \subseteq Articles
    OBVIOUS
  <2> QED
    BY <1>1, <1>4, <2>1 DEF LoneInv, HealerApart
<1>7. InFlight' /\ OwnRows'
  BY <1>2 DEF InFlight, OwnRows
<1>8. OutputHeld'
  <2>1. SUFFICES ASSUME used'.crash = 0, used'.db = 0, NEW a \in Articles, proc[a] \in Stored
                 PROVE  status'[a] = "done"
    BY <1>1 DEF OutputHeld, Stored
  <2>2. \A t \in Threads : wpc[t] # "stored"
    BY <1>1, <2>1 DEF StartDrain, StartSingleBatch, DrainStep, CountPending,
       CountProcessing, Sweep, Recount, RecountIdle, PoolQuiet, EndBatch, Ended
  <2> QED
    BY <1>1, <1>4, <2>1, <2>2 DEF LoneInv, OutputHeld
<1> QED
  BY <1>5, <1>6, <1>7, <1>8 DEF LoneInv

(* Repair jobs in turn find no stale row and move only rows that failed.     *)
LEMMA LoneHeal ==
  ASSUME TypeOK, InTurn, InTurn', Next, LoneInv, NEW h \in Healers, HealStep(h)
  PROVE  LoneInv'
<1> USE DEF TypeOK, RowType, ThreadType, HealType, rows, threads
<1>1. /\ Stale = {}
      /\ \A g \in Healers : g # h => /\ hpc'[g] = hpc[g] /\ hfound'[g] = hfound[g]
                                    /\ (UNCHANGED status \/ hpc'[g] = "idle")
  <2>1. Stale = {}
    BY DEF LoneInv, FreshClaims, Stale, With
  <2>2. \A g \in Healers : g # h => hpc'[g] = hpc[g] /\ hfound'[g] = hfound[g]
    BY DEF HealStep, HealLook, HealMark, HealSwallow, HealStops, HealStale, FindTransient,
       RetryTransient, HealTo
  <2>3. UNCHANGED status \/ hpc[h] # "idle"
    BY DEF HealStep, HealLook, HealMark, HealSwallow, HealStops, HealStale, FindTransient,
       RetryTransient, HealTo
  <2> QED
    BY <2>1, <2>2, <2>3 DEF InTurn
<1>2. /\ UNCHANGED threads /\ UNCHANGED proc
      /\ used'.crash = 0 /\ used'.db = 0 => used.crash = 0 /\ used.db = 0
  <2>1. UNCHANGED threads /\ UNCHANGED proc
    BY DEF HealStep, HealLook, HealMark, HealSwallow, HealStops, HealStale, RequeueStale,
       FindTransient, RetryTransient
  <2> QED
    BY <2>1, UsedGrows DEF Limits
<1>3. ~HealMark(h) /\ ~HealSwallow(h)
  BY DEF HealMark, HealSwallow, LoneInv, HealerApart
<1>4. \A a \in Articles :
        /\ status[a] # "failed" => status'[a] = status[a]
        /\ status'[a] = "processing" => status[a] = "processing" /\ started'[a] = started[a]
  <2>1. CASE RetryTransient(h)
    <3>1. \A a \in hfound[h] : status[a] = "failed"
      BY <2>1 DEF RetryTransient, LoneInv, HealerApart
    <3> QED
      BY <2>1, <3>1 DEF RetryTransient, SetAll
  <2>2. CASE HealStale(h)
    BY <1>1, <2>2 DEF HealStale, RequeueStale, SetAll, Unset
  <2>3. CASE HealLook(h) \/ FindTransient(h) \/ HealStops(h)
    BY <2>3 DEF HealLook, FindTransient, HealStops
  <2> QED
    BY <1>3, <2>1, <2>2, <2>3 DEF HealStep
<1>5. FreshClaims'
  BY <1>4 DEF LoneInv, FreshClaims
<1>6. HealerApart'
  <2>1. /\ hpc'[h] # "mark"
        /\ hpc'[h] = "retry" => UNCHANGED status /\ \A a \in hfound'[h] : status[a] = "failed"
    BY <1>1, <1>3 DEF HealStep, HealLook, HealStale, FindTransient, RetryTransient,
       HealStops, HealTo, With
  <2> QED
    BY <1>1, <2>1 DEF LoneInv, HealerApart
<1>7. InFlight' /\ OwnRows'
  <2>1. \A t \in Threads : Live(t)' <=> Live(t)
    BY <1>2 DEF Live
  <2>2. \A t \in Threads : Live(t) => wdoc[t] \in Articles /\ status[wdoc[t]] = "processing"
    BY DEF LoneInv, InFlight
  <2> QED
    BY <1>2, <1>4, <2>1, <2>2 DEF LoneInv, InFlight, OwnRows
<1>8. OutputHeld'
  BY <1>2, <1>4 DEF LoneInv, OutputHeld, Stored
<1> QED
  BY <1>5, <1>6, <1>7, <1>8 DEF LoneInv

(* A new row, and an admin's decision on an output, disturb nothing; and no  *)
(* row outlives the cutoff.                                                  *)
LEMMA LoneOutside ==
  ASSUME MaxAging = 0, TypeOK, Next, LoneInv,
         \E a \in Articles : InsertRaw(a) \/ GrowStale(a) \/ Moderate(a)
  PROVE  LoneInv'
<1> USE DEF TypeOK, RowType, ThreadType, HealType, threads, heals
<1>1. UNCHANGED <<threads, heals, started>>
  BY DEF InsertRaw, GrowStale, Moderate, Command, Spend, Limits
<1>2. used'.crash = 0 /\ used'.db = 0 => used.crash = 0 /\ used.db = 0
  BY UsedGrows DEF Limits
<1>3. \A a \in Articles :
        /\ status[a] # "absent" => status'[a] = status[a]
        /\ status'[a] = "processing" => status[a] = "processing"
        /\ proc'[a] \in Stored => proc[a] \in Stored
  BY DEF InsertRaw, GrowStale, Moderate, Command, Spend, Limits, Stored
<1>4. FreshClaims'
  BY <1>1, <1>3 DEF LoneInv, FreshClaims
<1>5. HealerApart'
  <2>1. \A h \in Healers : hfound[h] \subseteq Articles
    OBVIOUS
  <2> QED
    BY <1>1, <1>3, <2>1 DEF LoneInv, HealerApart
<1>6. InFlight' /\ OwnRows'
  <2>1. \A t \in Threads : Live(t)' <=> Live(t)
    BY <1>1 DEF Live
  <2>2. \A t \in Threads : Live(t) => wdoc[t] \in Articles /\ status[wdoc[t]] = "processing"
    BY DEF LoneInv, InFlight
  <2> QED
    BY <1>1, <1>3, <2>1, <2>2 DEF LoneInv, InFlight, OwnRows
<1>7. OutputHeld'
  BY <1>1, <1>2, <1>3 DEF LoneInv, OutputHeld, Stored
<1> QED
  BY <1>4, <1>5, <1>6, <1>7 DEF LoneInv

(* The only thing operators do is to decide on outputs.                      *)
OnlyDecides == Operator => \E a \in Articles : Moderate(a)

(* Until an operator does more than decide, the rows stay apart.             *)
LEMMA LoneStep ==
  ASSUME MaxAging = 0, TypeOK, PoolQuiet, InTurn, InTurn', LoneInv, Next, OnlyDecides
  PROVE  LoneInv'
  BY LoneWorker, LoneDrain, LoneHeal, LoneOutside DEF Next, OnlyDecides

(* Nobody holds a row and nothing is stored at the start.                    *)
LEMMA LoneInit == Init => LoneInv
  BY DEF Init, LoneInv, FreshClaims, HealerApart, InFlight, OwnRows, OutputHeld, Live, Stored

(* The variables the invariant is about are all in vars.                     *)
LEMMA LoneStutters ==
  ASSUME LoneInv, UNCHANGED vars
  PROVE  LoneInv'
  BY DEF vars, rows, threads, heals, LoneInv, FreshClaims, HealerApart, InFlight, OwnRows,
     OutputHeld, Live

(* One drain and one repair job at a time, no row beyond the cutoff: until   *)
(* an operator touches the queue the rows are kept apart.                    *)
LEMMA LoneAlways ==
  ASSUME MaxAging = 0 PROVE Spec /\ []InTurn => [](used.ops = 0 => LoneInv)
<1>1. Init => (used.ops = 0 => LoneInv)
  BY LoneInit
<1>2. TypeOK /\ PoolQuiet /\ InTurn /\ InTurn' /\ (used.ops = 0 => LoneInv) /\ [Next]_vars
        => (used.ops = 0 => LoneInv)'
  <2> SUFFICES ASSUME TypeOK, PoolQuiet, InTurn, InTurn', used.ops = 0 => LoneInv, [Next]_vars, used'.ops = 0
               PROVE  LoneInv'
    OBVIOUS
  <2>1. CASE UNCHANGED vars
    BY <2>1, LoneStutters DEF vars
  <2>2. CASE Next
    BY <2>2, UsedGrows, LoneStep DEF OnlyDecides, Limits
  <2> QED
    BY <2>1, <2>2
<1> QED
  BY TypeCorrect, QuietAlways, <1>1, <1>2, PTL DEF Spec

(* One claim at a time: with drains and repair jobs in turn, no row beyond   *)
(* the cutoff and no operator at work, no two threads hold the same row, for *)
(* any number of drains, threads and articles and any failure of a call.     *)
THEOREM ExclusiveClaimAlways ==
  ASSUME MaxAging = 0 PROVE Spec /\ []InTurn => []ExclusiveClaim
<1>1. (used.ops = 0 => LoneInv) => ExclusiveClaim
  BY DEF LoneInv, OwnRows, ExclusiveClaim
<1> QED
  BY LoneAlways, <1>1, PTL

(* Under the same conditions each row in flight says processing: neither the *)
(* repair job nor the sweep takes it away from its thread.                   *)
THEOREM InFlightCountedAlways ==
  ASSUME MaxAging = 0 PROVE Spec /\ []InTurn => []InFlightCounted
<1>1. (used.ops = 0 => LoneInv) => InFlightCounted
  BY DEF LoneInv, InFlight, InFlightCounted
<1> QED
  BY LoneAlways, <1>1, PTL

(* The upsert of a thread meets no output that is still there: it would be   *)
(* of a done row, or of a row another thread holds.                          *)
LEMMA UpsertsFresh ==
  ASSUME TypeOK, LoneInv, used.crash = 0, used.db = 0, NEW a \in Articles,
         proc[a] = "decided", Next
  PROVE  proc'[a] # "initial"
<1>1. ASSUME NEW t \in Threads, Upsert(t) PROVE proc'[a] = proc[a]
  <2>1. CASE wdoc[t] = a
    <3>1. status[a] = "processing"
      BY <1>1, <2>1 DEF Upsert, LoneInv, InFlight, Live
    <3>2. PICK u \in Threads : wpc[u] = "stored" /\ wdoc[u] = a
      BY <3>1 DEF LoneInv, OutputHeld, Stored
    <3> QED
      BY <1>1, <2>1, <3>2 DEF Upsert, LoneInv, OwnRows, Live
  <2>2. CASE wdoc[t] # a
    BY <1>1, <2>2 DEF Upsert, TypeOK, RowType
  <2> QED
    BY <2>1, <2>2
<1>2. ASSUME NEW t \in Threads, Worker(t), ~Upsert(t) PROVE proc' = proc
  BY <1>2 DEF Worker, CheckLimit, FindNothing, ClaimRow, MarkDone, StageTransient,
     StageFails, StoreTransient, StoreFails, RetryLater, GiveUp, Raise, CountResult, rows
<1>3. ASSUME NEW d \in Drains,
             StartDrain(d) \/ StartSingleBatch(d) \/ DrainStep(d) \/ Crash(d)
      PROVE  proc' = proc
  BY <1>3 DEF StartDrain, StartSingleBatch, DrainStep, CountPending, CountProcessing, Sweep,
     RequeueAbandoned, Recount, RecountIdle, EndBatch, Crash, rows
<1>4. ASSUME NEW h \in Healers, HealStep(h) PROVE proc' = proc
  BY <1>4 DEF HealStep, HealLook, HealMark, HealSwallow, HealStops, HealStale, RequeueStale,
     FindTransient, RetryTransient, rows
<1>5. CASE Operator \/ \E b \in Articles : InsertRaw(b) \/ GrowStale(b)
  BY <1>5 DEF TypeOK, RowType, Operator, MarkForReprocess, RequeueStaleNow, RequeueStale,
     RequeueAllFailed, DeleteAllFailed, RequeueById, DeleteRaw, DeleteProcessed, Moderate,
     InsertRaw, GrowStale
<1> QED
  BY <1>1, <1>2, <1>3, <1>4, <1>5 DEF Next

(* An admin's decisions stick, any number of them: no pass of drains in turn *)
(* writes over one as long as operators only decide, until a process dies or *)
(* a call raises.                                                            *)
THEOREM DecisionSticksAlways ==
  ASSUME MaxAging = 0 PROVE Spec /\ []InTurn /\ [][OnlyDecides]_vars => DecisionSticks
<1>1. TypeOK /\ PoolQuiet /\ InTurn /\ InTurn' /\ LoneInv /\ [Next]_vars /\ [OnlyDecides]_vars => LoneInv'
  BY LoneStep, LoneStutters
<1>2. TypeOK /\ LoneInv /\ [Next]_vars =>
        [used.crash = 0 /\ used.db = 0 =>
           \A a \in Articles : proc[a] = "decided" => proc'[a] # "initial"]_vars
  BY UpsertsFresh
<1> QED
  BY TypeCorrect, QuietAlways, LoneInit, <1>1, <1>2, PTL DEF Spec, DecisionSticks

----------------------------------------------------------------------------
(* The drain's report: outside a batch nothing is counted in it, so what a   *)
(* batch reports moves to the total as a whole.                              *)
CountedRests == \A d \in Drains : dpc[d] \notin {"batch", "single"} => counted[d] = 0
Counting(d)  == {t \in Pool(d) : wpc[t] = "count"}
Finished     == With("done") \cup With("failed")

(* A thread counts only within a batch.                                      *)
LEMMA RestsWorker ==
  ASSUME TypeOK, PoolQuiet, CountedRests, NEW t \in Threads, Worker(t)
  PROVE  CountedRests'
<1>1. UNCHANGED dpc
  BY WorkerBusy
<1>2. CASE counted' = counted
  BY <1>1, <1>2 DEF CountedRests
<1>3. CASE wpc[t] = "count" /\ counted' = [counted EXCEPT ![t[1]] = counted[t[1]] + 1]
  <2>1. t[1] \in Drains /\ t \in Pool(t[1])
    BY DEF Threads, Pool
  <2>2. dpc[t[1]] \in {"batch", "single"}
    BY <1>3, <2>1 DEF PoolQuiet
  <2>3. \A d \in Drains : d # t[1] => counted'[d] = counted[d]
    BY <1>3 DEF TypeOK, DrainType
  <2> QED
    BY <1>1, <2>2, <2>3 DEF CountedRests
<1> QED
  BY <1>2, <1>3, WorkerBusy

(* A drain that leaves its batch leaves its count at zero.                   *)
LEMMA RestsDrain ==
  ASSUME TypeOK, CountedRests, NEW d \in Drains,
         StartDrain(d) \/ StartSingleBatch(d) \/ DrainStep(d) \/ Crash(d)
  PROVE  CountedRests'
<1>1. \A e \in Drains : e # d => dpc'[e] = dpc[e] /\ counted'[e] = counted[e]
  BY DEF TypeOK, DrainType, StartDrain, StartSingleBatch, DrainStep, CountPending,
     CountProcessing, Sweep, Recount, RecountIdle, EndBatch, Crash, NextBatch, OpenBatch, GoTo
<1>2. counted'[d] = 0 \/ (dpc[d] \notin {"batch", "single"} /\ counted'[d] = counted[d])
  BY DEF TypeOK, DrainType, StartDrain, StartSingleBatch, DrainStep, CountPending,
     CountProcessing, Sweep, Recount, RecountIdle, EndBatch, Crash, NextBatch, OpenBatch, GoTo
<1> QED
  BY <1>1, <1>2 DEF CountedRests

(* So no drain counts anything outside a batch.                              *)
LEMMA RestsAlways == Spec => []CountedRests
<1>1. Init => CountedRests
  BY DEF Init, CountedRests
<1>2. TypeOK /\ PoolQuiet /\ CountedRests /\ [Next]_vars => CountedRests'
  <2> SUFFICES ASSUME TypeOK, PoolQuiet, CountedRests, [Next]_vars PROVE CountedRests'
    OBVIOUS
  <2>1. CASE UNCHANGED drains
    BY <2>1 DEF CountedRests, drains
  <2> QED
    BY <2>1, RestsWorker, RestsDrain, OthersLeaveDrains DEF Next, vars
<1> QED
  BY TypeCorrect, QuietAlways, <1>1, <1>2, PTL DEF Spec

(* What the report is made of can be counted.                                *)
LEMMA ReportNumbers ==
  ASSUME TypeOK, NEW d \in Drains
  PROVE  /\ total[d] \in Nat /\ counted[d] \in Nat
         /\ IsFiniteSet(Counting(d)) /\ Cardinality(Counting(d)) \in Nat
         /\ IsFiniteSet(Finished) /\ Settled \in Nat
         /\ Reported(d) = total[d] + counted[d] + Cardinality(Counting(d))
         /\ Settled = Cardinality(Finished)
<1>1. Counting(d) \subseteq Pool(d)
  BY DEF Counting
<1>2. IsFiniteSet(Counting(d)) /\ Cardinality(Counting(d)) \in Nat
  BY <1>1, PoolCount
<1>3. IsFiniteSet(Finished) /\ Cardinality(Finished) \in Nat
  <2>1. Finished \subseteq Articles
    BY DEF Finished, With
  <2> QED
    BY <2>1, QueueAssumption, FS_Subset, FS_CardinalityType
<1> QED
  BY <1>2, <1>3 DEF TypeOK, DrainType, Reported, Settled, Finished, Counting

(* A step that changes neither a count nor whether a row is finished.        *)
LEMMA ReportStays ==
  ASSUME TypeOK, TypeOK', NEW d \in Drains, Finished' = Finished, Counting(d)' = Counting(d),
         total'[d] + counted'[d] = total[d] + counted[d]
  PROVE  Reported(d)' - Reported(d) = Settled' - Settled
<1>1. /\ Reported(d)' = total'[d] + counted'[d] + Cardinality(Counting(d)')
      /\ Settled' = Cardinality(Finished') /\ total'[d] \in Nat /\ counted'[d] \in Nat
  <2>1. /\ total'[d] \in Nat /\ counted'[d] \in Nat
    BY DEF TypeOK, DrainType
  <2> QED
    BY <2>1 DEF Reported, Settled, Finished, Counting
<1> QED
  BY <1>1, ReportNumbers

(* A row that becomes done or failed is about to be counted by its thread.   *)
LEMMA ReportGrows ==
  ASSUME TypeOK, LoneInv, NEW d \in Drains, NEW t \in Pool(d), Live(t),
         NEW s \in {"done", "failed"}, status' = SetAll({wdoc[t]}, s),
         wpc' = [wpc EXCEPT ![t] = "count"], UNCHANGED <<total, counted>>
  PROVE  Reported(d)' - Reported(d) = Settled' - Settled
<1>1. status[wdoc[t]] = "processing" /\ wdoc[t] \in Articles /\ t \in Threads
  BY DEF LoneInv, InFlight, TypeOK, ThreadType, Pool
<1>2. status'[wdoc[t]] = s /\ \A b \in Articles : b # wdoc[t] => status'[b] = status[b]
  BY <1>1 DEF SetAll, Present
<1>3. Finished' = Finished \cup {wdoc[t]} /\ wdoc[t] \notin Finished
  BY <1>1, <1>2 DEF Finished, With
<1>4. wpc'[t] = "count" /\ \A u \in Threads : u # t => wpc'[u] = wpc[u]
  BY <1>1 DEF TypeOK, ThreadType
<1>5. Counting(d)' = Counting(d) \cup {t} /\ t \notin Counting(d)
  BY <1>4 DEF Counting, Pool, Live
<1>6. /\ Cardinality(Finished') = Settled + 1
      /\ Cardinality(Counting(d)') = Cardinality(Counting(d)) + 1
  BY <1>3, <1>5, ReportNumbers, FS_AddElement
<1>7. Reported(d)' = total[d] + counted[d] + Cardinality(Counting(d)')
      /\ Settled' = Cardinality(Finished')
  BY DEF Reported, Settled, Finished, Counting
<1> QED
  BY <1>6, <1>7, ReportNumbers

(* The thread counts its result: what it was about to count is counted.      *)
LEMMA ReportCounts ==
  ASSUME TypeOK, NEW d \in Drains, NEW t \in Pool(d), CountResult(t)
  PROVE  Reported(d)' - Reported(d) = Settled' - Settled
<1>1. t \in Threads /\ t[1] = d
  BY DEF Pool
<1>2. counted'[d] = counted[d] + 1 /\ UNCHANGED <<total, status>>
  BY <1>1 DEF CountResult, TypeOK, DrainType, rows
<1>3. t \in Counting(d) /\ Counting(d)' = Counting(d) \ {t}
  BY <1>1 DEF CountResult, Counting, TypeOK, ThreadType, Pool
<1>4. Cardinality(Counting(d)') = Cardinality(Counting(d)) - 1
  BY <1>3, ReportNumbers, FS_RemoveElement
<1>5. /\ Reported(d)' = total[d] + (counted[d] + 1) + Cardinality(Counting(d)')
      /\ Settled' = Settled
  BY <1>2 DEF Reported, Settled, Counting, With
<1> QED
  BY <1>4, <1>5, ReportNumbers

(* No step of a thread makes the report and the rows disagree.               *)
LEMMA WorkerReports ==
  ASSUME TypeOK, TypeOK', PoolQuiet, InTurn, LoneInv, NEW t \in Threads, Worker(t),
         NEW d \in Drains, dpc[d] # "off"
  PROVE  Reported(d)' - Reported(d) = Settled' - Settled
<1>1. t \in Pool(d)
  <2>1. wpc[t] # "idle" /\ t[1] \in Drains /\ t \in Pool(t[1])
    BY DEF Worker, CheckLimit, FindNothing, ClaimRow, Upsert, MarkDone, StageTransient,
       StageFails, StoreTransient, StoreFails, Raise, CountResult, Live, Threads, Pool
  <2>2. dpc[t[1]] \in {"batch", "single"}
    BY <2>1 DEF PoolQuiet
  <2> QED
    BY <2>1, <2>2 DEF InTurn
<1>2. CASE MarkDone(t)
  BY <1>1, <1>2, ReportGrows DEF MarkDone, Live, drains
<1>3. CASE StageFails(t) \/ StoreFails(t)
  BY <1>1, <1>3, ReportGrows DEF StageFails, StoreFails, GiveUp, Live, drains
<1>4. CASE CountResult(t)
  BY <1>1, <1>4, ReportCounts
<1>5. CASE \/ CheckLimit(t) \/ FindNothing(t) \/ Upsert(t) \/ Raise(t)
           \/ StageTransient(t) \/ StoreTransient(t) \/ \E a \in Articles : ClaimRow(t, a)
  <2>1. UNCHANGED <<total, counted>>
    BY <1>5 DEF CheckLimit, FindNothing, Upsert, Raise, StageTransient, StoreTransient,
       RetryLater, ClaimRow, drains
  <2>2. wpc[t] # "count" /\ wpc'[t] # "count" /\ \A u \in Threads : u # t => wpc'[u] = wpc[u]
    BY <1>5 DEF CheckLimit, FindNothing, Upsert, Raise, StageTransient, StoreTransient,
       RetryLater, ClaimRow, TypeOK, ThreadType
  <2>3. Counting(d)' = Counting(d)
    BY <2>2 DEF Counting, Pool
  <2>4. \A a \in Articles :
          /\ status[a] \in {"done", "failed"} => status'[a] = status[a]
          /\ status'[a] \in {"done", "failed"} => status[a] = status'[a]
    <3>1. CASE StageTransient(t) \/ StoreTransient(t)
      <4>1. status' = SetAll({wdoc[t]}, "pending") /\ Live(t)
        BY <3>1 DEF StageTransient, StoreTransient, RetryLater, Live
      <4>2. status[wdoc[t]] = "processing"
        BY <4>1 DEF LoneInv, InFlight
      <4> QED
        BY <4>1, <4>2 DEF SetAll
    <3>2. ASSUME NEW a \in Articles, ClaimRow(t, a)
          PROVE  \A b \in Articles :
                   /\ status[b] \in {"done", "failed"} => status'[b] = status[b]
                   /\ status'[b] \in {"done", "failed"} => status[b] = status'[b]
      BY <3>2 DEF ClaimRow, With, TypeOK, RowType
    <3>3. CASE CheckLimit(t) \/ FindNothing(t) \/ Upsert(t) \/ Raise(t)
      BY <3>3 DEF CheckLimit, FindNothing, Upsert, Raise, rows
    <3> QED
      BY <1>5, <3>1, <3>2, <3>3
  <2>5. Finished' = Finished
    BY <2>4 DEF Finished, With
  <2> QED
    BY <2>1, <2>3, <2>5, ReportStays
<1> QED
  BY <1>2, <1>3, <1>4, <1>5 DEF Worker

(* No step of the drain loop does.                                           *)
LEMMA DrainReports ==
  ASSUME TypeOK, TypeOK', PoolQuiet, CountedRests, NEW d \in Drains,
         DrainStep(d), dpc'[d] # "off"
  PROVE  Reported(d)' - Reported(d) = Settled' - Settled
<1>1. \A a \in Articles : /\ status[a] # "processing" => status'[a] = status[a]
                          /\ status[a] = "processing" => status'[a] \in {"pending", "processing"}
  BY DEF DrainStep, CountPending, CountProcessing, Sweep, RequeueAbandoned, Recount,
     RecountIdle, EndBatch, rows, SetAll, With, Present
<1>2. Finished' = Finished
  BY <1>1 DEF Finished, With
<1>3. CASE EndBatch(d)
  <2>1. Counting(d) = {} /\ Counting(d)' = {}
    BY <1>3 DEF EndBatch, Ended, CloseBatch, Counting, Pool
  <2>2. total'[d] = total[d] + counted[d] /\ counted'[d] = 0
    BY <1>3 DEF EndBatch, TypeOK, DrainType
  <2>3. total'[d] + counted'[d] = total[d] + counted[d]
    BY <2>2 DEF TypeOK, DrainType
  <2>4. Counting(d)' = Counting(d)
    BY <2>1
  <2> QED
    BY <1>2, <2>3, <2>4, ReportStays
<1>4. CASE ~EndBatch(d)
  <2>1. dpc[d] \notin {"batch", "single"}
    BY <1>4 DEF DrainStep, CountPending, CountProcessing, Sweep, Recount, RecountIdle
  <2>2. \A t \in Pool(d) : wpc[t] = "idle"
    BY <2>1 DEF PoolQuiet
  <2>3. \A t \in Pool(d) : wpc'[t] \in {"idle", "check"}
    BY <1>4, <2>2 DEF DrainStep, CountPending, CountProcessing, Sweep, Recount, RecountIdle,
       NextBatch, OpenBatch, threads, Pool
  <2>4. Counting(d) = {} /\ Counting(d)' = {}
    BY <2>2, <2>3 DEF Counting, Pool
  <2>5. total'[d] + counted'[d] = total[d] + counted[d]
    <3>1. counted[d] = 0
      BY <2>1 DEF CountedRests
    <3>2. CASE \E pc : GoTo(d, pc)
      BY <3>2 DEF GoTo, TypeOK, DrainType
    <3>3. CASE \E pc, n : OpenBatch(d, pc, n) /\ UNCHANGED total
      BY <3>1, <3>3 DEF OpenBatch, TypeOK, DrainType
    <3> QED
      BY <1>4, <3>2, <3>3 DEF DrainStep, CountPending, CountProcessing, Sweep, Recount,
         RecountIdle, NextBatch
  <2> QED
    BY <1>2, <2>4, <2>5, ReportStays
<1> QED
  BY <1>3, <1>4

(* Nor any step of the others, as long as the repair job stands still.       *)
LEMMA OthersReport ==
  ASSUME TypeOK, TypeOK', NEW d \in Drains,
         \/ \E a \in Articles : InsertRaw(a) \/ GrowStale(a)
         \/ hpc' = hpc /\ \E h \in Healers : HealStep(h)
  PROVE  Reported(d)' - Reported(d) = Settled' - Settled
<1>1. UNCHANGED <<wpc, drains>>
  BY OthersLeaveDrains DEF threads
<1>2. Counting(d)' = Counting(d)
  BY <1>1 DEF Counting, Pool
<1>3. Finished' = Finished
  <2>1. ASSUME NEW a \in Articles, InsertRaw(a) \/ GrowStale(a) PROVE Finished' = Finished
    BY <2>1 DEF InsertRaw, GrowStale, Finished, With, TypeOK, RowType
  <2>2. ASSUME NEW h \in Healers, HealStep(h), hpc' = hpc PROVE Finished' = Finished
    <3>1. UNCHANGED status
      BY <2>2 DEF HealStep, HealLook, HealMark, HealSwallow, HealStops, HealStale,
         FindTransient, RetryTransient, HealTo, TypeOK, HealType, rows
    <3> QED
      BY <3>1 DEF Finished, With
  <2> QED
    BY <2>1, <2>2
<1> QED
  BY <1>1, <1>2, <1>3, ReportStays DEF drains

(* The report of a drain that has its turn counts each article it settled    *)
(* exactly once, for any number of threads and articles, batch limits and    *)
(* failures.                                                                 *)
THEOREM CountedOnceAlways ==
  ASSUME MaxAging = 0 PROVE Spec /\ []InTurn => CountedOnce
<1>1. TypeOK /\ TypeOK' /\ PoolQuiet /\ InTurn /\ InTurn' /\ CountedRests
        /\ (used.ops = 0 => LoneInv) /\ [Next]_vars
        => [used'.ops = 0 /\ hpc' = hpc =>
              \A d \in Drains : dpc[d] # "off" /\ dpc'[d] # "off" =>
                Reported(d)' - Reported(d) = Settled' - Settled]_vars
  <2> SUFFICES ASSUME TypeOK, TypeOK', PoolQuiet, InTurn, InTurn', CountedRests,
                      used.ops = 0 => LoneInv, Next,
                      used'.ops = 0, hpc' = hpc, NEW d \in Drains,
                      dpc[d] # "off", dpc'[d] # "off"
               PROVE  Reported(d)' - Reported(d) = Settled' - Settled
    BY Zenon
  <2>1. LoneInv /\ ~Operator
    BY UsedGrows DEF Limits
  <2>2. ASSUME NEW e \in Drains, StartDrain(e) \/ StartSingleBatch(e) \/ DrainStep(e) \/ Crash(e)
        PROVE  DrainStep(d)
    <3>1. e = d
      BY <2>2, OthersRest
    <3> QED
      BY <2>2, <3>1 DEF StartDrain, StartSingleBatch, Crash, TypeOK, DrainType
  <2> QED
    BY <2>1, <2>2, WorkerReports, DrainReports, OthersReport DEF Next
<1> QED
  BY TypeCorrect, QuietAlways, RestsAlways, LoneAlways, <1>1, PTL
  DEF Spec, CountedOnce
=============================================================================
