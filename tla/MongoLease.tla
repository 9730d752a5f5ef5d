----------------------------- MODULE MongoLease -----------------------------
(* A lease kept as one document of the pipeline_locks collection: auto_drain *)
(* and pipeline_cycle (news/pipeline/auto_runner.py), scheduled_scrape       *)
(* (news/schedule/scrape_scheduler.py).  The three share their protocol and  *)
(* differ in whether try_acquire first clears a stale document, in what      *)
(* clearing leaves behind, and in what others do with the document.  Every   *)
(* database call is a step of its own.                                       *)
EXTENDS Integers, FiniteSets

CONSTANTS Kinds,        \* the leases this instance is about
          Owners,       \* threads that take the lease
          Watchers,     \* threads that do not take it but look at it
          Remote,       \* the threads that run in the other container
          Alike,        \* owners with one pid and thread name in their containers
          TTL,          \* lease time, in ticks
          Punctual,     \* the owners that always end before their lease runs out
          MaxFaults     \* bound: deaths of processes and database calls that raise

ASSUME LeaseAssumption ==
  /\ Kinds \subseteq {"auto_drain", "pipeline_cycle", "scheduled_scrape"}
  /\ Owners \cap Watchers = {} /\ "namesake" \notin Owners \cup Watchers
  /\ TTL \in Nat \ {0} /\ MaxFaults \in Nat
  /\ Punctual \subseteq Owners /\ Alike \subseteq Owners

Unset == -1              \* locked_until is not there
NoDoc == [here |-> FALSE, left |-> Unset, holder |-> <<>>]

VARIABLES kind,    \* which lease the behaviour is about
          doc,     \* the document: is it there, the ticks left until locked_until
                   \* (0 once it has passed), holder ("pid:thread")
          pid,     \* how often each thread's process was restarted
          pc,      \* where each thread is
          seen,    \* the document clear_stale_* has read, until it erases it
          faults,  \* processes that have died and calls that have raised
          robbed   \* history: owners whose running lease somebody else ended

vars == <<kind, doc, pid, pc, seen, faults, robbed>>

Callers == Owners \cup Watchers

\* try_acquire of pipeline_cycle does not clear its own lease.  The API loop does, before
\* it asks for it; run_news_cycle clears auto_drain; scheduled_scrape is only emptied.
ClearsFirst(o) == o \in Watchers \/ kind # "pipeline_cycle"
Deletes == kind # "scheduled_scrape"

Tag(o)  == <<IF o \in Alike THEN "namesake" ELSE o, pid[o]>>
\* Mutant of Mine: one tick too many.
MineLong(o) == [here |-> TRUE, left |-> TTL + 1, holder |-> Tag(o)]
Mine(o) == [here |-> TRUE, left |-> TTL, holder |-> Tag(o)]
Held    == doc.here /\ doc.left > 0

SameHost(o, p) == (o \in Remote) <=> (p \in Remote)

\* os.kill(pid, 0) finds the processes of the asker's own host.  The pid of a dead or
\* foreign holder may be in use there, too, so it may look alive.
Known(o, d)       == \E p \in Callers : SameHost(o, p) /\ Tag(p) = d.holder
MayLookDead(o, d) == d.holder # <<>> /\ ~Known(o, d)

Docs == [here : BOOLEAN, left : {Unset} \cup 0..TTL,
         holder : {<<>>} \cup ((Callers \cup {"namesake"}) \X Nat)]

Goto(o, l) == pc' = [pc EXCEPT ![o] = l]

\* The owners in their section whose running lease this is, but for those in T.
Losers(T) == {p \in Owners \ T : pc[p] = "held" /\ Held /\ doc.holder = Tag(p)}

Init ==
  /\ kind \in Kinds
  /\ doc = NoDoc \/ (~Deletes /\ doc = [NoDoc EXCEPT !.here = TRUE])
  /\ pid = [o \in Callers |-> 0]
  /\ pc = [o \in Callers |-> "idle"]
  /\ seen = [o \in Callers |-> NoDoc]
  /\ faults = 0 /\ robbed = {}

Begin(o) ==
  /\ pc[o] = "idle"
  /\ Goto(o, IF ClearsFirst(o) THEN "look" ELSE "update")
  /\ UNCHANGED <<kind, doc, pid, seen, faults, robbed>>

\* What follows the clearing: an owner takes the lease, a watcher asks for it.
AfterClear(o) == IF o \in Owners THEN "update" ELSE IF kind = "auto_drain" THEN "idle" ELSE "peek"

\* clear_stale_*: the document is read and judged ...
FindStale(o) ==
  /\ pc[o] = "look" /\ doc.here /\ (doc.left = 0 \/ MayLookDead(o, doc))
  /\ seen' = [seen EXCEPT ![o] = doc]
  /\ Goto(o, "erase")
  /\ UNCHANGED <<kind, doc, pid, faults, robbed>>

FindFresh(o) ==
  /\ pc[o] = "look" /\ (doc.here => doc.left # 0)
  /\ Goto(o, AfterClear(o))
  /\ UNCHANGED <<kind, doc, pid, seen, faults, robbed>>

\* ... and erased by _id in the next call, whoever holds it by now.
Erase(o) ==
  /\ pc[o] = "erase"
  /\ doc' = IF Deletes THEN NoDoc ELSE [NoDoc EXCEPT !.here = doc.here]
  /\ seen' = [seen EXCEPT ![o] = NoDoc]
  /\ robbed' = robbed \cup Losers({})
  /\ Goto(o, AfterClear(o))
  /\ UNCHANGED <<kind, pid, faults>>

\* Mutants of Update: any document is taken; only a missing one ever is.
UpdateAny(o) ==
  /\ pc[o] = "update"
  /\ IF doc.here THEN doc' = Mine(o) /\ Goto(o, "held") ELSE doc' = doc /\ Goto(o, "insert")
  /\ UNCHANGED <<kind, pid, seen, faults, robbed>>

UpdateNone(o) ==
  /\ pc[o] = "update" /\ Goto(o, "insert")
  /\ UNCHANGED <<kind, doc, pid, seen, faults, robbed>>

\* find_one_and_update of an expired or unlocked document.
Update(o) ==
  /\ pc[o] = "update"
  /\ IF doc.here /\ ~Held THEN doc' = Mine(o) /\ Goto(o, "held")
                         ELSE doc' = doc /\ Goto(o, "insert")
  /\ UNCHANGED <<kind, pid, seen, faults, robbed>>

\* insert_one, refused by the unique _id.
Insert(o) ==
  /\ pc[o] = "insert"
  /\ IF doc.here THEN doc' = doc /\ Goto(o, "idle")
                 ELSE doc' = Mine(o) /\ Goto(o, "held")
  /\ UNCHANGED <<kind, pid, seen, faults, robbed>>

\* Mutant of Release: the filter on the holder is dropped.
ReleaseAny(o) ==
  /\ pc[o] = "held"
  /\ doc' = IF doc.here THEN [doc EXCEPT !.left = 0] ELSE doc
  /\ robbed' = robbed \ {o}
  /\ Goto(o, "idle")
  /\ UNCHANGED <<kind, pid, seen, faults>>

\* The finally clause: expire the lease if the document still carries this tag.
Release(o) ==
  /\ pc[o] = "held"
  /\ IF doc.here /\ doc.holder = Tag(o)
     THEN doc' = [doc EXCEPT !.left = 0] /\ robbed' = (robbed \cup Losers({o})) \ {o}
     ELSE doc' = doc /\ robbed' = robbed \ {o}
  /\ Goto(o, "idle")
  /\ UNCHANGED <<kind, pid, seen, faults>>

\* _lock_held after the clearing: "go" when it answers False.
Peek(w) ==
  /\ pc[w] = "peek"
  /\ Goto(w, IF Held THEN "idle" ELSE "go")
  /\ UNCHANGED <<kind, doc, pid, seen, faults, robbed>>

Go(w) == pc[w] = "go" /\ Goto(w, "idle") /\ UNCHANGED <<kind, doc, pid, seen, faults, robbed>>

\* The thread's next call raises and ends what it was about, the release included.
CallRaises(o) ==
  /\ pc[o] # "idle" /\ faults < MaxFaults /\ faults' = faults + 1
  /\ Goto(o, "idle")
  /\ seen' = [seen EXCEPT ![o] = NoDoc] /\ robbed' = robbed \ {o}
  /\ UNCHANGED <<kind, doc, pid>>

\* The process dies; its container or cron starts it again under another pid.
Crash(o) ==
  /\ pc[o] # "idle" /\ faults < MaxFaults /\ faults' = faults + 1
  /\ pid' = [pid EXCEPT ![o] = @ + 1]
  /\ Goto(o, "idle")
  /\ seen' = [seen EXCEPT ![o] = NoDoc] /\ robbed' = robbed \ {o}
  /\ UNCHANGED <<kind, doc>>

\* Time passes; a punctual owner releases before its lease is over.
Tick ==
  /\ doc.left > 0
  /\ doc.left = 1 => \A o \in Punctual : pc[o] # "held" \/ o \in robbed
  /\ doc' = [doc EXCEPT !.left = @ - 1]
  /\ UNCHANGED <<kind, pid, pc, seen, faults, robbed>>

Step(o) == \/ Begin(o) \/ FindStale(o) \/ FindFresh(o) \/ Erase(o)
           \/ Update(o) \/ Insert(o) \/ Release(o) \/ Peek(o) \/ Go(o)

Next == Tick \/ \E o \in Callers : Step(o) \/ CallRaises(o) \/ Crash(o)

Spec == Init /\ [][Next]_vars

(* Time passes, and the loops and cron jobs behind the callers go on.        *)
FairSpec == Spec /\ WF_vars(Tick) /\ \A o \in Callers : WF_vars(Step(o))

----------------------------------------------------------------------------
(* Every variable keeps its type.                                            *)
TypeOK ==
  /\ kind \in Kinds /\ doc \in Docs /\ seen \in [Callers -> Docs]
  /\ pid \in [Callers -> Nat] /\ faults \in 0..MaxFaults /\ robbed \subseteq Owners
  /\ pc \in [Callers -> {"idle", "look", "erase", "update", "insert", "held", "peek", "go"}]
  /\ \A w \in Watchers : pc[w] \notin {"update", "insert", "held"}

(* "Mongo-backed lock so only one drain runs across threads/processes"       *)
(* (try_acquire_auto_lock).  Of the owners that do not overrun their lease   *)
(* at most one is between try_acquire's True and its release whose lease     *)
(* nobody ended under it: two run at once only where one was robbed, and     *)
(* not because of restarts, failing calls or owners that overrun theirs.     *)
MutualExclusion ==
  \A o, p \in Punctual : pc[o] = "held" /\ pc[p] = "held" => o = p \/ {o, p} \cap robbed # {}

(* How a running lease ends: time shortens it; its holder (or an owner of    *)
(* the same pid and thread name) ends it; or one that clears stale leases    *)
(* erases it.  That hits a live owner only if the document judged was over   *)
(* or another's, and this one came in between the two calls, or if eraser    *)
(* and owner are in different containers (or bear the same name).  An owner  *)
(* never takes or ends a lease that is another's, however late it is.        *)
Excused(o, p) ==
  seen[o].left = 0 \/ seen[o].holder # doc.holder \/ ~SameHost(o, p) \/ p \in Alike
LeaseRespected ==
  [][Held => \/ doc' = doc
             \/ doc' = [doc EXCEPT !.left = @ - 1]
             \/ \E o \in Owners : /\ doc.holder = Tag(o) /\ pc[o] = "held"
                                  /\ pc'[o] = "idle" /\ doc' = [doc EXCEPT !.left = 0]
             \/ \E o \in Callers : /\ pc[o] = "erase" /\ doc'.left = Unset
                                   /\ \A p \in Owners : pc[p] = "held" /\ doc.holder = Tag(p)
                                                          => Excused(o, p)]_vars

(* "Held for the duration of run_news_cycle (cron container / manual full    *)
(* cycle)" (try_acquire_pipeline_cycle_lock): while an owner runs, punctual, *)
(* the running lease is its own.                                             *)
HeldThroughout == \A o \in Punctual : pc[o] = "held" => Held /\ doc.holder = Tag(o)

(* "Mongo-backed lock so only one drain runs across threads/processes",      *)
(* taken at its word.                                                        *)
OneDrain == \A o, p \in Punctual : pc[o] = "held" /\ pc[p] = "held" => o = p

(* Whatever dead, late or robbed owners and failing calls leave behind, the  *)
(* lease is taken again and again.                                           *)
TakenAgain == []<>(\E o \in Owners : pc[o] = "held")
=============================================================================
