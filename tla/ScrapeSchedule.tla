--------------------------- MODULE ScrapeSchedule ---------------------------
(* The daily scrape: background loops and the run_scheduled_scrape command   *)
(* that share one pipeline_locks document, and the admin scrapes that share  *)
(* only the process-wide insert count.  Time is counted in ticks; the lease  *)
(* is one step (MongoLease has its calls).  Source: news/schedule/           *)
(* scrape_scheduler.py, scrape_raw_news.py.                                  *)
EXTENDS Integers, FiniteSets

CONSTANTS Loops,       \* _scrape_loop threads, one to a process
          Commands,    \* run_scheduled_scrape, a process each; it forces the run
          Served,      \* the loops whose processes serve admins
          Requests,    \* admin scrape requests such a process serves at a time
          Foreign,     \* loops and commands of the other container
          Interval,    \* DAILY_SCRAPE_INTERVAL_HOURS, in ticks
          Limit,       \* SCRAPE_SCHEDULE_TOTAL_LIMIT
          AdminLimit,  \* the most an admin's request may ask for
          MaxFaults    \* bound: processes that die, and database calls that raise

ASSUME ScheduleAssumption ==
  /\ Interval \in Nat \ {0} /\ Limit \in Nat \ {0} /\ AdminLimit \in Nat \ {0}
  /\ MaxFaults \in Nat
  /\ Served \subseteq Loops /\ Loops \cap Commands = {}
  /\ (Loops \cup Commands) \cap (Served \X Requests) = {}

Scheduled == Loops \cup Commands
Admins    == Served \X Requests
Callers   == Scheduled \cup Admins
Proc(c)   == IF c \in Admins THEN c[1] ELSE c
Cap(c)    == IF c \in Admins THEN AdminLimit ELSE Limit
Never     == -1           \* last_run_at is not there

VARIABLES
  age,     \* ticks since last_run_at, counted up to Interval
  lease,   \* the scheduled_scrape lease
  pc,      \* where each caller is
  new,     \* articles the caller's scrape has inserted
  told,    \* what run_scheduled_scrape_cycle returned, or the except branch read
  count,   \* _last_scrape_insert_count of each process
  since,   \* history: ticks since a scheduled scrape last began, up to Interval
  alone,   \* history: loops whose check saw no other scheduled run under way, and
           \* none has begun since
  mixed,   \* history: scheduled runs whose count is not their own
  used     \* crashes and errors so far

hist  == <<since, alone, mixed>>
svars == <<age, lease, pc, new, told, count, hist, used>>
local == <<new, told, count>>

MayFail == used.crash + used.db + used.lease < MaxFaults
SameHost(c, d) == (c \in Foreign) <=> (d \in Foreign)
\* From the first scrape to the record of a run; from the first to the last look at count.
Running(d)  == pc[d] \in {"scrape", "ask", "failed", "pipeline", "record"}
Counting(d) == pc[d] \in {"scrape", "ask", "failed"}
\* The runs in c's process that will read the count c writes.
Beside(c)   == {d \in Scheduled \ {c} : Proc(d) = Proc(c) /\ Counting(d)}

Goto(c, l) == pc' = [pc EXCEPT ![c] = l]
Clear(f, S) == [c \in DOMAIN f |-> IF c \in S THEN 0 ELSE f[c]]

Init ==
  /\ age \in {Never, Interval} /\ since = Interval
  /\ lease = [live |-> FALSE, holder |-> "nobody"]
  /\ pc = [c \in Callers |-> "idle"]
  /\ new = [c \in Callers |-> 0] /\ told = [c \in Scheduled |-> 0]
  /\ count = [p \in Scheduled |-> 0]
  /\ alone = {} /\ mixed = {}
  /\ used = [crash |-> 0, db |-> 0, lease |-> 0]

----------------------------------------------------------------------------
(* maybe_run_scheduled_scrape.  Its _local_guard is never contended: only    *)
(* the one loop of a process, or the command, calls it.                      *)

\* _interval_elapsed; a schedule that never ran waits for a first manual run.
Elapsed == age # Never /\ age >= Interval

\* The interval is looked at before the lock is, and not again under it.
Begin(c) ==
  /\ pc[c] = "idle" /\ (c \in Commands \/ Elapsed)
  /\ Goto(c, "lock")
  /\ alone' = IF \E d \in Scheduled : Running(d) THEN alone \ {c} ELSE alone \cup ({c} \cap Loops)
  /\ UNCHANGED <<age, lease, local, since, mixed, used>>

\* Mutant of Refuses: a released document is never taken again.
RefusesTaken(l) == l.holder # "nobody"
Refuses(l) == l.live
\* os.kill in c's container; a pid of the other one may or may not be in use there.
LooksDead(c, l) == l.holder = "dead" \/ (l.holder \in Scheduled /\ ~SameHost(c, l.holder))

LockHeld(c) ==
  /\ pc[c] = "lock" /\ Refuses(lease)
  /\ Goto(c, "idle") /\ alone' = alone \ {c}
  /\ UNCHANGED <<age, lease, local, since, mixed, used>>

TakeLock(c) ==
  /\ pc[c] = "lock" /\ (~Refuses(lease) \/ LooksDead(c, lease))
  /\ lease' = [live |-> TRUE, holder |-> c]
  /\ Goto(c, "enter")
  /\ UNCHANGED <<age, local, hist, used>>

\* Mutant of Enter: the count of the run before is kept.
EnterKeep(c) ==
  /\ pc[c] = "enter"
  /\ mixed' = mixed \cup Beside(c)
  /\ IF c \in Scheduled THEN since' = 0 /\ alone' = {} ELSE UNCHANGED <<since, alone>>
  /\ Goto(c, "scrape")
  /\ UNCHANGED <<age, lease, local, used>>

\* scrape_raw_news starts: the process-wide count is set to 0.
Enter(c) ==
  /\ pc[c] = "enter"
  /\ count' = [count EXCEPT ![Proc(c)] = 0] /\ mixed' = mixed \cup Beside(c)
  /\ IF c \in Scheduled THEN since' = 0 /\ alone' = {} ELSE UNCHANGED <<since, alone>>
  /\ Goto(c, "scrape")
  /\ UNCHANGED <<age, lease, new, told, used>>

\* run_news_cycle raises before or after its scrape, at the pipeline_cycle lease.
LeaseRaises(c) ==
  /\ pc[c] \in {"enter", "ask"} /\ MayFail /\ used' = [used EXCEPT !.lease = @ + 1]
  /\ Goto(c, IF c \in Scheduled THEN "failed" ELSE "idle") /\ alone' = alone \ {c}
  /\ mixed' = IF pc[c] = "enter" THEN mixed \cup ({c} \cap Scheduled) ELSE mixed
  /\ UNCHANGED <<age, lease, local, since>>

\* Mutant of Insert: the limit is looked at with one more article in hand.
InsertOver(c) ==
  /\ pc[c] = "scrape" /\ new[c] < Cap(c) + 1
  /\ new' = [new EXCEPT ![c] = @ + 1]
  /\ UNCHANGED <<age, lease, pc, told, count, hist, used>>

\* insert_raw_if_new, up to the total limit of the run, which an admin chooses.
Insert(c) ==
  /\ pc[c] = "scrape" /\ new[c] < Cap(c)
  /\ new' = [new EXCEPT ![c] = @ + 1]
  /\ UNCHANGED <<age, lease, pc, told, count, hist, used>>

\* The scrape is over: the count is told to the process.
Leave(c) ==
  /\ pc[c] = "scrape"
  /\ count' = [count EXCEPT ![Proc(c)] = new[c]] /\ mixed' = mixed \cup Beside(c)
  /\ IF c \in Scheduled THEN Goto(c, "ask") /\ UNCHANGED new
                        ELSE Goto(c, "idle") /\ new' = [new EXCEPT ![c] = 0]
  /\ UNCHANGED <<age, lease, told, since, alone, used>>

\* Mutant of Raise: the exception skips _record_last_run.
RaisePast(c) ==
  /\ pc[c] = "scrape"
  /\ Goto(c, IF c \in Scheduled THEN "release" ELSE "idle")
  /\ new' = [new EXCEPT ![c] = 0]
  /\ UNCHANGED <<age, lease, told, count, hist, used>>

\* A source raises: what was inserted is not counted.
Raise(c) ==
  /\ pc[c] = "scrape"
  /\ Goto(c, IF c \in Scheduled THEN "failed" ELSE "idle")
  /\ new' = [new EXCEPT ![c] = 0]
  /\ UNCHANGED <<age, lease, told, count, hist, used>>

\* get_last_scrape_insert_count, after the scrape phase or in the except branch.
Ask(c) ==
  /\ pc[c] \in {"ask", "failed"}
  /\ told' = [told EXCEPT ![c] = count[Proc(c)]]
  /\ Goto(c, IF pc[c] = "ask" THEN "pipeline" ELSE "record")
  /\ UNCHANGED <<age, lease, new, count, hist, used>>

\* The second run_news_cycle; whatever it raises is logged.
Pipeline(c) ==
  /\ pc[c] = "pipeline" /\ Goto(c, "record")
  /\ UNCHANGED <<age, lease, local, hist, used>>

Record(c) ==
  /\ pc[c] = "record" /\ age' = 0 /\ Goto(c, "release")
  /\ UNCHANGED <<lease, local, hist, used>>

RecordRaises(c) ==
  /\ pc[c] = "record" /\ MayFail
  /\ used' = [used EXCEPT !.db = @ + 1] /\ Goto(c, "release")
  /\ UNCHANGED <<age, lease, local, hist>>

Release(c) ==
  /\ pc[c] = "release"
  /\ lease' = IF lease.holder = c THEN [lease EXCEPT !.live = FALSE] ELSE lease
  /\ Goto(c, "idle")
  /\ new' = Clear(new, {c}) /\ told' = Clear(told, {c}) /\ mixed' = mixed \ {c}
  /\ UNCHANGED <<age, count, since, alone, used>>

\* An admin's scrape request (AdminScrapeRunView) takes no part in the schedule.
Request(c) ==
  /\ pc[c] = "idle" /\ Goto(c, "enter")
  /\ UNCHANGED <<age, lease, local, hist, used>>

Scrape(c) == Enter(c) \/ LeaseRaises(c) \/ Insert(c) \/ Leave(c) \/ Raise(c)
Cycle(c)  == \/ Begin(c) \/ LockHeld(c) \/ TakeLock(c) \/ Scrape(c) \/ Ask(c)
             \/ Pipeline(c) \/ Record(c) \/ RecordRaises(c) \/ Release(c)

\* A process dies with its loop and its requests; the loop's process comes back.
Crash(p) ==
  LET dead == {c \in Callers : Proc(c) = p}
  IN /\ \E c \in dead : pc[c] # "idle"
     /\ MayFail /\ used' = [used EXCEPT !.crash = @ + 1]
     /\ pc' = [c \in Callers |-> IF c \in dead THEN "idle" ELSE pc[c]]
     /\ new' = Clear(new, dead) /\ told' = Clear(told, dead) /\ count' = Clear(count, dead)
     /\ lease' = IF lease.holder = p THEN [lease EXCEPT !.holder = "dead"] ELSE lease
     /\ alone' = alone \ dead /\ mixed' = mixed \ dead
     /\ UNCHANGED <<age, since>>

Tick ==
  /\ since < Interval \/ (age # Never /\ age < Interval)
  /\ since' = IF since < Interval THEN since + 1 ELSE since
  /\ age' = IF age # Never /\ age < Interval THEN age + 1 ELSE age
  /\ UNCHANGED <<lease, pc, local, alone, mixed, used>>

\* SCRAPE_SCHEDULE_LOCK_TTL_SECONDS are over, whether or not the holder is.
Lapse ==
  /\ lease.live /\ lease' = [lease EXCEPT !.live = FALSE]
  /\ UNCHANGED <<age, pc, local, hist, used>>

Next == \/ \E c \in Scheduled : Cycle(c)
        \/ \E c \in Admins : Request(c) \/ Scrape(c)
        \/ \E p \in Scheduled : Crash(p)
        \/ Tick \/ Lapse

Spec == Init /\ [][Next]_svars

(* The hourly check of a loop goes on, sources answer or fail, time passes.  *)
FairSpec ==
  /\ Spec /\ WF_svars(Tick) /\ WF_svars(Lapse)
  /\ \A c \in Loops : WF_svars(Cycle(c))

----------------------------------------------------------------------------
(* Every variable keeps its type, and no run inserts more than it may.       *)
Counts == 0..Limit \cup 0..AdminLimit
TypeOK ==
  /\ age \in {Never} \cup 0..Interval /\ since \in 0..Interval
  /\ lease \in [live : BOOLEAN, holder : Scheduled \cup {"nobody", "dead"}]
  /\ pc \in [Callers -> {"idle", "lock", "enter", "scrape", "ask", "failed", "pipeline",
                         "record", "release"}]
  /\ new \in [Callers -> Nat] /\ \A c \in Callers : new[c] <= Cap(c)
  /\ told \in [Scheduled -> Counts] /\ count \in [Scheduled -> Counts]
  /\ alone \subseteq Loops /\ mixed \subseteq Scheduled
  /\ used \in [crash : 0..MaxFaults, db : 0..MaxFaults, lease : 0..MaxFaults]

(* "Hard policy: one scheduled scrape every 24 hours" (scrape_scheduler.py): *)
(* a loop starts a scrape only when Interval has passed since a scheduled    *)
(* scrape last started in any process, also when that one raised, unless one *)
(* of the following broke the policy: a command, which forces its run; a     *)
(* crash or a failed record, which leave no trace of a run; or another       *)
(* scheduled run that was under way when this loop looked at the interval,   *)
(* or began between that look and its own start, as it may because the look  *)
(* comes before the lock and a lease may lapse or look abandoned.            *)
Starts(c)   == pc[c] = "enter" /\ pc'[c] = "scrape"
Undisturbed == used.crash = 0 /\ used.db = 0
OncePerInterval ==
  [][Undisturbed => \A c \in alone : Starts(c) => since >= Interval]_svars

(* run_scheduled_scrape_cycle "Returns the number of new raw articles        *)
(* inserted": the process-wide count it reads is what its own scrape         *)
(* inserted, and 0 when that raised, unless another scrape of the process    *)
(* began or ended in between, or the run raised before it scraped.           *)
CountTold ==
  [][\A c \in Scheduled \ mixed :
       Counting(c) /\ pc'[c] \in {"pipeline", "record"} => told'[c] = new[c]]_svars

(* Once a first run was recorded, the daily scrape goes on: no failed run,   *)
(* dead process or orphaned lease ends the schedule.                         *)
RunsAgain == age # Never ~> (\E c \in Scheduled : pc[c] = "scrape")
=============================================================================
