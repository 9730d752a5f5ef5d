----------------------- MODULE ScrapeSchedule_proofs -----------------------
(* Theorems of ScrapeSchedule, for any number of loops, commands, containers *)
(* and admin requests: no scrape exceeds its limit, the policy of one run    *)
(* per interval, and what a run tells of its count.                          *)
EXTENDS ScrapeSchedule, TLAPS

(* Every step keeps every variable in its type.                              *)
LEMMA TypeStep == TypeOK /\ [Next]_svars => TypeOK'
<1> SUFFICES ASSUME TypeOK, [Next]_svars PROVE TypeOK'
  OBVIOUS
<1> USE ScheduleAssumption DEF TypeOK, Goto, Never, Scheduled, Callers, local, hist, MayFail
<1>p. \A c \in Callers : Proc(c) \in Scheduled /\ (c \in Scheduled => c \in Callers)
  BY DEF Proc, Admins
<1>1. ASSUME NEW c \in Scheduled, Begin(c) \/ LockHeld(c) \/ TakeLock(c) \/ Pipeline(c)
                                  \/ Record(c) \/ Release(c)
      PROVE  TypeOK'
  <2>1. CASE Begin(c) \/ LockHeld(c) \/ Pipeline(c) \/ Record(c)
    BY <2>1, <1>p DEF Begin, LockHeld, Pipeline, Record
  <2>2. CASE TakeLock(c)
    BY <2>2 DEF TakeLock
  <2>3. CASE Release(c)
    <3>1. /\ new' \in [Callers -> Nat] /\ \A d \in Callers : new'[d] <= Cap(d)
          /\ told' \in [Scheduled -> Counts]
      BY <2>3, <1>p DEF Release, Clear, Counts, Cap
    <3>2. lease' \in [live : BOOLEAN, holder : Scheduled \cup {"nobody", "dead"}]
      BY <2>3 DEF Release
    <3> QED
      BY <2>3, <3>1, <3>2 DEF Release
  <2> QED
    BY <1>1, <2>1, <2>2, <2>3
<1>2. ASSUME NEW c \in Scheduled, RecordRaises(c) PROVE TypeOK'
  BY <1>2 DEF RecordRaises
<1>3. ASSUME NEW c \in Scheduled, Ask(c) PROVE TypeOK'
  BY <1>3, <1>p DEF Ask
<1>4. ASSUME NEW c \in Callers, Scrape(c) PROVE TypeOK'
  <2>1. CASE Enter(c)
    BY <2>1, <1>p DEF Enter, Beside, Counts
  <2>2. CASE Insert(c)
    <3>1. Cap(c) \in Nat
      BY DEF Cap
    <3>2. new' \in [Callers -> Nat] /\ \A d \in Callers : new'[d] <= Cap(d)
      BY <2>2, <3>1 DEF Insert
    <3> QED
      BY <2>2, <3>2 DEF Insert
  <2>3. CASE Leave(c)
    <3>1. new[c] \in Counts /\ Cap(c) \in Nat
      BY <1>p DEF Counts, Cap
    <3> QED
      BY <2>3, <3>1, <1>p DEF Leave, Beside
  <2>4. CASE Raise(c)
    BY <2>4, <1>p DEF Raise, Cap
  <2>5. CASE LeaseRaises(c)
    BY <2>5, <1>p DEF LeaseRaises
  <2> QED
    BY <1>4, <2>1, <2>2, <2>3, <2>4, <2>5 DEF Scrape
<1>5. ASSUME NEW c \in Admins, Request(c) PROVE TypeOK'
  BY <1>5 DEF Request
<1>6. ASSUME NEW p \in Scheduled, Crash(p) PROVE TypeOK'
  <2> DEFINE dead == {c \in Callers : Proc(c) = p}
  <2>1. \E D \in SUBSET Callers : /\ pc' = [c \in Callers |-> IF c \in D THEN "idle" ELSE pc[c]]
                                /\ new' = Clear(new, D) /\ told' = Clear(told, D)
                                /\ count' = Clear(count, D)
    <3>1. dead \in SUBSET Callers
      OBVIOUS
    <3>2. /\ pc' = [c \in Callers |-> IF c \in dead THEN "idle" ELSE pc[c]]
          /\ new' = Clear(new, dead) /\ told' = Clear(told, dead) /\ count' = Clear(count, dead)
      BY <1>6 DEF Crash
    <3> QED
      BY <3>1, <3>2
  <2>2. /\ pc' \in [Callers -> {"idle", "lock", "enter", "scrape", "ask", "failed", "pipeline",
                                "record", "release"}]
        /\ new' \in [Callers -> Nat] /\ \A c \in Callers : new'[c] <= Cap(c)
        /\ told' \in [Scheduled -> Counts] /\ count' \in [Scheduled -> Counts]
    BY <2>1 DEF Clear, Counts, Cap
  <2>3. lease' \in [live : BOOLEAN, holder : Scheduled \cup {"nobody", "dead"}]
    BY <1>6 DEF Crash
  <2>4. /\ used' \in [crash : 0..MaxFaults, db : 0..MaxFaults, lease : 0..MaxFaults]
        /\ UNCHANGED <<age, since>> /\ alone' \subseteq alone /\ mixed' \subseteq mixed
    BY <1>6 DEF Crash
  <2> QED
    BY <2>2, <2>3, <2>4
<1>7. CASE Tick \/ Lapse
  <2>1. CASE Tick
    BY <2>1 DEF Tick
  <2>2. CASE Lapse
    BY <2>2 DEF Lapse
  <2> QED
    BY <1>7, <2>1, <2>2
<1>8. CASE UNCHANGED svars
  BY <1>8 DEF svars, local
<1> QED
  BY <1>1, <1>2, <1>3, <1>4, <1>5, <1>6, <1>7, <1>8 DEF Next, Cycle

(* Type correctness, and with it: a scrape inserts no more than its limit,   *)
(* the schedule's own or the one an admin asked for.                         *)
THEOREM ScheduleTypeCorrect == Spec => []TypeOK
<1>1. Init => TypeOK
  BY ScheduleAssumption DEF Init, TypeOK, Never, Callers, Counts, Cap
<1> QED
  BY <1>1, TypeStep, PTL DEF Spec

-----------------------------------------------------------------------------
(* last_run_at is no older than the last scrape unless a run is under way;   *)
(* and who looked at it while none was, and saw none begin, has waited.      *)
Waited ==
  /\ Undisturbed /\ age # Never /\ (\A d \in Scheduled : ~Running(d)) => age <= since
  /\ Undisturbed => \A l \in alone : since = Interval

(* Every step keeps it.                                                      *)
LEMMA WaitedStep ==
  ASSUME TypeOK, Waited, [Next]_svars
  PROVE  Waited'
<1> USE ScheduleAssumption DEF TypeOK, Goto, Never, Scheduled, Callers, local, hist, Waited,
        Running, Undisturbed
<1>1. ASSUME NEW c \in Scheduled, Begin(c) PROVE Waited'
  BY <1>1 DEF Begin, Elapsed
<1>2. ASSUME NEW c \in Scheduled, LockHeld(c) \/ TakeLock(c) \/ Ask(c) \/ Pipeline(c) PROVE Waited'
  BY <1>2 DEF LockHeld, TakeLock, Ask, Pipeline
<1>3. ASSUME NEW c \in Scheduled, Record(c) PROVE Waited'
  BY <1>3 DEF Record
<1>4. ASSUME NEW c \in Scheduled, RecordRaises(c) PROVE ~Undisturbed'
  BY <1>4 DEF RecordRaises
<1>5. ASSUME NEW c \in Scheduled, Release(c) PROVE Waited'
  BY <1>5 DEF Release
<1>6. ASSUME NEW c \in Scheduled, Scrape(c) PROVE Waited'
  BY <1>6 DEF Scrape, Enter, LeaseRaises, Insert, Leave, Raise
<1>7. ASSUME NEW c \in Admins, Request(c) \/ Scrape(c) PROVE Waited'
  <2>1. c \notin Scheduled /\ c \in Callers
    BY DEF Admins
  <2>2. /\ UNCHANGED <<age, since>> /\ \A l \in Scheduled : pc'[l] = pc[l]
        /\ alone' \subseteq alone /\ used'.crash = used.crash /\ used'.db = used.db
    BY <1>7, <2>1 DEF Request, Scrape, Enter, LeaseRaises, Insert, Leave, Raise
  <2> QED
    BY <2>2
<1>8. ASSUME NEW p \in Scheduled, Crash(p) PROVE ~Undisturbed'
  BY <1>8 DEF Crash
<1>9. CASE Tick
  BY <1>9 DEF Tick
<1>10. CASE Lapse
  BY <1>10 DEF Lapse
<1>11. CASE UNCHANGED svars
  BY <1>11 DEF svars
<1> QED
  BY <1>1, <1>2, <1>3, <1>4, <1>5, <1>6, <1>7, <1>8, <1>9, <1>10, <1>11 DEF Next, Cycle

(* "Hard policy: one scheduled scrape every 24 hours", of all loops and      *)
(* commands together, also when scrapes raise and leases lapse or are lost:  *)
(* beside commands, crashes and failed records, only a run that was under    *)
(* way or began between a loop's check and its start makes that loop break   *)
(* it.                                                                       *)
THEOREM OncePerIntervalAlways == Spec => OncePerInterval
<1> DEFINE P == Undisturbed => \A c \in alone : Starts(c) => since >= Interval
<1>1. Init => TypeOK /\ Waited
  BY ScheduleAssumption DEF Init, TypeOK, Waited, Never, Callers, Counts, Cap
<1>2. TypeOK /\ Waited /\ [Next]_svars => (TypeOK /\ Waited)'
  BY TypeStep, WaitedStep
<1>3. TypeOK /\ Waited /\ [Next]_svars => P
  BY ScheduleAssumption DEF TypeOK, Waited, Starts
<1> HIDE DEF P
<1>4. TypeOK /\ Waited /\ [Next]_svars => [P]_svars
  BY <1>3
<1> QED
  BY <1>1, <1>2, <1>4, PTL DEF Spec, OncePerInterval, P

-----------------------------------------------------------------------------
(* While a scrape that nobody disturbed goes on the count is 0; afterwards   *)
(* it is what that scrape inserted.                                          *)
OwnCount ==
  \A c \in Scheduled \ mixed :
    /\ pc[c] = "scrape" => count[c] = 0
    /\ pc[c] \in {"ask", "failed"} => count[c] = new[c]

(* Every step keeps it: who writes the count marks the runs it disturbs.     *)
LEMMA OwnCountStep ==
  ASSUME TypeOK, OwnCount, [Next]_svars
  PROVE  OwnCount'
<1> SUFFICES ASSUME NEW c \in Scheduled, c \notin mixed'
             PROVE  /\ pc'[c] = "scrape" => count'[c] = 0
                    /\ pc'[c] \in {"ask", "failed"} => count'[c] = new'[c]
  BY DEF OwnCount
<1> USE ScheduleAssumption DEF TypeOK, Goto, Scheduled, Callers, local, hist, OwnCount
<1>p. c \in Callers /\ c \notin Admins /\ Proc(c) = c
  BY DEF Proc, Admins
<1>1. ASSUME NEW d \in Scheduled, \/ Begin(d) \/ LockHeld(d) \/ TakeLock(d) \/ Pipeline(d)
                                  \/ Record(d) \/ RecordRaises(d) \/ Ask(d)
      PROVE  /\ pc'[c] = "scrape" => count'[c] = 0
             /\ pc'[c] \in {"ask", "failed"} => count'[c] = new'[c]
  BY <1>1, <1>p DEF Begin, LockHeld, TakeLock, Pipeline, Record, RecordRaises, Ask
<1>2. ASSUME NEW d \in Scheduled, Release(d)
      PROVE  /\ pc'[c] = "scrape" => count'[c] = 0
             /\ pc'[c] \in {"ask", "failed"} => count'[c] = new'[c]
  BY <1>2, <1>p DEF Release, Clear
<1>3. ASSUME NEW d \in Callers, Scrape(d)
      PROVE  /\ pc'[c] = "scrape" => count'[c] = 0
             /\ pc'[c] \in {"ask", "failed"} => count'[c] = new'[c]
  <2>p. Proc(d) \in Scheduled
    BY DEF Proc, Admins
  <2>1. CASE Enter(d)
    BY <2>1, <2>p, <1>p DEF Enter, Beside, Counting
  <2>2. CASE Leave(d)
    BY <2>2, <2>p, <1>p DEF Leave, Beside, Counting
  <2>3. CASE Insert(d) \/ Raise(d)
    BY <2>3, <1>p DEF Insert, Raise
  <2>4. CASE LeaseRaises(d)
    BY <2>4, <1>p DEF LeaseRaises
  <2> QED
    BY <1>3, <2>1, <2>2, <2>3, <2>4 DEF Scrape
<1>4. ASSUME NEW d \in Admins, Request(d)
      PROVE  /\ pc'[c] = "scrape" => count'[c] = 0
             /\ pc'[c] \in {"ask", "failed"} => count'[c] = new'[c]
  BY <1>4, <1>p DEF Request
<1>5. ASSUME NEW p \in Scheduled, Crash(p)
      PROVE  /\ pc'[c] = "scrape" => count'[c] = 0
             /\ pc'[c] \in {"ask", "failed"} => count'[c] = new'[c]
  BY <1>5, <1>p DEF Crash, Clear
<1>6. CASE Tick \/ Lapse \/ UNCHANGED svars
  BY <1>6 DEF Tick, Lapse, svars
<1> QED
  BY <1>1, <1>2, <1>3, <1>4, <1>5, <1>6 DEF Next, Cycle

(* So what a run tells is its own count, however many admins scrape in other *)
(* processes, and after any failure of its own.                              *)
THEOREM CountToldAlways == Spec => CountTold
<1> DEFINE P == \A c \in Scheduled \ mixed :
                  Counting(c) /\ pc'[c] \in {"pipeline", "record"} => told'[c] = new[c]
<1>1. Init => TypeOK /\ OwnCount
  BY ScheduleAssumption DEF Init, TypeOK, OwnCount, Never, Callers, Counts, Cap
<1>2. TypeOK /\ OwnCount /\ [Next]_svars => (TypeOK /\ OwnCount)'
  BY TypeStep, OwnCountStep
<1>3. ASSUME TypeOK, OwnCount, [Next]_svars PROVE P
  <2> SUFFICES ASSUME NEW c \in Scheduled \ mixed, Counting(c), pc'[c] \in {"pipeline", "record"}
               PROVE  told'[c] = new[c]
    OBVIOUS
  <2> USE <1>3, ScheduleAssumption DEF TypeOK, Goto, Scheduled, Callers, local, hist, Counting
  <2>p. c \in Callers /\ c \notin Admins /\ Proc(c) = c
    BY DEF Proc, Admins
  <2>1. CASE Ask(c)
    BY <2>1, <2>p DEF Ask, OwnCount
  <2>2. ASSUME NEW d \in Scheduled, Cycle(d), ~Ask(c) PROVE FALSE
    BY <2>2, <2>p DEF Cycle, Begin, LockHeld, TakeLock, Scrape, Enter, LeaseRaises, Insert, Leave,
       Raise, Ask, Pipeline, Record, RecordRaises, Release
  <2>3. ASSUME NEW d \in Admins, Request(d) \/ Scrape(d) PROVE FALSE
    BY <2>3, <2>p DEF Request, Scrape, Enter, LeaseRaises, Insert, Leave, Raise
  <2>4. ASSUME NEW p \in Scheduled, Crash(p) PROVE FALSE
    BY <2>4, <2>p DEF Crash
  <2>5. CASE Tick \/ Lapse \/ UNCHANGED svars
    BY <2>5 DEF Tick, Lapse, svars
  <2> QED
    BY <2>1, <2>2, <2>3, <2>4, <2>5 DEF Next
<1> HIDE DEF P
<1>4. TypeOK /\ OwnCount /\ [Next]_svars => [P]_svars
  BY <1>3
<1> QED
  BY <1>1, <1>2, <1>4, PTL DEF Spec, CountTold, P
=============================================================================
