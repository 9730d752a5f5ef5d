--------------------------- MODULE Sources_proofs ----------------------------
(* How news gets in: the total limit and the shares of a scrape run          *)
(* (FairScrape), the run of one source (SourceRun) and the edits of the      *)
(* taxonomy that names the sources (Taxonomy), each for every value of its   *)
(* constants; at the end the types of all that fetches, judges and serves    *)
(* the news (MCContent).                                                     *)
EXTENDS MCContent, Readers_proofs

----------------------------------------------------------------------------
(* The total limit and the shares of FairScrape, for any list of targets,    *)
(* any limit and any number of concurrent runs.                              *)

\* What the first i targets of n may take together.
Quota(n, i) == i * (Total \div n) + Smaller(i, Total % n)

Mine(r) == {u \in Urls : by[u] = r}

\* Never more than the quota; while a target is scraped, its own limit is its share.
Budget ==
  \A r \in Runs :
    LET n == Size(ids[r])
    IN /\ at[r] \in 0..n
       /\ sum[r] + got[r] <= Quota(n, at[r])
       /\ pc[r] \in {"visit", "store"} =>
            /\ at[r] \in 1..n /\ eff[r] = Cap(ids[r], at[r])
            /\ sum[r] <= Quota(n, at[r] - 1) /\ got[r] <= eff[r]
       /\ pc[r] = "store" => got[r] < eff[r]

FairInv == TypeOK /\ Budget /\ CountTrue

-----------------------------------------------------------------------------
(* What divmod returns.                                                      *)
LEMMA Division ==
  ASSUME NEW n \in Nat \ {0}
  PROVE  /\ Total \div n \in Nat /\ Total % n \in 0..(n - 1)
         /\ Total = n * (Total \div n) + (Total % n)
  BY ScrapeAssumption

(* The domain of a list of targets and its size.                             *)
LEMMA ListSize ==
  ASSUME NEW l \in Lists
  PROVE  /\ Size(l) \in 1..MaxTargets /\ DOMAIN l = 1..Size(l) /\ l \in [1..Size(l) -> Ids]
<1>1. PICK n \in 1..MaxTargets : l \in [1..n -> Ids]
  BY DEF Lists
<1>2. Cardinality(1..n) = n
  BY <1>1, FS_Interval, ScrapeAssumption
<1> QED
  BY <1>1, <1>2 DEF Size

(* The quota of i targets exceeds that of i - 1 by at least the cap of i.    *)
LEMMA QuotaGrows ==
  ASSUME NEW l \in Lists, NEW i \in 1..Size(l)
  PROVE  /\ Cap(l, i) \in Nat
         /\ Quota(Size(l), i - 1) \in Nat /\ Quota(Size(l), i) \in Nat
         /\ Quota(Size(l), i - 1) + Cap(l, i) <= Quota(Size(l), i)
<1> DEFINE n == Size(l)  q == Total \div n  m == Total % n
<1>1. n \in Nat \ {0} /\ DOMAIN l = 1..n
  BY ListSize, ScrapeAssumption
<1>2. q \in Nat /\ m \in 0..(n - 1)
  BY <1>1, Division
<1>3. Share(l, i) \in Nat /\ Share(l, i) <= q + (IF i <= m THEN 1 ELSE 0)
  <2> DEFINE all == \A j \in DOMAIN l : l[j] = l[i] => j \in 1..m
  <2>1. all => i <= m
    BY <1>1, <1>2
  <2>2. Share(l, i) = q + (IF all THEN 1 ELSE 0)
    BY DEF Share
  <2> HIDE DEF all, q, m
  <2> QED
    BY <1>2, <2>1, <2>2
<1>4. Cap(l, i) \in Nat /\ Cap(l, i) <= q + (IF i <= m THEN 1 ELSE 0)
  BY <1>2, <1>3, ScrapeAssumption DEF Cap, Smaller
<1>5. i * q = (i - 1) * q + q /\ (i - 1) * q \in Nat /\ i * q \in Nat
  BY <1>2
<1>6. Quota(n, i) = i * q + Smaller(i, m) /\ Quota(n, i - 1) = (i - 1) * q + Smaller(i - 1, m)
  BY DEF Quota
<1>7. Smaller(i, m) = Smaller(i - 1, m) + (IF i <= m THEN 1 ELSE 0) /\ Smaller(i - 1, m) \in Nat
  BY <1>1, <1>2 DEF Smaller
<1> DEFINE x == i * q  y == (i - 1) * q  s == Smaller(i, m)  t == Smaller(i - 1, m)
           o == IF i <= m THEN 1 ELSE 0
<1>8. o \in {0, 1}
  OBVIOUS
<1>9. x = y + q /\ x \in Nat /\ y \in Nat /\ s = t + o /\ t \in Nat /\ Cap(l, i) <= q + o
      /\ Quota(n, i) = x + s /\ Quota(n, i - 1) = y + t
  BY <1>4, <1>5, <1>6, <1>7
<1> HIDE DEF x, y, s, t, o, q, m
<1> QED
  BY <1>2, <1>4, <1>8, <1>9

(* No quota exceeds the limit.                                               *)
LEMMA QuotaWithin ==
  ASSUME NEW l \in Lists, NEW i \in 0..Size(l)
  PROVE  Quota(Size(l), i) \in Nat /\ Quota(Size(l), i) <= Total
<1> DEFINE n == Size(l)  q == Total \div n  m == Total % n
<1>1. n \in Nat \ {0}
  BY ListSize, ScrapeAssumption
<1>2. q \in Nat /\ m \in 0..(n - 1) /\ Total = n * q + m
  BY <1>1, Division
<1>3. n * q = i * q + (n - i) * q /\ (n - i) * q \in Nat /\ i * q \in Nat
  BY <1>1, <1>2
<1>4. Smaller(i, m) \in Nat /\ Smaller(i, m) <= m
  BY <1>1, <1>2 DEF Smaller
<1>5. Quota(n, i) = i * q + Smaller(i, m)
  BY DEF Quota
<1> QED
  BY <1>2, <1>3, <1>4, <1>5

-----------------------------------------------------------------------------
(* Under the budget, a target that begins gets its whole share.              *)
LEMMA WholeShare ==
  ASSUME TypeOK, Budget, NEW r \in Runs, BeginTarget(r)
  PROVE  LET i == at[r] + 1
         IN /\ i \in 1..Size(ids[r]) /\ eff' = [eff EXCEPT ![r] = Cap(ids[r], i)]
            /\ Cap(ids[r], i) \in 1..Total
            /\ sum[r] + got[r] \in Nat /\ sum[r] + got[r] <= Total
<1> DEFINE n == Size(ids[r])  i == at[r] + 1  c == Cap(ids[r], i)
<1>1. ids[r] \in Lists /\ DOMAIN ids[r] = 1..n /\ n \in Nat
  BY ListSize, ScrapeAssumption DEF TypeOK
<1>2. i \in 1..n /\ c > 0 /\ at[r] \in 0..n
  BY <1>1 DEF BeginTarget, Budget
<1>3. sum[r] \in Nat /\ got[r] \in Nat /\ Total \in Nat /\ i - 1 = at[r]
  BY <1>2, ScrapeAssumption DEF TypeOK
<1>4. sum[r] + got[r] <= Quota(n, at[r])
  BY DEF Budget
<1>5. c \in Nat /\ Quota(n, at[r]) \in Nat /\ Quota(n, i) \in Nat /\ Quota(n, at[r]) + c <= Quota(n, i)
  BY <1>1, <1>2, <1>3, QuotaGrows
<1>6. Quota(n, i) <= Total
  BY <1>1, <1>2, QuotaWithin
<1>7. eff' = [eff EXCEPT ![r] = Smaller(c, Room(r))]
  BY DEF BeginTarget
<1> HIDE DEF c, n, i
<1>8. c \in 1..Total /\ c <= Room(r) /\ Smaller(c, Room(r)) = c /\ sum[r] + got[r] <= Total
  BY <1>2, <1>3, <1>4, <1>5, <1>6 DEF Room, Smaller
<1>9. eff' = [eff EXCEPT ![r] = c] /\ sum[r] + got[r] \in Nat
  BY <1>3, <1>7, <1>8
<1> QED
  BY <1>2, <1>8, <1>9 DEF c, n, i

(* Every step keeps every variable in its type.                              *)
LEMMA TypeStep ==
  ASSUME TypeOK, Budget, NEW r \in Runs, Run(r)
  PROVE  TypeOK'
<1> USE ScrapeAssumption DEF TypeOK, Goto
<1>1. CASE BeginTarget(r)
  <2>1. /\ at[r] + 1 \in 1..MaxTargets
        /\ eff' = [eff EXCEPT ![r] = Cap(ids[r], at[r] + 1)] /\ Cap(ids[r], at[r] + 1) \in 0..Total
        /\ sum[r] + got[r] \in 0..Total
    BY <1>1, WholeShare, ListSize
  <2>2. eff' \in [Runs -> 0..Total]
    BY <2>1
  <2>3. sum' \in [Runs -> 0..Total] /\ got' \in [Runs -> 0..Total]
    BY <1>1, <2>1 DEF BeginTarget
  <2>4. at' \in [Runs -> 0..MaxTargets]
    BY <1>1, <2>1 DEF BeginTarget
  <2> QED
    BY <1>1, <2>2, <2>3, <2>4 DEF BeginTarget
<1>2. CASE SkipTarget(r)
  <2>1. at[r] + 1 \in 1..MaxTargets
    BY <1>2, ListSize DEF SkipTarget
  <2> QED
    BY <1>2, <2>1 DEF SkipTarget
<1>3. CASE EndRun(r) \/ EndTarget(r) \/ Refuse(r) \/ Raise(r)
  BY <1>3 DEF EndRun, EndTarget, Refuse, Raise
<1>4. ASSUME NEW u \in Urls, Known(r, u) \/ Fetch(r, u) PROVE TypeOK'
  BY <1>4 DEF Known, Fetch
<1>5. CASE Store(r)
  <2>1. got[r] + 1 \in 0..Total
    BY <1>5 DEF Store, Budget
  <2>2. hand[r] \in Urls /\ by' \in [Urls -> Runs \cup {"nobody", "earlier"}]
    BY <1>5 DEF Store
  <2>3. got' \in [Runs -> 0..Total]
    BY <1>5, <2>1 DEF Store
  <2> QED
    BY <1>5, <2>2, <2>3 DEF Store
<1> QED
  BY <1>1, <1>2, <1>3, <1>4, <1>5 DEF Run

(* Every step keeps the budget.                                              *)
LEMMA BudgetStep ==
  ASSUME TypeOK, Budget, NEW r \in Runs, Run(r)
  PROVE  Budget'
<1> DEFINE B(x) == LET n == Size(ids[x])
                   IN /\ at[x] \in 0..n
                      /\ sum[x] + got[x] <= Quota(n, at[x])
                      /\ pc[x] \in {"visit", "store"} =>
                           /\ at[x] \in 1..n /\ eff[x] = Cap(ids[x], at[x])
                           /\ sum[x] <= Quota(n, at[x] - 1) /\ got[x] <= eff[x]
                      /\ pc[x] = "store" => got[x] < eff[x]
<1>1. /\ ids' = ids
      /\ \A x \in Runs : x # r => /\ at'[x] = at[x] /\ sum'[x] = sum[x] /\ got'[x] = got[x]
                                 /\ eff'[x] = eff[x] /\ pc'[x] = pc[x]
  BY DEF Run, BeginTarget, SkipTarget, EndRun, Known, Fetch, Refuse, Store, EndTarget, Raise,
         Goto, TypeOK
<1>2. \A x \in Runs : B(x)
  BY DEF Budget
<1>3. ASSUME NEW x \in Runs, x # r PROVE B(x)'
  BY <1>1, <1>2, <1>3
<1>4. B(r)'
  <2> DEFINE n == Size(ids[r])  i == at[r] + 1
  <2>0. ids[r] \in Lists /\ DOMAIN ids[r] = 1..n /\ n \in Nat /\ ids'[r] = ids[r]
    BY <1>1, ListSize, ScrapeAssumption DEF TypeOK
  <2>t. /\ sum[r] \in Nat /\ got[r] \in Nat /\ eff[r] \in Nat /\ at[r] \in 0..n
        /\ sum[r] + got[r] <= Quota(n, at[r])
    BY <1>2, ScrapeAssumption DEF TypeOK
  <2>1. CASE BeginTarget(r)
    <3>1. /\ at'[r] = i /\ sum'[r] = sum[r] + got[r] /\ got'[r] = 0 /\ pc'[r] = "visit"
      BY <2>1 DEF BeginTarget, TypeOK, Goto
    <3>2. eff'[r] = Cap(ids[r], i) /\ i \in 1..n
      BY <2>1, WholeShare DEF TypeOK
    <3>3. /\ Cap(ids[r], i) \in Nat /\ Quota(n, i - 1) \in Nat /\ Quota(n, i) \in Nat
          /\ Quota(n, i - 1) + Cap(ids[r], i) <= Quota(n, i)
      BY <2>0, <3>2, QuotaGrows
    <3>5. i - 1 = at[r]
      BY <2>t
    <3>4. sum'[r] + got'[r] <= Quota(n, i) /\ sum'[r] <= Quota(n, i - 1)
      BY <2>t, <3>1, <3>3, <3>5
    <3> QED
      BY <2>0, <2>t, <3>1, <3>2, <3>3, <3>4, <3>5
  <2>2. CASE SkipTarget(r)
    <3>1. at'[r] = i /\ i \in 1..n /\ sum'[r] = sum[r] /\ got'[r] = got[r] /\ pc'[r] = "next"
      BY <2>0, <2>2 DEF SkipTarget, TypeOK
    <3>2. /\ Cap(ids[r], i) \in Nat /\ Quota(n, i - 1) \in Nat /\ Quota(n, i) \in Nat
          /\ Quota(n, i - 1) + Cap(ids[r], i) <= Quota(n, i)
      BY <2>0, <3>1, QuotaGrows
    <3>4. i - 1 = at[r]
      BY <2>t
    <3>3. sum'[r] + got'[r] <= Quota(n, i)
      BY <2>t, <3>1, <3>2, <3>4
    <3> QED
      BY <2>0, <3>1, <3>3
  <2>3. CASE EndRun(r) \/ EndTarget(r) \/ Raise(r)
    <3>1. /\ at'[r] = at[r] /\ sum'[r] = sum[r] /\ got'[r] = got[r]
          /\ pc'[r] \in {"next", "over"}
      BY <2>3 DEF EndRun, EndTarget, Raise, TypeOK, Goto
    <3> QED
      BY <2>0, <2>t, <3>1
  <2>4. CASE Refuse(r) \/ \E u \in Urls : Known(r, u) \/ Fetch(r, u)
    <3>1. /\ at'[r] = at[r] /\ sum'[r] = sum[r] /\ got'[r] = got[r] /\ eff'[r] = eff[r]
          /\ pc[r] \in {"visit", "store"} /\ pc'[r] \in {"visit", "store"}
          /\ pc'[r] = "store" => got[r] < eff[r]
      BY <2>4 DEF Known, Fetch, Refuse, TypeOK, Goto
    <3> QED
      BY <1>2, <2>0, <3>1
  <2>5. CASE Store(r)
    <3>1. /\ at'[r] = at[r] /\ sum'[r] = sum[r] /\ eff'[r] = eff[r] /\ pc'[r] = "visit"
          /\ got'[r] \in {got[r], got[r] + 1} /\ pc[r] = "store"
      BY <2>5 DEF Store, TypeOK, Goto
    <3>2. /\ at[r] \in 1..n /\ eff[r] = Cap(ids[r], at[r]) /\ sum[r] <= Quota(n, at[r] - 1)
          /\ got[r] < eff[r]
      BY <1>2, <3>1
    <3>3. Quota(n, at[r] - 1) + eff[r] <= Quota(n, at[r]) /\ Quota(n, at[r] - 1) \in Nat
          /\ Quota(n, at[r]) \in Nat
      BY <2>0, <3>2, QuotaGrows
    <3>4. got'[r] <= eff[r] /\ sum[r] + got'[r] <= Quota(n, at[r])
      BY <2>t, <3>1, <3>2, <3>3
    <3> QED
      BY <2>0, <2>t, <3>1, <3>2, <3>4
  <2> QED
    BY <2>1, <2>2, <2>3, <2>4, <2>5 DEF Run
<1> QED
  BY <1>3, <1>4 DEF Budget

(* A run counts exactly the rows it inserts.                                 *)
LEMMA CountStep ==
  ASSUME TypeOK, Budget, CountTrue, NEW r \in Runs, Run(r)
  PROVE  CountTrue'
<1> SUFFICES ASSUME NEW x \in Runs
             PROVE  sum'[x] + got'[x] = Cardinality({u \in Urls : by'[u] = x})
  BY DEF CountTrue
<1> USE DEF TypeOK
<1>f. IsFiniteSet(Mine(x)) /\ Cardinality(Mine(x)) = sum[x] + got[x]
  BY FS_Subset, ScrapeAssumption DEF Mine, CountTrue
<1>1. CASE BeginTarget(r)
  <2>1. by' = by /\ (x # r => sum'[x] = sum[x] /\ got'[x] = got[x])
    BY <1>1 DEF BeginTarget
  <2>2. sum'[r] = sum[r] + got[r] /\ got'[r] = 0 /\ sum[r] \in Nat /\ got[r] \in Nat
    BY <1>1 DEF BeginTarget
  <2> QED
    BY <1>f, <2>1, <2>2 DEF Mine
<1>2. CASE UNCHANGED <<by, sum, got>>
  BY <1>2, <1>f DEF Mine
<1>3. CASE Store(r) /\ hand[r] \notin Stored
  <2>1. /\ hand[r] \in Urls /\ by[hand[r]] = "nobody" /\ sum' = sum
        /\ by' = [by EXCEPT ![hand[r]] = r] /\ got' = [got EXCEPT ![r] = @ + 1]
    BY <1>3 DEF Store, Stored
  <2>2. CASE x # r
    <3>1. {u \in Urls : by'[u] = x} = Mine(x) /\ got'[x] = got[x]
      BY <2>1, <2>2, ScrapeAssumption DEF Mine
    <3>2. sum'[x] = sum[x]
      BY <2>1
    <3> QED
      BY ONLY <1>f, <3>1, <3>2
  <2>3. CASE x = r
    <3>1. {u \in Urls : by'[u] = x} = Mine(x) \cup {hand[r]} /\ hand[r] \notin Mine(x)
      BY <2>1, <2>3, ScrapeAssumption DEF Mine
    <3>2. Cardinality({u \in Urls : by'[u] = x}) = Cardinality(Mine(x)) + 1
      BY <1>f, <3>1, FS_AddElement
    <3>3. got'[x] = got[x] + 1 /\ sum[x] \in Nat /\ got[x] \in Nat
      BY <2>1, <2>3
    <3> QED
      BY <1>f, <2>1, <3>2, <3>3
  <2> QED
    BY <2>2, <2>3
<1>4. CASE Store(r) /\ hand[r] \in Stored
  BY <1>2, <1>4 DEF Store
<1> QED
  BY <1>1, <1>2, <1>3, <1>4 DEF Run, SkipTarget, EndRun, Known, Fetch, Refuse, EndTarget, Raise

(* The invariant holds at the start ...                                      *)
LEMMA FairInitInv == Init => FairInv
<1> SUFFICES ASSUME Init PROVE FairInv
  OBVIOUS
<1>1. TypeOK
  BY ScrapeAssumption DEF Init, TypeOK
<1>2. Budget
  <2>1. \A r \in Runs : Size(ids[r]) \in Nat /\ Quota(Size(ids[r]), 0) \in Nat
    BY <1>1, ListSize, QuotaWithin, ScrapeAssumption DEF TypeOK
  <2> QED
    BY <2>1 DEF Init, Budget
<1>3. CountTrue
  <2>1. \A r \in Runs : {u \in Urls : by[u] = r} = {}
    BY ScrapeAssumption DEF Init
  <2> QED
    BY <2>1, FS_EmptySet DEF Init, CountTrue
<1> QED
  BY <1>1, <1>2, <1>3 DEF FairInv

(* ... and after every step.                                                 *)
LEMMA FairNextInv == FairInv /\ [Next]_vars => FairInv'
<1> SUFFICES ASSUME FairInv, [Next]_vars PROVE FairInv'
  OBVIOUS
<1>1. ASSUME NEW r \in Runs, Run(r) PROVE FairInv'
  BY <1>1, TypeStep, BudgetStep, CountStep DEF FairInv
<1>2. CASE UNCHANGED vars
  BY <1>2 DEF vars, FairInv, TypeOK, Budget, CountTrue
<1> QED
  BY <1>1, <1>2 DEF Next

(* The invariant of every run of the specification.                          *)
LEMMA FairAlways == Spec => []FairInv
  BY FairInitInv, FairNextInv, PTL DEF Spec

(* Type correctness.                                                         *)
THEOREM ScrapeTypeCorrect == Spec => []TypeOK
<1>1. FairInv => TypeOK
  BY DEF FairInv
<1> QED
  BY FairAlways, <1>1, PTL

(* Of concurrent runs, exactly one counts an article: run_scheduled_scrape's *)
(* and the admin's figures add up to the rows stored.                        *)
THEOREM CountTrueAlways == Spec => []CountTrue
<1>1. FairInv => CountTrue
  BY DEF FairInv
<1> QED
  BY FairAlways, <1>1, PTL

(* No run inserts more than its total limit.                                 *)
THEOREM TotalCappedAlways == Spec => []TotalCapped
<1>1. FairInv => TotalCapped
  <2> SUFFICES ASSUME FairInv, NEW r \in Runs PROVE Cardinality({u \in Urls : by[u] = r}) <= Total
    BY DEF TotalCapped
  <2> DEFINE q == Quota(Size(ids[r]), at[r])
  <2>1. Cardinality({u \in Urls : by[u] = r}) = sum[r] + got[r] /\ sum[r] + got[r] <= q
    BY DEF FairInv, CountTrue, Budget
  <2>2. q \in Nat /\ q <= Total
    BY QuotaWithin DEF FairInv, TypeOK, Budget
  <2>3. sum[r] \in Nat /\ got[r] \in Nat
    BY DEF FairInv, TypeOK
  <2> HIDE DEF q
  <2> QED
    BY <2>1, <2>2, <2>3, ScrapeAssumption
<1> QED
  BY FairAlways, <1>1, PTL

(* Every target gets its whole share.                                        *)
THEOREM ShareKeptAlways == Spec => []ShareKept
<1>1. FairInv => ShareKept
  BY DEF FairInv, Budget, ShareKept
<1> QED
  BY FairAlways, <1>1, PTL

(* The promise of --total-limit, for every list of targets and every number  *)
(* of concurrent runs.                                                       *)
THEOREM FairKeptAlways == Spec => []FairKept
  BY TotalCappedAlways, CountTrueAlways, ShareKeptAlways, PTL DEF FairKept

----------------------------------------------------------------------------
(* Edits of the taxonomy are local, for any number of editors, categories    *)
(* and connections.  EditsLocal is not a matter of the save alone: what is   *)
(* written was read and computed some calls before.  The invariant says that *)
(* as long as nobody else saved, a request's copy differs from the document  *)
(* only where its edit meant it to.                                          *)

\* A desk and a connection have their fields.
IsDesk(r) ==
  r \in [todo : {r.todo}, pc : {"look", "other", "save"}, mine : {r.mine}, other : {r.other},
         target : {r.target}, fresh : BOOLEAN]
IsConn(r) == r = Connection(r.url, r.on, r.name)

CatList(f) == f = [c \in DOMAIN f |-> f[c]] /\ DOMAIN f \subseteq Cats
ConnList(f) ==
  f = [s \in DOMAIN f |-> f[s]] /\ DOMAIN f \subseteq Slugs /\ \A s \in DOMAIN f : IsConn(f[s])

\* A copy keeps every row of a list outside a target.
KeepsCats(f, target) == \A c \in DOMAIN cats : c \in target \/ (c \in DOMAIN f /\ f[c] = cats[c])
KeepsConns(f, target) ==
  \A s \in DOMAIN conns :
    s \in target \/ (s \in DOMAIN f /\ f[s].url = conns[s].url /\ f[s].on = conns[s].on)

OfCats(w) == TaskOf(w) \in CatTasks

\* What a request that has read holds, and that it is still true of the document.
Holds(w) ==
  /\ IsDesk(desk[w])
  /\ desk[w].pc \in {"look", "other", "save"}
  /\ desk[w].pc \in {"other", "save"} =>
       /\ desk[w].todo # <<>>
       /\ IF OfCats(w) THEN CatList(desk[w].mine) ELSE ConnList(desk[w].mine)
       /\ desk[w].fresh => IF OfCats(w) THEN KeepsCats(desk[w].mine, desk[w].target)
                                        ELSE KeepsConns(desk[w].mine, desk[w].target)
  /\ desk[w].pc = "save" =>
       /\ IF OfCats(w) THEN ConnList(desk[w].other) ELSE CatList(desk[w].other)
       /\ desk[w].fresh => IF OfCats(w) THEN desk[w].other = conns \/ conns = <<>>
                                        ELSE desk[w].other = cats \/ cats = <<>>

TaxInv ==
  /\ CatList(cats) /\ ConnList(conns)
  /\ desk = [w \in Editors |-> desk[w]]
  /\ \A w \in Editors : Holds(w)

----------------------------------------------------------------------------
(* The lists the program starts from and the copies the edits make.          *)

\* Nothing, the defaults and the catalog are lists.
LEMMA FirstLists ==
  /\ CatList(<<>>) /\ ConnList(<<>>)
  /\ CatList(DefaultCats) /\ ConnList(CatalogConns)
<1>1. CatList(<<>>) /\ ConnList(<<>>)
  BY DEF CatList, ConnList
<1>2. CatList(DefaultCats)
  BY TaxonomyAssumption DEF CatList, DefaultCats
<1>3. ConnList(CatalogConns)
  BY TaxonomyAssumption DEF ConnList, CatalogConns, IsConn, Connection
<1>. QED BY <1>1, <1>2, <1>3

\* What an edit will save, and what it is about.
LEMMA SavedFields == \A l, t : Saved(l, t).mine = l /\ Saved(l, t).target = t
BY DEF Saved

\* Every edit of a category list is about its target only.
LEMMA CatEdits ==
  ASSUME CatList(cats), NEW task \in CatTasks, NEW e \in Edited(task)
  PROVE  CatList(e.mine) /\ KeepsCats(e.mine, e.target)
<1>. USE DEF CatList, KeepsCats
<1>1. CASE e \in CreateCategory
  <2>1. PICK c \in Cats \ DOMAIN cats, S \in SUBSET Subs :
          e = AddCategory(c, S)
    BY <1>1 DEF CreateCategory
  <2>2. e.mine = With(cats, c, NewCategory(S)) /\ e.target = {c}
    BY <2>1, SavedFields DEF AddCategory
  <2>3. /\ e.mine = [y \in DOMAIN e.mine |-> e.mine[y]] /\ DOMAIN e.mine = DOMAIN cats \cup {c}
        /\ \A y \in DOMAIN cats \ {c} : e.mine[y] = cats[y]
    BY <2>2 DEF With
  <2>. QED BY <2>2, <2>3
<1>2. CASE e \in UpdateCategory
  BY <1>2 DEF UpdateCategory, Saved
<1>3. CASE e \in DeleteCategory
  <2>1. PICK c \in DOMAIN cats : e = Saved(Without(cats, c), {c})
    BY <1>3 DEF DeleteCategory
  <2>2. e.mine = Without(cats, c) /\ e.target = {c}
    BY <2>1, SavedFields
  <2>3. /\ e.mine = [y \in DOMAIN e.mine |-> e.mine[y]] /\ DOMAIN e.mine = DOMAIN cats \ {c}
        /\ \A y \in DOMAIN cats \ {c} : e.mine[y] = cats[y]
    BY <2>2 DEF Without
  <2>. QED BY <2>2, <2>3
<1>4. CASE e \in AddSubcategory
  BY <1>4 DEF AddSubcategory, Saved
<1>5. CASE e \in UpdateSubcategory
  BY <1>5 DEF UpdateSubcategory, Saved
<1>6. CASE e \in DeleteSubcategory
  BY <1>6 DEF DeleteSubcategory, Saved
<1>7. CASE e \in ReplaceCategories
  BY <1>7, FirstLists DEF ReplaceCategories, Saved
<1>8. CASE e \in SeedCategories
  BY <1>8, FirstLists DEF SeedCategories, Saved
<1>. QED BY <1>1, <1>2, <1>3, <1>4, <1>5, <1>6, <1>7, <1>8 DEF Edited, CatTasks

\* Every edit of a connection list is about its target, or about names.
LEMMA ConnEdits ==
  ASSUME ConnList(conns), NEW task, task \notin CatTasks, NEW e \in Edited(task)
  PROVE  ConnList(e.mine) /\ KeepsConns(e.mine, e.target)
<1>. USE DEF ConnList, KeepsConns
<1>1. CASE e \in CreateConnection
  <2>1. PICK s \in Slugs \ DOMAIN conns, u \in FeedUrls \ UrlsOf(conns) :
          e = AddConnection(s, u)
    BY <1>1 DEF CreateConnection
  <2>2. IsConn(NewConnection(u))
    BY DEF IsConn, NewConnection, Connection
  <2>3. e.mine = With(conns, s, NewConnection(u)) /\ e.target = {s}
    BY <2>1, SavedFields DEF AddConnection
  <2>4. /\ e.mine = [y \in DOMAIN e.mine |-> e.mine[y]] /\ DOMAIN e.mine = DOMAIN conns \cup {s}
        /\ \A y \in DOMAIN conns \ {s} : e.mine[y] = conns[y]
        /\ e.mine[s] = NewConnection(u)
    BY <2>3 DEF With
  <2>. QED BY <2>2, <2>3, <2>4
<1>2. CASE e \in UpdateConnection
  BY <1>2 DEF UpdateConnection, Saved, IsConn, Connection
<1>3. CASE e \in DeleteConnection
  <2>1. PICK s \in DOMAIN conns : e = Saved(Without(conns, s), {s})
    BY <1>3 DEF DeleteConnection
  <2>2. e.mine = Without(conns, s) /\ e.target = {s}
    BY <2>1, SavedFields
  <2>3. /\ e.mine = [y \in DOMAIN e.mine |-> e.mine[y]] /\ DOMAIN e.mine = DOMAIN conns \ {s}
        /\ \A y \in DOMAIN conns \ {s} : e.mine[y] = conns[y]
    BY <2>2 DEF Without
  <2>. QED BY <2>2, <2>3
<1>4. CASE e \in ReplaceConnections
  BY <1>4, FirstLists DEF ReplaceConnections, Saved
<1>5. CASE e \in SeedConnections
  BY <1>5, FirstLists DEF SeedConnections, Saved
<1>6. CASE e = Saved(Merged, NotYet)
  <2>1. NotYet \subseteq Slugs /\ \A s \in NotYet : s \notin DOMAIN conns /\ IsConn(CatalogConns[s])
    BY FirstLists DEF NotYet, CatalogConns
  <2>2. e.mine = Merged
    BY <1>6, SavedFields
  <2>3. /\ Merged = [s \in DOMAIN Merged |-> Merged[s]] /\ DOMAIN Merged = DOMAIN conns \cup NotYet
        /\ \A s \in DOMAIN Merged : Merged[s] = IF s \in NotYet THEN CatalogConns[s] ELSE conns[s]
    BY DEF Merged
  <2>. QED BY <2>1, <2>2, <2>3
<1>7. CASE e = Saved(Labelled, {})
  <2>1. \A s \in DOMAIN conns :
          /\ IsConn([conns[s] EXCEPT !.name = "label"])
          /\ [conns[s] EXCEPT !.name = "label"].url = conns[s].url
          /\ [conns[s] EXCEPT !.name = "label"].on = conns[s].on
    BY DEF IsConn, Connection
  <2>2. e.mine = Labelled /\ e.target = {}
    BY <1>7, SavedFields
  <2>3. e.mine = [s \in DOMAIN conns |-> [conns[s] EXCEPT !.name = "label"]]
    BY <2>2 DEF Labelled
  <2>. QED BY <2>1, <2>2, <2>3
<1>8. CASE task = "conns"
  <2>1. e \in CreateConnection \cup UpdateConnection \cup DeleteConnection
    BY <1>8 DEF Edited
  <2>. QED BY <2>1, <1>1, <1>2, <1>3
<1>9. CASE task \in {"newconns", "seedconns"}
  <2>1. e \in ReplaceConnections \/ e \in SeedConnections
    BY <1>9 DEF Edited
  <2>. QED BY <2>1, <1>4, <1>5
<1>10. CASE task \notin {"conns", "newconns", "seedconns"}
  <2>1. e = Saved(Merged, NotYet) \/ e = Saved(Labelled, {})
    BY <1>10 DEF Edited, CatTasks
  <2>. QED BY <2>1, <1>6, <1>7
<1>. QED BY <1>8, <1>9, <1>10

----------------------------------------------------------------------------
(* The invariant, action by action.                                          *)

\* No request has read anything.
LEMMA TaxInitInv == TaxInit => TaxInv
<1>. SUFFICES ASSUME TaxInit PROVE TaxInv
  OBVIOUS
<1>1. CatList(cats) /\ ConnList(conns)
  BY FirstLists DEF TaxInit
<1>2. IsDesk(Free) /\ Free.pc = "look"
  BY DEF IsDesk, Free
<1>3. desk = [w \in Editors |-> desk[w]] /\ \A w \in Editors : desk[w] = Free
  BY DEF TaxInit
<1>. QED BY <1>1, <1>2, <1>3 DEF TaxInv, Holds

\* A step that writes one desk and leaves the document alone.
LEMMA OneDesk ==
  ASSUME TaxInv, NEW w \in Editors, NEW r, desk' = [desk EXCEPT ![w] = r],
         UNCHANGED <<cats, conns>>, Holds(w)'
  PROVE  TaxInv'
<1>1. /\ desk' = [v \in Editors |-> desk'[v]] /\ \A v \in Editors \ {w} : desk'[v] = desk[v]
  BY DEF TaxInv
<1>2. ASSUME NEW v \in Editors \ {w} PROVE Holds(v)'
  BY <1>1 DEF TaxInv, Holds, OfCats, TaskOf, KeepsCats, KeepsConns
<1>. QED BY <1>1, <1>2 DEF TaxInv, CatList, ConnList

\* A desk that looks at the document claims nothing.
LEMMA Looking ==
  ASSUME NEW w, IsDesk(desk[w])', desk'[w].pc = "look"
  PROVE  Holds(w)'
BY DEF Holds

\* A desk with some fields rewritten.
LEMMA Aimed ==
  ASSUME NEW r, IsDesk(r), NEW duty
  PROVE  LET q == [r EXCEPT !.todo = duty] IN IsDesk(q) /\ q.pc = r.pc
BY DEF IsDesk

\* A request that another one's save overtook keeps what it read.
LEMMA Overtaken ==
  ASSUME NEW r, IsDesk(r)
  PROVE  LET q == [r EXCEPT !.fresh = FALSE] IN
         /\ IsDesk(q) /\ q.pc = r.pc /\ q.todo = r.todo /\ q.mine = r.mine
         /\ q.other = r.other /\ q.fresh = FALSE
BY DEF IsDesk

\* A request that goes on to its next task begins by looking.
LEMMA FreeDesk ==
  ASSUME NEW duty
  PROVE  IsDesk([Free EXCEPT !.todo = duty]) /\ [Free EXCEPT !.todo = duty].pc = "look"
BY DEF IsDesk, Free

\* A request arrives.
LEMMA OpenDeskInv ==
  ASSUME TaxInv, NEW w \in Editors, NEW duty \in Duties, OpenDesk(w, duty)
  PROVE  TaxInv'
<1>. DEFINE r == [desk[w] EXCEPT !.todo = duty]
<1>1. IsDesk(desk[w]) /\ desk[w].pc = "look" /\ w \in DOMAIN desk
  BY DEF TaxInv, Holds, OpenDesk
<1>2. IsDesk(r) /\ r.pc = "look"
  BY <1>1, Aimed
<1>3. desk' = [desk EXCEPT ![w] = r]
  BY DEF OpenDesk
<1>. HIDE DEF r
<1>4. desk'[w] = r
  BY <1>1, <1>3
<1>5. Holds(w)'
  BY <1>2, <1>4, Looking
<1>. QED BY <1>3, <1>5, OneDesk DEF OpenDesk

\* What the first read computes differs from the document in its target only.
LEMMA LookUpInv ==
  ASSUME TaxInv, NEW w \in Editors, LookUp(w)
  PROVE  TaxInv'
<1>. DEFINE task == TaskOf(w)
<1>1. /\ IsDesk(desk[w]) /\ desk[w].pc = "look" /\ desk[w].todo # <<>> /\ w \in DOMAIN desk
      /\ CatList(cats) /\ ConnList(conns)
  BY DEF TaxInv, Holds, LookUp
<1>2. CASE desk' = [desk EXCEPT ![w].todo = <<"seedconns">> \o desk[w].todo]
  <2>. DEFINE r == [desk[w] EXCEPT !.todo = <<"seedconns">> \o desk[w].todo]
  <2>1. IsDesk(r) /\ r.pc = "look"
    BY <1>1, Aimed
  <2>2. desk' = [desk EXCEPT ![w] = r]
    BY <1>2
  <2>. HIDE DEF r
  <2>3. desk'[w] = r
    BY <1>1, <2>2
  <2>4. Holds(w)'
    BY <2>1, <2>3, Looking
  <2>. QED BY <2>2, <2>4, OneDesk DEF LookUp
<1>3. CASE desk' = [desk EXCEPT ![w] = Onward(w)]
  <2>1. desk'[w] = Onward(w)
    BY <1>1, <1>3
  <2>2. Holds(w)'
    BY <2>1, FreeDesk, Looking DEF Onward
  <2>. QED BY <1>3, <2>2, OneDesk DEF LookUp
<1>4. ASSUME NEW e \in Edited(task),
             desk' = [desk EXCEPT ![w].mine = e.mine, ![w].target = e.target,
                                  ![w].fresh = TRUE, ![w].pc = "other"]
      PROVE  TaxInv'
  <2>. DEFINE r == [desk[w] EXCEPT !.mine = e.mine, !.target = e.target,
                                   !.fresh = TRUE, !.pc = "other"]
  <2>1. /\ IsDesk(r) /\ r.pc = "other" /\ r.todo = desk[w].todo
        /\ r.mine = e.mine /\ r.target = e.target
    BY <1>1, ZenonT(60) DEF IsDesk
  <2>2. desk' = [desk EXCEPT ![w] = r]
    BY <1>4
  <2>. HIDE DEF r
  <2>3. desk'[w] = r /\ TaskOf(w)' = task
    BY <1>1, <2>1, <2>2 DEF TaskOf
  <2>4. ASSUME OfCats(w) PROVE Holds(w)'
    <3>1. CatList(e.mine) /\ KeepsCats(e.mine, e.target)
      BY <1>1, <2>4, CatEdits DEF OfCats
    <3>2. KeepsCats(e.mine, e.target)'
      BY <3>1 DEF KeepsCats, LookUp
    <3>. QED BY <1>1, <2>1, <2>3, <2>4, <3>1, <3>2 DEF Holds, OfCats
  <2>5. ASSUME ~OfCats(w) PROVE Holds(w)'
    <3>1. task \notin CatTasks
      BY <2>5 DEF OfCats
    <3>2. ConnList(e.mine) /\ KeepsConns(e.mine, e.target)
      BY <1>1, <3>1, ConnEdits
    <3>3. KeepsConns(e.mine, e.target)'
      BY <3>2 DEF KeepsConns, LookUp
    <3>. QED BY <1>1, <2>1, <2>3, <2>5, <3>2, <3>3 DEF Holds, OfCats
  <2>. QED BY <2>2, <2>4, <2>5, OneDesk DEF LookUp
<1>. QED BY <1>2, <1>3, <1>4 DEF LookUp

\* A refused request forgets everything.
LEMMA RefuseInv ==
  ASSUME TaxInv, NEW w \in Editors, RefuseEdit(w)
  PROVE  TaxInv'
<1>1. desk' = [desk EXCEPT ![w] = Free] /\ w \in DOMAIN desk
  BY DEF RefuseEdit, TaxInv
<1>2. desk'[w] = Free
  BY <1>1
<1>3. IsDesk(Free) /\ Free.pc = "look"
  BY DEF IsDesk, Free
<1>. QED BY <1>1, <1>2, <1>3, OneDesk, Looking DEF RefuseEdit

\* The second read takes the other list as it is, or seeds it where there is none.
LEMMA ReadOtherInv ==
  ASSUME TaxInv, NEW w \in Editors, ReadOther(w)
  PROVE  TaxInv'
<1>1. PICK x : desk' = [desk EXCEPT ![w].pc = "save", ![w].other = x]
               /\ IF OfCats(w) THEN ConnList(x) /\ (x = conns \/ conns = <<>>)
                               ELSE CatList(x) /\ (x = cats \/ cats = <<>>)
  BY FirstLists DEF ReadOther, OfCats, CatTasks, TaxInv
<1>2. /\ IsDesk(desk[w]) /\ desk[w].pc = "other" /\ w \in DOMAIN desk /\ Holds(w)
  BY DEF TaxInv, Holds, ReadOther
<1>. DEFINE r == [desk[w] EXCEPT !.pc = "save", !.other = x]
<1>3. /\ IsDesk(r) /\ r.pc = "save" /\ r.todo = desk[w].todo /\ r.mine = desk[w].mine
      /\ r.target = desk[w].target /\ r.fresh = desk[w].fresh /\ r.other = x
  BY <1>2 DEF IsDesk
<1>4. desk' = [desk EXCEPT ![w] = r]
  BY <1>1
<1>. HIDE DEF r
<1>5. desk'[w] = r
  BY <1>2, <1>4
<1>6. UNCHANGED OfCats(w) /\ UNCHANGED <<cats, conns>>
  BY <1>3, <1>5 DEF OfCats, TaskOf, ReadOther
<1>7. ASSUME OfCats(w) PROVE Holds(w)'
  <2>1. CatList(desk[w].mine) /\ (desk[w].fresh => KeepsCats(desk[w].mine, desk[w].target))
    BY <1>2, <1>7 DEF Holds
  <2>. QED BY <1>1, <1>2, <1>3, <1>5, <1>6, <1>7, <2>1 DEF Holds, KeepsCats
<1>8. ASSUME ~OfCats(w) PROVE Holds(w)'
  <2>1. ConnList(desk[w].mine) /\ (desk[w].fresh => KeepsConns(desk[w].mine, desk[w].target))
    BY <1>2, <1>8 DEF Holds
  <2>. QED BY <1>1, <1>2, <1>3, <1>5, <1>6, <1>8, <2>1 DEF Holds, KeepsConns
<1>. QED BY <1>4, <1>7, <1>8, OneDesk DEF ReadOther

\* A save overtakes every other request.
LEMMA SaveInv ==
  ASSUME TaxInv, NEW w \in Editors, SaveBoth(w)
  PROVE  TaxInv'
<1>1. Holds(w) /\ desk[w].pc = "save"
  BY DEF TaxInv, SaveBoth
<1>2. CatList(cats') /\ ConnList(conns')
  BY <1>1 DEF SaveBoth, Holds, OfCats
<1>3. desk' = [v \in Editors |-> desk'[v]]
  BY DEF SaveBoth
<1>4. ASSUME NEW v \in Editors \ {w} PROVE Holds(v)'
  <2>. DEFINE r == [desk[v] EXCEPT !.fresh = FALSE]
  <2>1. IsDesk(desk[v]) /\ Holds(v)
    BY DEF TaxInv, Holds
  <2>2. /\ IsDesk(r) /\ r.pc = desk[v].pc /\ r.todo = desk[v].todo /\ r.mine = desk[v].mine
        /\ r.other = desk[v].other /\ r.fresh = FALSE
    BY <2>1, Overtaken
  <2>3. desk'[v] = r
    BY DEF SaveBoth
  <2>. HIDE DEF r
  <2>. QED BY <2>1, <2>2, <2>3 DEF Holds, OfCats, TaskOf, CatList, ConnList
<1>5. Holds(w)'
  <2>1. PICK duty : desk'[w] = [Free EXCEPT !.todo = duty]
    <3>1. IsDesk(Onward(w))
      BY FreeDesk DEF Onward
    <3>2. [Onward(w) EXCEPT !.todo = <<"seedconns">> \o @]
            = [Free EXCEPT !.todo = <<"seedconns">> \o Onward(w).todo]
      BY DEF Onward, Free
    <3>. QED BY <3>2 DEF SaveBoth, Onward
  <2>. QED BY <2>1, FreeDesk, Looking
<1>. QED BY <1>2, <1>3, <1>4, <1>5 DEF TaxInv

\* Every step keeps the invariant ...
LEMMA TaxNextInv == TaxInv /\ [TaxNext]_taxVars => TaxInv'
<1>. SUFFICES ASSUME TaxInv, [TaxNext]_taxVars PROVE TaxInv'
  OBVIOUS
<1>1. CASE UNCHANGED taxVars
  BY <1>1 DEF taxVars, TaxInv, Holds, OfCats, TaskOf, CatList, ConnList, KeepsCats, KeepsConns
<1>. QED BY <1>1, OpenDeskInv, LookUpInv, RefuseInv, ReadOtherInv, SaveInv DEF TaxNext

\* ... so it always holds.
LEMMA TaxAlways == TaxSpec => []TaxInv
BY TaxInitInv, TaxNextInv, PTL DEF TaxSpec

----------------------------------------------------------------------------
\* What EditsLocal says of one step.
LocalStep ==
  \A w \in Editors : SavesNow(w) /\ desk[w].fresh =>
    /\ IF TaskOf(w) \in CatTasks THEN conns' = conns \/ conns = <<>> ELSE cats' = cats \/ cats = <<>>
    /\ \A c \in DOMAIN cats : c \in desk[w].target \/ (c \in DOMAIN cats' /\ cats'[c] = cats[c])
    /\ \A s \in DOMAIN conns :
         s \in desk[w].target
           \/ (s \in DOMAIN conns' /\ conns'[s].url = conns[s].url /\ conns'[s].on = conns[s].on)

\* Only a save takes a desk from save to look.
LEMMA OnlySaves ==
  ASSUME TaxInv, [TaxNext]_taxVars, NEW w \in Editors, SavesNow(w)
  PROVE  SaveBoth(w)
<1>1. desk[w].pc = "save" /\ desk'[w].pc = "look"
  BY DEF SavesNow
<1>2. ASSUME NEW v \in Editors, v # w, NEW r, desk' = [desk EXCEPT ![v] = r] PROVE FALSE
  BY <1>1, <1>2 DEF TaxInv
<1>3. ASSUME NEW v \in Editors, v # w, SaveBoth(v) PROVE FALSE
  <2>1. desk'[w] = [desk[w] EXCEPT !.fresh = FALSE] /\ IsDesk(desk[w])
    BY <1>3 DEF SaveBoth, TaxInv, Holds
  <2>2. desk'[w].pc = desk[w].pc
    BY <2>1, Overtaken
  <2>. QED BY <1>1, <2>2
<1>4. ~UNCHANGED taxVars
  BY <1>1 DEF taxVars
<1>5. ASSUME NEW duty \in Duties, OpenDesk(w, duty) PROVE FALSE
  BY <1>1, <1>5 DEF OpenDesk, TaxInv, Holds
<1>6. ~LookUp(w) /\ ~RefuseEdit(w) /\ ~ReadOther(w)
  BY <1>1 DEF LookUp, RefuseEdit, ReadOther
<1>7. ASSUME NEW v \in Editors, v # w,
             \/ \E duty \in Duties : OpenDesk(v, duty)
             \/ LookUp(v) \/ RefuseEdit(v) \/ ReadOther(v)
      PROVE  FALSE
  <2>1. desk'[w] = desk[w]
    BY <1>7 DEF OpenDesk, LookUp, RefuseEdit, ReadOther, TaxInv
  <2>. QED BY <1>1, <2>1
<1>. QED BY <1>3, <1>4, <1>5, <1>6, <1>7 DEF TaxNext

(* Edits are local: what _save_categories_connections writes over the one    *)
(* settings document differs from it only in the rows the edit is about, for *)
(* any number of editors, unless another one saved since the first read.     *)
THEOREM EditsLocalAlways == TaxSpec => EditsLocal
<1>1. TaxInv /\ [TaxNext]_taxVars => [LocalStep]_taxVars
  <2>. SUFFICES ASSUME TaxInv, [TaxNext]_taxVars PROVE LocalStep
    OBVIOUS
  <2>. SUFFICES ASSUME NEW w \in Editors, SavesNow(w), desk[w].fresh
                PROVE  /\ IF TaskOf(w) \in CatTasks THEN conns' = conns \/ conns = <<>>
                                                    ELSE cats' = cats \/ cats = <<>>
                       /\ KeepsCats(cats', desk[w].target)
                       /\ KeepsConns(conns', desk[w].target)
    BY DEF LocalStep, KeepsCats, KeepsConns
  <2>1. SaveBoth(w) /\ Holds(w)
    BY OnlySaves DEF TaxInv
  <2>2. CASE OfCats(w)
    <3>1. /\ cats' = desk[w].mine /\ conns' = desk[w].other
          /\ KeepsCats(desk[w].mine, desk[w].target) /\ (desk[w].other = conns \/ conns = <<>>)
      BY <2>1, <2>2 DEF SaveBoth, Holds, OfCats
    <3>. QED BY <2>2, <3>1 DEF KeepsConns, OfCats
  <2>3. CASE ~OfCats(w)
    <3>1. /\ cats' = desk[w].other /\ conns' = desk[w].mine
          /\ KeepsConns(desk[w].mine, desk[w].target) /\ (desk[w].other = cats \/ cats = <<>>)
      BY <2>1, <2>3 DEF SaveBoth, Holds, OfCats
    <3>. QED BY <2>3, <3>1 DEF KeepsCats, OfCats
  <2>. QED BY <2>2, <2>3
<1>. QED BY <1>1, TaxAlways, PTL DEF TaxSpec, EditsLocal, LocalStep

----------------------------------------------------------------------------
(* The types of the rows of the taxonomy: on the document and in the hands   *)
(* of a request between its reads and its save.                              *)

CatRows(f) == \A c \in DOMAIN f : f[c] \in [subs : SUBSET Subs, on : BOOLEAN]
ConnRows(f) ==
  \A s \in DOMAIN f : f[s] \in [url : FeedUrls, on : BOOLEAN, name : {"own", "label"}]

HoldsRows(w) ==
  /\ desk[w].pc \in {"other", "save"} =>
       IF OfCats(w) THEN CatRows(desk[w].mine) ELSE ConnRows(desk[w].mine)
  /\ desk[w].pc = "save" =>
       IF OfCats(w) THEN ConnRows(desk[w].other) ELSE CatRows(desk[w].other)

RowsTyped ==
  /\ CatRows(cats) /\ ConnRows(conns) /\ edits \in 0..MaxEdits
  /\ \A w \in Editors : HoldsRows(w)

(* The lists the program starts from.                                        *)
LEMMA FirstRows ==
  CatRows(<<>>) /\ ConnRows(<<>>) /\ CatRows(DefaultCats) /\ ConnRows(CatalogConns)
<1>1. CatRows(<<>>) /\ ConnRows(<<>>)
  BY DEF CatRows, ConnRows
<1>2. CatRows(DefaultCats)
  BY TaxonomyAssumption DEF CatRows, DefaultCats, Category
<1>3. ConnRows(CatalogConns)
  BY TaxonomyAssumption DEF ConnRows, CatalogConns, Connection
<1>. QED BY <1>1, <1>2, <1>3

(* Every edit of a category list leaves rows of categories.                  *)
LEMMA CatEditRows ==
  ASSUME CatList(cats), CatRows(cats), NEW task \in CatTasks, NEW e \in Edited(task)
  PROVE  CatRows(e.mine)
<1>. USE DEF CatRows
<1>1. CASE e \in CreateCategory
  <2>1. PICK c \in Cats \ DOMAIN cats, S \in SUBSET Subs : e = AddCategory(c, S)
    BY <1>1 DEF CreateCategory
  <2>2. e.mine = With(cats, c, NewCategory(S))
    BY <2>1, SavedFields DEF AddCategory
  <2>3. NewCategory(S) \in [subs : SUBSET Subs, on : BOOLEAN]
    BY DEF NewCategory, Category
  <2>4. \A y \in DOMAIN e.mine : y \in DOMAIN cats \cup {c}
                                 /\ e.mine[y] = IF y = c THEN NewCategory(S) ELSE cats[y]
    BY <2>2 DEF With
  <2>. QED BY <2>3, <2>4
<1>2. CASE e \in UpdateCategory
  BY <1>2 DEF UpdateCategory, Saved, CatList
<1>3. CASE e \in DeleteCategory
  <2>1. PICK c \in DOMAIN cats : e = Saved(Without(cats, c), {c})
    BY <1>3 DEF DeleteCategory
  <2>3. e.mine = Without(cats, c)
    BY <2>1, SavedFields
  <2>2. \A y \in DOMAIN e.mine : y \in DOMAIN cats /\ e.mine[y] = cats[y]
    BY <2>3 DEF Without
  <2>. QED BY <2>2
<1>4. CASE e \in AddSubcategory
  <2>0. PICK c \in DOMAIN cats :
          e \in {Saved([cats EXCEPT ![c].subs = @ \cup {s}], {c}) : s \in Subs \ cats[c].subs}
    BY <1>4 DEF AddSubcategory
  <2>1. PICK s \in Subs : e = Saved([cats EXCEPT ![c].subs = @ \cup {s}], {c})
    BY <2>0
  <2>2. cats[c].subs \cup {s} \in SUBSET Subs
    OBVIOUS
  <2>3. e.mine = [cats EXCEPT ![c].subs = @ \cup {s}]
    BY <2>1, SavedFields
  <2>. QED BY <2>2, <2>3 DEF CatList
<1>5. CASE e \in UpdateSubcategory
  BY <1>5, SavedFields DEF UpdateSubcategory
<1>6. CASE e \in DeleteSubcategory
  <2>0. PICK c \in DOMAIN cats : e \in {Saved([cats EXCEPT ![c].subs = @ \ {s}], {c}) : s \in cats[c].subs}
    BY <1>6 DEF DeleteSubcategory
  <2>1. PICK s \in cats[c].subs : e = Saved([cats EXCEPT ![c].subs = @ \ {s}], {c})
    BY <2>0
  <2>2. cats[c].subs \ {s} \in SUBSET Subs
    OBVIOUS
  <2>3. e.mine = [cats EXCEPT ![c].subs = @ \ {s}]
    BY <2>1, SavedFields
  <2>. QED BY <2>2, <2>3 DEF CatList
<1>7. CASE e \in ReplaceCategories
  BY <1>7, FirstRows, SavedFields DEF ReplaceCategories
<1>8. CASE e \in SeedCategories
  BY <1>8, FirstRows, SavedFields DEF SeedCategories
<1>. QED BY <1>1, <1>2, <1>3, <1>4, <1>5, <1>6, <1>7, <1>8 DEF Edited, CatTasks

(* Every edit of a connection list leaves rows of connections.               *)
LEMMA ConnEditRows ==
  ASSUME ConnList(conns), ConnRows(conns), NEW task, task \notin CatTasks, NEW e \in Edited(task)
  PROVE  ConnRows(e.mine)
<1>. USE DEF ConnRows
<1>1. CASE e \in CreateConnection
  <2>1. PICK s \in Slugs \ DOMAIN conns, u \in FeedUrls \ UrlsOf(conns) : e = AddConnection(s, u)
    BY <1>1 DEF CreateConnection
  <2>2. e.mine = With(conns, s, NewConnection(u))
    BY <2>1, SavedFields DEF AddConnection
  <2>3. NewConnection(u) \in [url : FeedUrls, on : BOOLEAN, name : {"own", "label"}]
    BY DEF NewConnection, Connection
  <2>4. \A y \in DOMAIN e.mine : y \in DOMAIN conns \cup {s}
                                 /\ e.mine[y] = IF y = s THEN NewConnection(u) ELSE conns[y]
    BY <2>2 DEF With
  <2>. QED BY <2>3, <2>4
<1>2. CASE e \in UpdateConnection
  BY <1>2 DEF UpdateConnection, Saved, ConnList
<1>3. CASE e \in DeleteConnection
  <2>1. PICK s \in DOMAIN conns : e = Saved(Without(conns, s), {s})
    BY <1>3 DEF DeleteConnection
  <2>3. e.mine = Without(conns, s)
    BY <2>1, SavedFields
  <2>2. \A y \in DOMAIN e.mine : y \in DOMAIN conns /\ e.mine[y] = conns[y]
    BY <2>3 DEF Without
  <2>. QED BY <2>2
<1>4. CASE e \in ReplaceConnections \cup SeedConnections
  BY <1>4, FirstRows, SavedFields DEF ReplaceConnections, SeedConnections
<1>5. CASE e = Saved(Merged, NotYet)
  <2>1. e.mine = Merged
    BY <1>5, SavedFields
  <2>2. \A s \in DOMAIN e.mine : s \in DOMAIN conns \cup NotYet
                                 /\ e.mine[s] = IF s \in NotYet THEN CatalogConns[s] ELSE conns[s]
    BY <2>1 DEF Merged
  <2>3. \A s \in NotYet : s \in DOMAIN CatalogConns
    BY DEF NotYet, CatalogConns
  <2>. QED BY <2>2, <2>3, FirstRows
<1>6. CASE e = Saved(Labelled, {})
  <2>1. e.mine = Labelled
    BY <1>6, SavedFields
  <2>2. \A s \in DOMAIN e.mine : s \in DOMAIN conns /\ e.mine[s] = [conns[s] EXCEPT !.name = "label"]
    BY <2>1 DEF Labelled
  <2>. QED BY <2>2
<1>7. CASE task = "conns"
  <2>1. e \in CreateConnection \cup UpdateConnection \cup DeleteConnection
    BY <1>7 DEF Edited
  <2>. QED BY <2>1, <1>1, <1>2, <1>3
<1>8. CASE task \in {"newconns", "seedconns"}
  <2>1. e \in ReplaceConnections \cup SeedConnections
    BY <1>8 DEF Edited
  <2>. QED BY <2>1, <1>4
<1>9. CASE task \notin {"conns", "newconns", "seedconns"}
  <2>1. e = Saved(Merged, NotYet) \/ e = Saved(Labelled, {})
    BY <1>9 DEF Edited, CatTasks
  <2>. QED BY <2>1, <1>5, <1>6
<1>. QED BY <1>7, <1>8, <1>9

\* A step that writes one desk and leaves the document alone.
LEMMA OneDeskRows ==
  ASSUME TaxInv, RowsTyped, NEW w \in Editors, NEW r, desk' = [desk EXCEPT ![w] = r],
         UNCHANGED <<cats, conns>>, edits' \in 0..MaxEdits, HoldsRows(w)'
  PROVE  RowsTyped'
<1>1. \A v \in Editors \ {w} : desk'[v] = desk[v]
  BY DEF TaxInv
<1>2. ASSUME NEW v \in Editors \ {w} PROVE HoldsRows(v)'
  BY <1>1 DEF RowsTyped, HoldsRows, OfCats, TaskOf, CatRows, ConnRows
<1>. QED BY <1>2 DEF RowsTyped, CatRows, ConnRows

\* The document begins with rows of their types, and nobody holds any.
LEMMA RowsInit == TaxInit => RowsTyped
<1>. SUFFICES ASSUME TaxInit PROVE RowsTyped
  OBVIOUS
<1>1. CatRows(cats) /\ ConnRows(conns)
  BY FirstRows DEF TaxInit
<1>2. \A w \in Editors : desk[w].pc = "look"
  BY DEF TaxInit, Free
<1>3. edits \in 0..MaxEdits
  BY TaxonomyAssumption DEF TaxInit
<1>. QED BY <1>1, <1>2, <1>3 DEF RowsTyped, HoldsRows

\* Every read, edit and save keeps them.
LEMMA RowsNext == TaxInv /\ RowsTyped /\ [TaxNext]_taxVars => RowsTyped'
<1>. SUFFICES ASSUME TaxInv, RowsTyped, [TaxNext]_taxVars PROVE RowsTyped'
  OBVIOUS
<1>0. edits \in 0..MaxEdits /\ MaxEdits \in Nat /\ CatRows(cats) /\ ConnRows(conns)
      /\ CatList(cats) /\ ConnList(conns)
  BY TaxonomyAssumption DEF RowsTyped, TaxInv
<1>1. ASSUME NEW w \in Editors, NEW duty \in Duties, OpenDesk(w, duty) PROVE RowsTyped'
  <2>. DEFINE r == [desk[w] EXCEPT !.todo = duty]
  <2>1. IsDesk(desk[w]) /\ desk[w].pc = "look" /\ w \in DOMAIN desk
    BY <1>1 DEF TaxInv, Holds, OpenDesk
  <2>2. r.pc = "look"
    BY <2>1, Aimed
  <2>3. desk' = [desk EXCEPT ![w] = r] /\ UNCHANGED <<cats, conns>>
    BY <1>1 DEF OpenDesk
  <2>. HIDE DEF r
  <2>4. HoldsRows(w)'
    BY <2>1, <2>2, <2>3 DEF HoldsRows
  <2>5. edits' \in 0..MaxEdits
    BY <1>0, <1>1 DEF OpenDesk
  <2>. QED BY <2>3, <2>4, <2>5, OneDeskRows
<1>2. ASSUME NEW w \in Editors, LookUp(w) PROVE RowsTyped'
  <2>. DEFINE task == TaskOf(w)
  <2>1. IsDesk(desk[w]) /\ desk[w].pc = "look" /\ w \in DOMAIN desk /\ UNCHANGED <<cats, conns, edits>>
    BY <1>2 DEF TaxInv, Holds, LookUp
  <2>2. ASSUME NEW r, desk' = [desk EXCEPT ![w] = r], r.pc = "look" PROVE RowsTyped'
    <3>1. HoldsRows(w)'
      BY <2>1, <2>2 DEF HoldsRows
    <3>. QED BY <1>0, <2>1, <2>2, <3>1, OneDeskRows
  <2>3. CASE desk' = [desk EXCEPT ![w].todo = <<"seedconns">> \o desk[w].todo]
    <3>. DEFINE r == [desk[w] EXCEPT !.todo = <<"seedconns">> \o desk[w].todo]
    <3>1. r.pc = "look"
      BY <2>1, Aimed
    <3>2. desk' = [desk EXCEPT ![w] = r]
      BY <2>3
    <3>. HIDE DEF r
    <3>. QED BY <2>2, <3>1, <3>2
  <2>4. CASE desk' = [desk EXCEPT ![w] = Onward(w)]
    BY <2>2, <2>4, FreeDesk DEF Onward
  <2>5. ASSUME NEW e \in Edited(task),
               desk' = [desk EXCEPT ![w].mine = e.mine, ![w].target = e.target,
                                    ![w].fresh = TRUE, ![w].pc = "other"]
        PROVE  RowsTyped'
    <3>. DEFINE r == [desk[w] EXCEPT !.mine = e.mine, !.target = e.target,
                                     !.fresh = TRUE, !.pc = "other"]
    <3>1. r.pc = "other" /\ r.todo = desk[w].todo /\ r.mine = e.mine
      BY <2>1, ZenonT(60) DEF IsDesk
    <3>2. desk' = [desk EXCEPT ![w] = r]
      BY <2>5
    <3>. HIDE DEF r
    <3>3. desk'[w] = r /\ TaskOf(w)' = task
      BY <2>1, <3>1, <3>2 DEF TaskOf
    <3>4. IF OfCats(w) THEN CatRows(e.mine) ELSE ConnRows(e.mine)
      <4>1. CASE task \in CatTasks
        BY <1>0, <4>1, CatEditRows DEF OfCats
      <4>2. CASE task \notin CatTasks
        <5>1. ConnRows(e.mine)
          BY <1>0, <4>2, ConnEditRows
        <5>. QED BY <4>2, <5>1 DEF OfCats
      <4>. QED BY <4>1, <4>2
    <3>5. HoldsRows(w)'
      BY <3>1, <3>3, <3>4 DEF HoldsRows, OfCats, CatRows, ConnRows
    <3>. QED BY <1>0, <2>1, <3>2, <3>5, OneDeskRows
  <2>. QED BY <1>2, <2>3, <2>4, <2>5 DEF LookUp
<1>3. ASSUME NEW w \in Editors, RefuseEdit(w) PROVE RowsTyped'
  <2>1. desk' = [desk EXCEPT ![w] = Free] /\ w \in DOMAIN desk /\ UNCHANGED <<cats, conns, edits>>
    BY <1>3 DEF RefuseEdit, TaxInv
  <2>2. Free.pc = "look"
    BY DEF Free
  <2>3. HoldsRows(w)'
    BY <2>1, <2>2 DEF HoldsRows
  <2>. QED BY <1>0, <2>1, <2>3, OneDeskRows
<1>4. ASSUME NEW w \in Editors, ReadOther(w) PROVE RowsTyped'
  <2>1. PICK x : /\ desk' = [desk EXCEPT ![w].pc = "save", ![w].other = x]
                 /\ IF OfCats(w) THEN ConnRows(x) ELSE CatRows(x)
    BY <1>0, <1>4, FirstRows DEF ReadOther, OfCats, CatTasks
  <2>2. /\ IsDesk(desk[w]) /\ desk[w].pc = "other" /\ w \in DOMAIN desk
        /\ HoldsRows(w) /\ UNCHANGED <<cats, conns, edits>>
    BY <1>4 DEF TaxInv, Holds, ReadOther, RowsTyped
  <2>. DEFINE r == [desk[w] EXCEPT !.pc = "save", !.other = x]
  <2>3. r.pc = "save" /\ r.todo = desk[w].todo /\ r.mine = desk[w].mine /\ r.other = x
    BY <2>2 DEF IsDesk
  <2>4. desk' = [desk EXCEPT ![w] = r]
    BY <2>1
  <2>. HIDE DEF r
  <2>5. desk'[w] = r
    BY <2>2, <2>4
  <2>6. OfCats(w)' = OfCats(w)
    BY <2>3, <2>5 DEF OfCats, TaskOf
  <2>7. HoldsRows(w)'
    BY <2>1, <2>2, <2>3, <2>5, <2>6 DEF HoldsRows, CatRows, ConnRows
  <2>. QED BY <1>0, <2>2, <2>4, <2>7, OneDeskRows
<1>5. ASSUME NEW w \in Editors, SaveBoth(w) PROVE RowsTyped'
  <2>1. HoldsRows(w) /\ desk[w].pc = "save" /\ edits' = edits
    BY <1>5 DEF SaveBoth, RowsTyped
  <2>2. CatRows(cats') /\ ConnRows(conns')
    BY <1>5, <2>1 DEF SaveBoth, HoldsRows, OfCats
  <2>3. ASSUME NEW v \in Editors \ {w} PROVE HoldsRows(v)'
    <3>. DEFINE r == [desk[v] EXCEPT !.fresh = FALSE]
    <3>1. IsDesk(desk[v]) /\ HoldsRows(v)
      BY DEF TaxInv, Holds, RowsTyped
    <3>2. r.pc = desk[v].pc /\ r.todo = desk[v].todo /\ r.mine = desk[v].mine /\ r.other = desk[v].other
      BY <3>1, Overtaken
    <3>3. desk'[v] = r
      BY <1>5 DEF SaveBoth
    <3>. HIDE DEF r
    <3>. QED BY <3>1, <3>2, <3>3 DEF HoldsRows, OfCats, TaskOf, CatRows, ConnRows
  <2>4. HoldsRows(w)'
    <3>1. PICK duty : desk'[w] = [Free EXCEPT !.todo = duty]
      <4>1. [Onward(w) EXCEPT !.todo = <<"seedconns">> \o @]
              = [Free EXCEPT !.todo = <<"seedconns">> \o Onward(w).todo]
        BY DEF Onward, Free
      <4>. QED BY <1>5, <4>1 DEF SaveBoth, Onward
    <3>2. desk'[w].pc = "look"
      BY <3>1, FreeDesk
    <3>. QED BY <3>2 DEF HoldsRows
  <2>. QED BY <1>0, <2>1, <2>2, <2>3, <2>4 DEF RowsTyped, CatRows, ConnRows
<1>6. CASE UNCHANGED taxVars
  BY <1>6 DEF taxVars, RowsTyped, HoldsRows, OfCats, TaskOf, CatRows, ConnRows
<1>. QED BY <1>1, <1>2, <1>3, <1>4, <1>5, <1>6 DEF TaxNext

(* Type correctness of the taxonomy: whichever edits, seeds, merges and      *)
(* label refreshes overlap, the document holds categories with known         *)
(* subcategories and connections with feed URLs.                             *)
THEOREM TaxTypeCorrect == TaxSpec => []TaxTypeOK
<1>1. TaxInv /\ RowsTyped => TaxTypeOK
  BY DEF TaxInv, RowsTyped, CatList, ConnList, CatRows, ConnRows, TaxTypeOK
<1>. QED BY TaxInitInv, TaxNextInv, RowsInit, RowsNext, <1>1, PTL DEF TaxSpec

----------------------------------------------------------------------------
(* The run of one source: what Arranged returns, then the order of the rss   *)
(* run, then the run.                                                        *)

(* What Arranged and Picked return.                                          *)
LEMMA ArrangedIs ==
  ASSUME NEW s, NEW S, NEW R
  PROVE  Arranged(s, S, R) = [n \in 1..Cardinality(S) |-> s[Place(S, R, n)]]
  BY DEF Arranged, Ordered, Place, Ahead, Below

(* Picking places of a sequence gives a sequence of its elements.            *)
LEMMA PickedIs ==
  ASSUME NEW T, NEW s \in Seq(T), NEW S \in SUBSET (DOMAIN s)
  PROVE  Picked(s, S) \in Seq(T)
<1> DEFINE R == {p \in S \X S : p[1] < p[2]}
<1>1. S \subseteq Nat /\ IsFiniteSet(S)
  <2>1. DOMAIN s = 1..Len(s) /\ Len(s) \in Nat
    OBVIOUS
  <2>2. IsFiniteSet(1..Len(s)) /\ S \in SUBSET (1..Len(s))
    BY <2>1, FS_Interval
  <2>3. IsFiniteSet(S)
    BY <2>2, FS_Subset
  <2> QED
    BY <2>1, <2>3
<1>2. Orders(S, R)
  BY <1>1 DEF Orders
<1>3. Cardinality(S) \in Nat
  BY <1>1, FS_CardinalityType
<1> HIDE DEF R
<1>4. \A n \in 1..Cardinality(S) : s[Place(S, R, n)] \in T
  BY <1>2, Placed
<1>5. Picked(s, S) = [n \in 1..Cardinality(S) |-> s[Place(S, R, n)]]
  BY ArrangedIs DEF Picked, R
<1> QED
  BY <1>3, <1>4, <1>5

-----------------------------------------------------------------------------
(* The order of the rss run's entries.                                       *)

\* The entries of s up to j that are of the part of j.
UpTo(s, j) == {i \in 1..j : s[i][1] = s[j][1]}
Sooner(s) == {p \in (DOMAIN s) \X (DOMAIN s) : Before(s, p[1], p[2])}

\* Whoever comes later in s is not of an earlier turn.
Level(s) == \A i, j \in DOMAIN s : i < j => Turn(s, i) <= Turn(s, j)

Places(s, f) == {i \in DOMAIN s : s[i][1] = f}

(* Turns count, and grow within a part.                                      *)
LEMMA TurnsGrow ==
  ASSUME NEW T, NEW s \in Seq(Int \X T), NEW j \in DOMAIN s
  PROVE  /\ IsFiniteSet(UpTo(s, j)) /\ Turn(s, j) = Cardinality(UpTo(s, j)) /\ Turn(s, j) \in Nat
         /\ \A i \in DOMAIN s : i < j /\ s[i][1] = s[j][1] => Turn(s, i) < Turn(s, j)
<1>1. ASSUME NEW k \in DOMAIN s
      PROVE  IsFiniteSet(UpTo(s, k)) /\ Turn(s, k) = Cardinality(UpTo(s, k)) /\ Turn(s, k) \in Nat
  <2>1. k \in Int
    OBVIOUS
  <2>2. IsFiniteSet(1..k) /\ UpTo(s, k) \in SUBSET (1..k)
    BY <2>1, FS_Interval DEF UpTo
  <2>3. IsFiniteSet(UpTo(s, k))
    BY <2>2, FS_Subset
  <2>4. Cardinality(UpTo(s, k)) \in Nat
    BY <2>3, FS_CardinalityType
  <2> QED
    BY <2>3, <2>4 DEF Turn, UpTo
<1>2. ASSUME NEW i \in DOMAIN s, i < j, s[i][1] = s[j][1] PROVE Turn(s, i) < Turn(s, j)
  <2>1. i \in Int /\ j \in Int /\ 1 <= i /\ 1 <= j
    OBVIOUS
  <2>2. UpTo(s, i) \in SUBSET (UpTo(s, j) \ {j}) /\ j \in UpTo(s, j)
    BY <1>2, <2>1 DEF UpTo
  <2>3. IsFiniteSet(UpTo(s, j) \ {j}) /\ Cardinality(UpTo(s, j) \ {j}) = Turn(s, j) - 1
    BY <1>1, <2>2, FS_RemoveElement
  <2>4. Turn(s, i) <= Turn(s, j) - 1
    BY <1>1, <2>2, <2>3, FS_Subset
  <2>5. Turn(s, i) \in Int /\ Turn(s, j) \in Int
    BY <1>1
  <2> QED
    BY <2>4, <2>5
<1> QED
  BY <1>1, <1>2

(* Turn by turn, and by part within a turn, is an order of all entries.      *)
LEMMA SoonerOrders ==
  ASSUME NEW T, NEW s \in Seq(Int \X T)
  PROVE  /\ Orders(DOMAIN s, Sooner(s)) /\ DOMAIN s = 1..Cardinality(DOMAIN s)
         /\ \A i, j \in DOMAIN s : i < j /\ s[i][1] = s[j][1] => <<i, j>> \in Sooner(s)
<1>1. DOMAIN s = 1..Len(s) /\ Len(s) \in Nat /\ \A i \in DOMAIN s : i \in Int /\ s[i][1] \in Int
  OBVIOUS
<1>2. IsFiniteSet(DOMAIN s) /\ Cardinality(DOMAIN s) = Len(s)
  <2> DEFINE n == Len(s)
  <2>1. n \in Nat /\ DOMAIN s = 1..n
    BY <1>1
  <2> HIDE DEF n
  <2>2. IsFiniteSet(1..n) /\ Cardinality(1..n) = n
    BY <2>1, FS_Interval
  <2> QED
    BY <2>1, <2>2 DEF n
<1>3. \A i \in DOMAIN s : Turn(s, i) \in Nat
  BY TurnsGrow
<1>4. \A i, j \in DOMAIN s : <<i, j>> \in Sooner(s) <=> Before(s, i, j)
  BY DEF Sooner
<1>5. \A i, j \in DOMAIN s : i < j /\ s[i][1] = s[j][1] => Before(s, i, j)
  BY TurnsGrow DEF Before
<1>6. \A x \in DOMAIN s : ~Before(s, x, x)
  BY <1>1, <1>3 DEF Before
<1>7. \A x, y, z \in DOMAIN s : Before(s, x, y) /\ Before(s, y, z) => Before(s, x, z)
  BY <1>1, <1>3 DEF Before
<1>8. \A x, y \in DOMAIN s : x = y \/ Before(s, x, y) \/ Before(s, y, x)
  <2> SUFFICES ASSUME NEW x \in DOMAIN s, NEW y \in DOMAIN s, x # y
               PROVE  Before(s, x, y) \/ Before(s, y, x)
    OBVIOUS
  <2>1. CASE s[x][1] = s[y][1]
    <3>1. x < y \/ y < x
      BY <1>1
    <3> QED
      BY <1>5, <2>1, <3>1
  <2>2. CASE s[x][1] # s[y][1]
    <3>1. s[x][1] < s[y][1] \/ s[y][1] < s[x][1]
      BY <1>1, <2>2
    <3>2. Turn(s, x) < Turn(s, y) \/ Turn(s, y) < Turn(s, x) \/ Turn(s, x) = Turn(s, y)
      BY <1>3
    <3> QED
      BY <3>1, <3>2 DEF Before
  <2> QED
    BY <2>1, <2>2
<1>9. Orders(DOMAIN s, Sooner(s))
  BY <1>2, <1>4, <1>6, <1>7, <1>8 DEF Orders
<1> QED
  BY <1>1, <1>2, <1>4, <1>5, <1>9

(* Interleaved is a rearrangement that goes turn by turn.                    *)
LEMMA InterleavedIs ==
  ASSUME NEW T, NEW s \in Seq(Int \X T)
  PROVE  /\ Interleaved(s) \in Seq(Int \X T) /\ Level(Interleaved(s))
         /\ \A f : EntriesOf(Interleaved(s), f) = EntriesOf(s, f)
<1> DEFINE S == DOMAIN s  R == Sooner(s)  t == Interleaved(s)  spot(n) == Place(S, R, n)
<1>1. /\ Orders(S, R) /\ S = 1..Cardinality(S) /\ S = 1..Len(s) /\ Len(s) \in Nat
      /\ \A i, j \in S : i < j /\ s[i][1] = s[j][1] => <<i, j>> \in R
  <2>1. S = 1..Len(s) /\ Len(s) \in Nat
    OBVIOUS
  <2> QED
    BY <2>1, SoonerOrders
<1>2. t = [n \in S |-> s[spot(n)]]
  BY <1>1, ArrangedIs DEF Interleaved, Sooner
<1>3. \A n \in S : spot(n) \in S
  BY <1>1, Placed
<1>4. t \in Seq(Int \X T) /\ DOMAIN t = S /\ \A n \in S : t[n] = s[spot(n)]
  BY <1>1, <1>2, <1>3
<1> HIDE DEF t
<1>5. ASSUME NEW f PROVE EntriesOf(t, f) = EntriesOf(s, f)
  <2>1. {n \in S : t[n][1] = f} = {n \in 1..Cardinality(S) : spot(n) \in Places(s, f)}
    BY <1>1, <1>3, <1>4 DEF Places
  <2>2. Places(s, f) \in SUBSET S
    BY DEF Places
  <2>3. Orders(S, R)
    BY <1>1
  <2>4. Cardinality({n \in 1..Cardinality(S) : Place(S, R, n) \in Places(s, f)}) = Cardinality(Places(s, f))
    BY ONLY <2>2, <2>3, PlacesOf
  <2> QED
    BY <1>4, <2>1, <2>4 DEF EntriesOf, Places
<1>6. ASSUME NEW n \in S PROVE Turn(t, n) = Turn(s, spot(n))
  <2>1. ASSUME NEW m \in S, s[spot(m)][1] = s[spot(n)][1] PROVE m <= n <=> spot(m) <= spot(n)
    <3>1. spot(m) \in Int /\ spot(n) \in Int /\ m \in Int /\ n \in Int
      BY <1>1, <1>3
    <3>2. m < n => <<spot(m), spot(n)>> \in R
      BY <1>1, Placed
    <3>3. n < m => <<spot(n), spot(m)>> \in R
      BY <1>1, Placed
    <3>4. spot(m) < spot(n) => <<spot(m), spot(n)>> \in R
      BY <1>1, <1>3, <2>1
    <3>5. spot(n) < spot(m) => <<spot(n), spot(m)>> \in R
      BY <1>1, <1>3, <2>1
    <3>6. ~(<<spot(m), spot(n)>> \in R /\ <<spot(n), spot(m)>> \in R)
      BY <1>1, <1>3 DEF Orders
    <3>7. m = n => spot(m) = spot(n)
      OBVIOUS
    <3>9. <<spot(m), spot(m)>> \notin R
      BY <1>1, <1>3 DEF Orders
    <3> HIDE DEF spot, R
    <3>8. spot(m) = spot(n) => m = n
      <4>1. ASSUME spot(m) = spot(n) PROVE ~(m < n) /\ ~(n < m)
        BY <3>2, <3>3, <3>9, <4>1
      <4> QED
        BY <3>1, <4>1
    <3> QED
      BY <3>1, <3>2, <3>3, <3>4, <3>5, <3>6, <3>7, <3>8
  <2>2. UpTo(s, spot(n)) \in SUBSET S
    BY <1>1, <1>3 DEF UpTo
  <2>3. UpTo(t, n) = {m \in 1..Cardinality(S) : spot(m) \in UpTo(s, spot(n))}
    <3>1. \A m \in S : m \in UpTo(t, n) <=> m <= n /\ s[spot(m)][1] = s[spot(n)][1]
      BY <1>1, <1>4 DEF UpTo
    <3>2. \A m \in S : spot(m) \in UpTo(s, spot(n)) <=> spot(m) <= spot(n) /\ s[spot(m)][1] = s[spot(n)][1]
      BY <1>1, <1>3 DEF UpTo
    <3>3. UpTo(t, n) \subseteq S
      BY <1>1 DEF UpTo
    <3> HIDE DEF spot
    <3> QED
      BY <1>1, <2>1, <3>1, <3>2, <3>3
  <2>4. Turn(t, n) = Cardinality(UpTo(t, n)) /\ Turn(s, spot(n)) = Cardinality(UpTo(s, spot(n)))
    BY DEF Turn, UpTo
  <2>5. Cardinality(UpTo(t, n)) = Cardinality(UpTo(s, spot(n)))
    <3>1. Orders(S, R)
      BY <1>1
    <3> DEFINE B == UpTo(s, spot(n))
    <3>2. Cardinality({m \in 1..Cardinality(S) : Place(S, R, m) \in B}) = Cardinality(B)
      <4>1. B \in SUBSET S
        BY <2>2
      <4> HIDE DEF B
      <4> QED
        BY ONLY <3>1, <4>1, PlacesOf
    <3> HIDE DEF B
    <3> QED
      BY <2>3, <3>2 DEF B
  <2> QED
    BY <2>4, <2>5
<1>7. Level(t)
  <2> SUFFICES ASSUME NEW m \in S, NEW n \in S, m < n PROVE Turn(t, m) <= Turn(t, n)
    BY <1>4 DEF Level
  <2>1. <<spot(m), spot(n)>> \in R /\ spot(m) \in S /\ spot(n) \in S
    BY <1>1, <1>3, Placed
  <2>2. Before(s, spot(m), spot(n))
    BY <2>1 DEF Sooner
  <2>3. Turn(s, spot(m)) \in Nat /\ Turn(s, spot(n)) \in Nat
    BY <2>1, TurnsGrow
  <2>4. Turn(s, spot(m)) <= Turn(s, spot(n))
    BY <2>2, <2>3 DEF Before
  <2> QED
    BY <1>6, <2>4
<1> QED
  BY <1>4, <1>5, <1>7 DEF t

(* Of an order that goes turn by turn, a part of the front never holds two   *)
(* entries more of one part than of another that has more to give.           *)
LEMMA FrontLevel ==
  ASSUME NEW t \in Seq(Int \X PageUrls), NEW q \in Seq(Int \X PageUrls), Level(t \o q)
  PROVE  \A f, g : EntriesOf(t, f) <= EntriesOf(t, g) + 1 \/ EntriesOf(t, g) = EntriesOf(t \o q, g)
<1> DEFINE s == t \o q  m == Len(t)
<1>0. /\ s \in Seq(Int \X PageUrls) /\ m \in 0..Len(s) /\ t \in Seq(Int \X PageUrls) /\ Len(t) = m
      /\ \A i \in 1..m : t[i] = s[i]
  OBVIOUS
<1>s. Level(s)
  OBVIOUS
<1> SUFFICES ASSUME NEW f, NEW g
             PROVE  EntriesOf(t, f) <= EntriesOf(t, g) + 1 \/ EntriesOf(t, g) = EntriesOf(s, g)
  OBVIOUS
<1> HIDE DEF s, m
<1> DEFINE F == Places(t, f)  G == Places(t, g)  H == Places(s, g)
<1>1. /\ DOMAIN s = 1..Len(s) /\ DOMAIN t = 1..m /\ m \in Nat /\ Len(s) \in Nat /\ m <= Len(s)
  BY <1>0
<1>2. /\ IsFiniteSet(F) /\ IsFiniteSet(G) /\ IsFiniteSet(H)
      /\ EntriesOf(t, f) = Cardinality(F) /\ EntriesOf(t, g) = Cardinality(G)
      /\ EntriesOf(s, g) = Cardinality(H)
      /\ Cardinality(F) \in Nat /\ Cardinality(G) \in Nat
  <2>0. F \in SUBSET (1..m) /\ G \in SUBSET (1..m) /\ H \in SUBSET (1..Len(s))
    BY <1>0, <1>1 DEF Places
  <2>1. IsFiniteSet(1..m) /\ IsFiniteSet(1..Len(s))
    BY <1>1, FS_Interval
  <2>2. IsFiniteSet(F) /\ IsFiniteSet(G) /\ IsFiniteSet(H)
    BY <2>0, <2>1, FS_Subset
  <2> QED
    BY <2>2, FS_CardinalityType DEF EntriesOf, Places
<1>3. CASE F = {}
  <2>1. Cardinality(F) = 0
    BY <1>3, FS_EmptySet
  <2> QED
    BY <1>2, <2>1
<1>4. CASE H = G
  BY <1>2, <1>4
<1>5. CASE F # {} /\ H # G
  <2>1. PICK i \in F : \A k \in F : k <= i
    <3>1. F \in SUBSET Nat /\ \A x \in F : x <= m
      BY <1>0, <1>1 DEF Places
    <3> QED
      BY <1>1, <1>5, <3>1, GreatestElement
  <2>2. PICK j \in H \ G : \A k \in H \ G : j <= k
    <3>1. G \subseteq H
      BY <1>0, <1>1 DEF Places
    <3>2. H \ G \in SUBSET Nat /\ H \ G # {}
      BY <1>1, <1>5, <3>1 DEF Places
    <3> QED
      BY <3>2, LeastElement
  <2>3. i \in 1..m /\ j \in (m + 1)..Len(s) /\ i < j /\ s[i][1] = f /\ s[j][1] = g
    BY <1>0, <1>1, <2>1, <2>2 DEF Places
  <2>4. UpTo(s, i) = F
    <3>1. \A k \in 1..m : k \in F <=> s[k][1] = f
      BY <1>0, <1>1 DEF Places
    <3>2. \A k \in 1..i : k \in 1..m
      BY <1>1, <2>3
    <3>3. F \subseteq 1..i
      BY <1>0, <1>1, <2>1, <2>3 DEF Places
    <3> QED
      BY <2>3, <3>1, <3>2, <3>3 DEF UpTo
  <2>5. UpTo(s, j) = G \cup {j} /\ j \notin G
    <3>1. \A k \in 1..m : k \in G <=> s[k][1] = g
      BY <1>0, <1>1 DEF Places
    <3>2. \A k \in (m + 1)..Len(s) : k < j => s[k][1] # g
      <4> SUFFICES ASSUME NEW k \in (m + 1)..Len(s), s[k][1] = g PROVE j <= k
        BY <1>1, <2>3
      <4>1. k \in H /\ k \notin G
        BY <1>0, <1>1 DEF Places
      <4> QED
        BY <2>2, <4>1
    <3>3. G \subseteq 1..m
      BY <1>0, <1>1 DEF Places
    <3> QED
      BY <1>1, <2>3, <3>1, <3>2, <3>3 DEF UpTo
  <2>6. Turn(s, i) = Cardinality(F) /\ Turn(s, j) = Cardinality(G) + 1
    <3>1. Cardinality(G \cup {j}) = Cardinality(G) + 1
      BY <1>2, <2>5, FS_AddElement
    <3> QED
      BY <2>4, <2>5, <3>1 DEF Turn, UpTo
  <2>7. Turn(s, i) <= Turn(s, j)
    <3>1. i \in DOMAIN s /\ j \in DOMAIN s
      BY <1>1, <2>3
    <3> QED
      BY <1>s, <2>3, <3>1 DEF Level
  <2> HIDE DEF F, G
  <2> QED
    BY <1>2, <2>6, <2>7
<1> QED
  BY <1>3, <1>4, <1>5

-----------------------------------------------------------------------------
(* The run of one source.                                                    *)

\* A run has its fields.
IsRun(r) ==
  DOMAIN r = {"pc", "kind", "parts", "queue", "seen", "inserted", "here", "cap", "calls", "page"}

\* All listings, feeds and requests there are.
Offered == UNION {Range(Parts(k)) : k \in Kinds}

Bound == IF source.kind = "sites" THEN MaxTotal ELSE Limit

RunTyped ==
  /\ IsRun(source)
  /\ source.pc \in {"idle", "list", "try", "fetch", "put", "done", "raised"}
  /\ source.kind \in Kinds \cup {"none"} /\ (source.pc # "idle" => source.kind \in Kinds)
  /\ source.parts \in Seq(Offered) /\ source.queue \in Seq(Int \X PageUrls)
  /\ source.calls \in Nat
  /\ source.pc \in {"try", "fetch", "put"} /\ ~Gathers(source.kind) => source.parts # <<>>
  /\ source.pc \in {"fetch", "put"} => source.page \in PageUrls
  /\ robots \in [Hosts -> {"unknown", "open", "shut", "failed"}]
  /\ articles \subseteq PageUrls /\ tried \in Seq(Int \X PageUrls)

\* Between the look-up and the insert the run has room for the page.
RunStored ==
  /\ put \subseteq articles /\ IsFiniteSet(put)
  /\ source.inserted = Cardinality(put) /\ source.inserted <= Bound
  /\ source.pc \in {"fetch", "put"} => source.inserted < Bound
  /\ source.kind \in Apis => source.calls <= Calls

RunAllowed == fetched \subseteq Hosts /\ PagesAllowed

\* Of the rss run: what was listed is in the queue or was tried, turn by turn.
RunFeeds ==
  source.kind = "feeds" =>
    /\ listed \in [DOMAIN Parts("feeds") -> Nat]
    /\ IF source.pc = "list"
       THEN /\ tried = <<>> /\ Len(source.parts) <= Len(Parts("feeds"))
            /\ \A f \in DOMAIN Parts("feeds") :
                 listed[f] = EntriesOf(source.queue, f) /\ (f >= PartNow => listed[f] = 0)
       ELSE /\ Level(tried \o source.queue)
            /\ \A f \in DOMAIN Parts("feeds") : listed[f] = EntriesOf(tried \o source.queue, f)

RunInv == RunTyped /\ RunStored /\ RunAllowed /\ RunFeeds

-----------------------------------------------------------------------------
(* The parts of every kind are a sequence, with hosts that have a robots.txt.*)
LEMMA PartsListed ==
  /\ \A k \in Kinds : Parts(k) \in Seq(Offered)
  /\ \A p \in Offered : p.host \in Hosts
<1>1. ASSUME NEW k \in Kinds PROVE Parts(k) \in Seq(Range(Parts(k)))
  <2>1. ASSUME NEW T, NEW s \in Seq(T) PROVE Requested(s) \in Seq(Range(Requested(s)))
    BY DEF Requested, Range
  <2>2. Topics \in Seq(Range(Topics))
    BY SourceAssumption
  <2>3. GnewsRequests \in Seq(Range(Topics) \cup {"general"})
    <3> DEFINE S == {i \in DOMAIN Topics : Topics[i] \in ValidTopics \ {"general"}}
    <3>1. Picked(Topics, S) \in Seq(Range(Topics))
      BY <2>2, PickedIs
    <3> QED
      BY <3>1 DEF GnewsRequests
  <2>4. /\ NewsdataRequests \in Seq(Range(Topics) \cup {"latest"})
        /\ CurrentsRequests \in Seq(Range(Topics) \cup {"latest-news"})
    BY <2>2 DEF NewsdataRequests, CurrentsRequests
  <2>5. CASE k \in Apis
    BY <2>1, <2>3, <2>4, <2>5 DEF Parts, Apis
  <2>6. CASE k \notin Apis
    BY <2>6, SourceAssumption DEF Parts, Apis, Kinds
  <2> QED
    BY <2>5, <2>6
<1>2. ASSUME NEW k \in Kinds PROVE Parts(k) \in Seq(Offered)
  <2>1. Range(Parts(k)) \subseteq Offered
    BY DEF Offered
  <2> HIDE DEF Offered
  <2> QED
    BY <1>1, <2>1
<1>3. \A p \in Offered : p.host \in Hosts
  <2> SUFFICES ASSUME NEW k \in Kinds, NEW p \in Range(Parts(k)) PROVE p.host \in Hosts
    BY DEF Offered
  <2>1. PICK i \in DOMAIN Parts(k) : p = Parts(k)[i]
    BY DEF Range
  <2> QED
    BY <2>1 DEF Hosts
<1> QED
  BY <1>2, <1>3

(* The host of the listing at the head, and of every page, is one of them.   *)
LEMMA HostsKnown ==
  ASSUME RunTyped
  PROVE  /\ source.parts # <<>> => ListHost \in Hosts
         /\ source.pc \in {"fetch", "put"} => HostOf[source.page] \in Hosts
<1>1. ASSUME source.parts # <<>> PROVE ListHost \in Hosts
  BY <1>1, PartsListed DEF RunTyped, ListHost
<1>2. ASSUME source.pc \in {"fetch", "put"} PROVE HostOf[source.page] \in Hosts
  BY <1>2, SourceAssumption DEF RunTyped, Hosts, Range
<1> QED
  BY <1>1, <1>2

(* NextPart changes the parts and the room of the site only.                 *)
LEMMA NextPartIs ==
  ASSUME IsRun(source)
  PROVE  LET r == NextPart(source) IN
         /\ IsRun(r) /\ r.parts = Tail(source.parts)
         /\ r.pc = source.pc /\ r.kind = source.kind /\ r.queue = source.queue
         /\ r.inserted = source.inserted /\ r.calls = source.calls /\ r.page = source.page
<1> DEFINE rest == Tail(source.parts)
           fresh == rest # <<>> /\ Head(rest).site # Head(source.parts).site
<1>1. PICK h, c : NextPart(source) = [source EXCEPT !.parts = rest, !.here = h, !.cap = c]
  BY DEF NextPart
<1> QED
  BY <1>1 DEF IsRun

(* robots.txt: an answer that allows is never revised.                       *)
LEMMA PermitKeeps ==
  ASSUME RunTyped, NEW h \in Hosts, NEW a, Permit(h, a)
  PROVE  /\ robots' \in [Hosts -> {"unknown", "open", "shut", "failed"}] /\ robots'[h] = a
         /\ \A g \in Hosts : robots[g] = "open" => robots'[g] = "open"
BY DEF Permit, RunTyped

\* What a step that touches neither the listing nor the entries leaves alone.
Carries == 
  /\ IsRun(source') /\ source'.kind = source.kind /\ source'.parts = source.parts
  /\ source'.queue = source.queue /\ source'.calls = source.calls /\ source'.page = source.page
  /\ source.pc \in {"try", "fetch", "put"} /\ source'.pc \in {"try", "fetch", "put", "done", "raised"}
  /\ UNCHANGED <<tried, listed, runs>>

(* Such a step leaves what was listed and tried of each feed as it is,       *)
LEMMA FeedsCarried == RunFeeds /\ Carries => RunFeeds'
BY DEF RunFeeds, Carries

(* keeps the types when the store and the robots cache keep theirs,          *)
LEMMA TypeCarried ==
  ASSUME RunTyped, Carries, source'.pc \in {"fetch", "put"} => source.pc \in {"fetch", "put"},
         articles' \subseteq PageUrls,
         robots' \in [Hosts -> {"unknown", "open", "shut", "failed"}]
  PROVE  RunTyped'
BY DEF RunTyped, Carries

(* and the count of what was stored when it stores nothing.                  *)
LEMMA StoredCarried ==
  ASSUME RunStored, Carries, source'.pc \in {"fetch", "put"} => source.pc \in {"fetch", "put"},
         source'.inserted = source.inserted, UNCHANGED <<put, articles>>
  PROVE  RunStored'
BY DEF RunStored, Carries, Bound

(* A page is refused, spared or fetched.                                     *)
LEMMA PageInv ==
  ASSUME RunInv,
         PageRefused \/ PageSpared \/ ItemPage \/ \E o \in {"text", "none", "raises"} : FetchPage(o)
  PROVE  RunInv'
<1> DEFINE h == HostOf[source.page]
<1>1. /\ source.pc = "fetch" /\ UNCHANGED <<articles, tried, listed, put, runs>>
      /\ \E w \in {"try", "put", "raised"} : source' = [source EXCEPT !.pc = w]
  BY DEF PageRefused, PageSpared, ItemPage, FetchPage
<1>2. Carries /\ source'.inserted = source.inserted
  BY <1>1 DEF Carries, RunInv, RunTyped, IsRun
<1>3. h \in Hosts
  BY <1>1, HostsKnown DEF RunInv
<1>4. /\ robots' \in [Hosts -> {"unknown", "open", "shut", "failed"}]
      /\ RunAllowed'
  <2>1. CASE PageRefused
    <3>1. PICK a \in {"shut", "failed"} : Permit(h, a)
      BY <2>1 DEF PageRefused
    <3> QED
      BY <1>3, <2>1, <3>1, PermitKeeps DEF RunInv, RunAllowed, PagesAllowed, PageRefused
  <2>2. CASE PageSpared
    BY <2>2 DEF RunInv, RunTyped, RunAllowed, PagesAllowed, PageSpared
  <2>3. ASSUME Permit(h, "open"), fetched' = fetched \cup {h} 
        PROVE  /\ robots' \in [Hosts -> {"unknown", "open", "shut", "failed"}]
               /\ RunAllowed'
    BY <1>3, <2>3, PermitKeeps DEF RunInv, RunAllowed, PagesAllowed
  <2> QED
    BY <2>1, <2>2, <2>3 DEF ItemPage, FetchPage
<1>5. RunTyped'
  BY <1>1, <1>2, <1>4, TypeCarried DEF RunInv, RunTyped
<1>6. RunStored'
  BY <1>1, <1>2, StoredCarried DEF RunInv
<1> QED
  BY <1>2, <1>4, <1>5, <1>6, FeedsCarried DEF RunInv

(* The insert counts exactly what it stored.                                 *)
LEMMA PutInv ==
  ASSUME RunInv, PutPage
  PROVE  RunInv'
<1> DEFINE p == source.page  i == source.inserted
           new == IF p \in articles THEN 0 ELSE 1
<1>1. /\ source.pc = "put" /\ UNCHANGED <<robots, tried, listed, fetched, runs>>
      /\ source' = [source EXCEPT !.pc = "try", !.inserted = @ + new, !.here = @ + new]
      /\ put' = put \cup ({p} \ articles) /\ articles' = articles \cup {p}
  BY DEF PutPage
<1>2. p \in PageUrls /\ i < Bound /\ i = Cardinality(put) /\ IsFiniteSet(put) /\ i \in Nat /\ Bound \in Nat
  BY <1>1, FS_CardinalityType, SourceAssumption DEF RunInv, RunTyped, RunStored, Bound
<1>3. Carries /\ source'.inserted = i + new /\ source'.pc = "try" /\ Bound' = Bound
  BY <1>1 DEF Carries, RunInv, RunTyped, IsRun, Bound
<1>4. RunTyped'
  BY <1>1, <1>2, <1>3, TypeCarried DEF RunInv, RunTyped
<1>5. IsFiniteSet(put') /\ put' \subseteq articles' /\ i + new = Cardinality(put')
  <2>1. CASE p \in articles
    <3>1. put' = put /\ articles \subseteq articles' /\ new = 0
      BY <1>1, <2>1
    <3>2. put \subseteq articles'
      BY <3>1 DEF RunInv, RunStored
    <3> HIDE DEF new
    <3> QED
      BY <1>2, <3>1, <3>2
  <2>2. CASE p \notin articles
    <3>1. put' = put \cup {p} /\ p \notin put /\ new = 1
      BY <1>1, <2>2 DEF RunInv, RunStored
    <3>2. put' \subseteq articles'
      BY <1>1 DEF RunInv, RunStored
    <3>3. IsFiniteSet(put \cup {p}) /\ Cardinality(put \cup {p}) = i + 1
      BY <1>2, <3>1, FS_AddElement
    <3> HIDE DEF new
    <3> QED
      BY <3>1, <3>2, <3>3
  <2> QED
    BY <2>1, <2>2
<1>6. i + new <= Bound
  BY <1>2
<1> HIDE DEF new
<1>7. RunStored'
  BY <1>3, <1>5, <1>6 DEF RunInv, RunStored, Carries
<1>8. RunAllowed'
  BY <1>1 DEF RunInv, RunAllowed, PagesAllowed
<1> QED
  BY <1>3, <1>4, <1>7, <1>8, FeedsCarried DEF RunInv

(* Another process stores a page of its own.                                 *)
LEMMA OtherInv ==
  ASSUME RunInv, NEW p \in PageUrls, OtherStores(p)
  PROVE  RunInv'
BY DEF RunInv, RunTyped, RunStored, RunAllowed, PagesAllowed, RunFeeds, OtherStores, Bound, PartNow

(* An entry moves from the queue to the tried ones.                          *)
LEMMA MoveEntry ==
  ASSUME NEW T, NEW s \in Seq(T), NEW t \in Seq(T), t # <<>>
  PROVE  /\ Head(t) \in T /\ Tail(t) \in Seq(T) /\ Append(s, Head(t)) \in Seq(T)
         /\ Append(s, Head(t)) \o Tail(t) = s \o t
<1>1. /\ Head(t) \in T /\ Tail(t) \in Seq(T) /\ Append(s, Head(t)) \in Seq(T)
  OBVIOUS
<1>2. Append(s, Head(t)) \o Tail(t) = s \o t
  OBVIOUS
<1> QED
  BY <1>1, <1>2

(* An entry is taken up: what was tried and what is left stay one sequence.  *)
LEMMA TakeInv ==
  ASSUME RunInv, NEW usable \in BOOLEAN, Take(usable)
  PROVE  RunInv'
<1> DEFINE e == Head(source.queue)
<1>1. /\ source.pc = "try" /\ source.queue # <<>> /\ HasRoom(source)
      /\ tried' = Append(tried, e) /\ UNCHANGED <<robots, articles, listed, fetched, put, runs>>
      /\ \E w \in {"try", "fetch"} : \E x :
           /\ source' = [source EXCEPT !.queue = Tail(@), !.seen = @ \cup {e[2]}, !.page = x, !.pc = w]
           /\ w = "fetch" => x = e[2]
  BY DEF Take
<1>2. /\ IsRun(source') /\ source'.kind = source.kind /\ source'.parts = source.parts
      /\ source'.queue = Tail(source.queue) /\ source'.calls = source.calls
      /\ source'.inserted = source.inserted
      /\ source'.pc \in {"try", "fetch"} /\ (source'.pc = "fetch" => source'.page = e[2])
  BY <1>1 DEF RunInv, RunTyped, IsRun
<1>3. /\ e \in Int \X PageUrls /\ Tail(source.queue) \in Seq(Int \X PageUrls)
      /\ tried' \in Seq(Int \X PageUrls) /\ tried' \o source'.queue = tried \o source.queue
  <2> DEFINE q == source.queue
  <2>1. q \in Seq(Int \X PageUrls) /\ tried \in Seq(Int \X PageUrls) /\ q # <<>>
    BY <1>1 DEF RunInv, RunTyped
  <2>2. /\ Head(q) \in Int \X PageUrls /\ Tail(q) \in Seq(Int \X PageUrls)
        /\ Append(tried, Head(q)) \in Seq(Int \X PageUrls)
        /\ Append(tried, Head(q)) \o Tail(q) = tried \o q
    BY <2>1, MoveEntry
  <2> QED
    BY <1>1, <1>2, <2>2
<1>9. e[2] \in PageUrls
  BY <1>3
<1> HIDE DEF e
<1>4. RunTyped'
  BY <1>1, <1>2, <1>3, <1>9 DEF RunInv, RunTyped
<1>5. Bound' = Bound /\ source.inserted < Bound
  BY <1>1, <1>2 DEF HasRoom, Bound
<1>6. RunStored'
  BY <1>1, <1>2, <1>5 DEF RunInv, RunStored
<1>7. RunAllowed'
  BY <1>1 DEF RunInv, RunAllowed, PagesAllowed
<1>8. RunFeeds'
  BY <1>1, <1>2, <1>3 DEF RunInv, RunFeeds
<1> QED
  BY <1>4, <1>6, <1>7, <1>8 DEF RunInv

(* The entries of a listing are of its part, and behind the others.          *)
LEMMA EntriesAdded ==
  ASSUME NEW q \in Seq(Int \X PageUrls), NEW links \in Seq(PageUrls), NEW p \in Int
  PROVE  /\ q \o Entries(p, links) \in Seq(Int \X PageUrls)
         /\ EntriesOf(q, p) = 0 => EntriesOf(q \o Entries(p, links), p) = Len(links)
         /\ \A f : f # p => EntriesOf(q \o Entries(p, links), f) = EntriesOf(q, f)
<1> DEFINE E == Entries(p, links)  m == Len(q)  n == Len(links)  s == q \o E
<1>1. /\ E \in Seq(Int \X PageUrls) /\ Len(E) = n /\ \A j \in 1..n : E[j][1] = p
      /\ m \in Nat /\ n \in Nat
  BY DEF Entries
<1> HIDE DEF E
<1>2. /\ s \in Seq(Int \X PageUrls) /\ DOMAIN s = 1..(m + n) /\ DOMAIN q = 1..m
      /\ \A i \in 1..m : s[i] = q[i]
      /\ \A i \in (m + 1)..(m + n) : s[i] = E[i - m]
  <2>1. q \in Seq(Int \X PageUrls)
    OBVIOUS
  <2>2. s \in Seq(Int \X PageUrls) /\ Len(s) = m + n
    BY <1>1, <2>1
  <2>3. DOMAIN s = 1..(m + n) /\ DOMAIN q = 1..m
    BY <2>1, <2>2
  <2>4. \A i \in 1..(m + n) : s[i] = IF i <= m THEN q[i] ELSE E[i - m]
    BY <1>1, <2>1
  <2>5. /\ \A i \in 1..m : i \in 1..(m + n) /\ i <= m
        /\ \A i \in (m + 1)..(m + n) : i \in 1..(m + n) /\ ~(i <= m)
    BY <1>1
  <2> HIDE DEF s, m, n
  <2> QED
    BY <2>2, <2>3, <2>4, <2>5
<1> HIDE DEF s
<1>6. \A i \in (m + 1)..(m + n) : s[i][1] = p
  <2> SUFFICES ASSUME NEW i \in (m + 1)..(m + n) PROVE s[i][1] = p
    OBVIOUS
  <2>1. i - m \in 1..n
    BY <1>1
  <2> QED
    BY <1>1, <1>2, <2>1
<1>3. ASSUME NEW f, f # p PROVE Places(s, f) = Places(q, f)
  <2>1. \A i \in 1..m : i \in 1..(m + n)
    BY <1>1
  <2>2. \A i \in 1..(m + n) : i \in 1..m \/ i \in (m + 1)..(m + n)
    BY <1>1
  <2> HIDE DEF m, n
  <2> QED
    BY <1>2, <1>3, <1>6, <2>1, <2>2 DEF Places
<1>4. ASSUME EntriesOf(q, p) = 0 PROVE EntriesOf(s, p) = n
  <2>1. IsFiniteSet(1..m) /\ Places(q, p) \in SUBSET (1..m)
    BY <1>1, <1>2, FS_Interval DEF Places
  <2>2. Places(q, p) = {}
    <3>1. IsFiniteSet(Places(q, p))
      BY <2>1, FS_Subset
    <3> QED
      BY <1>4, <3>1, FS_EmptySet DEF EntriesOf, Places
  <2>3. \A i \in 1..m : s[i][1] # p
    BY <1>2, <2>2 DEF Places
  <2>4. /\ \A i \in 1..(m + n) : i \in 1..m \/ i \in (m + 1)..(m + n)
        /\ \A i \in (m + 1)..(m + n) : i \in 1..(m + n)
    BY <1>1
  <2>5. Places(s, p) = (m + 1)..(m + n)
    BY <1>2, <1>6, <2>3, <2>4 DEF Places
  <2> HIDE DEF m, n
  <2>6. Cardinality((m + 1)..(m + n)) = n
    BY <1>1, FS_Interval
  <2> QED
    BY <2>5, <2>6 DEF EntriesOf, Places
<1> QED
  BY <1>2, <1>3, <1>4 DEF s, E, EntriesOf, Places

(* No entry is in an empty sequence.                                         *)
LEMMA NoEntries == Level(<<>>) /\ \A f : EntriesOf(<<>>, f) = 0
<1>1. \A f : Places(<<>>, f) = {}
  BY DEF Places
<1> QED
  BY <1>1, FS_EmptySet DEF Level, EntriesOf, Places

(* The number of the head part is that of a part, the next one is greater.   *)
LEMMA PartCounts ==
  ASSUME RunTyped, source.kind = "feeds", source.parts # <<>>,
         Len(source.parts) <= Len(Parts("feeds"))
  PROVE  /\ Tail(source.parts) \in Seq(Offered) /\ Len(Tail(source.parts)) = Len(source.parts) - 1
         /\ PartNow \in DOMAIN Parts("feeds") /\ PartNow \in Nat
         /\ \A f \in DOMAIN Parts("feeds") :
              f \in Nat /\ (f >= Len(Parts("feeds")) - Len(Tail(source.parts)) + 1 <=> f > PartNow)
<1> DEFINE P == Parts("feeds")  q == source.parts
<1>1. P \in Seq(Offered) /\ q \in Seq(Offered)
  BY PartsListed DEF RunTyped, Kinds
<1>2. PartNow = Len(P) - Len(q) + 1
  BY DEF PartNow
<1> HIDE DEF P
<1>3. /\ Tail(q) \in Seq(Offered) /\ Len(Tail(q)) = Len(q) - 1 /\ Len(q) \in Nat \ {0}
      /\ DOMAIN P = 1..Len(P) /\ Len(P) \in Nat
  BY <1>1
<1>4. PartNow \in 1..Len(P)
  BY <1>2, <1>3 DEF P
<1>5. \A f \in 1..Len(P) : f \in Nat /\ (f >= Len(P) - Len(Tail(q)) + 1 <=> f > PartNow)
  <2> DEFINE a == Len(P)  b == Len(q)  c == Len(Tail(q))  d == PartNow
  <2>1. a \in Int /\ b \in Int /\ c = b - 1 /\ d = a - b + 1
    BY <1>2, <1>3
  <2> HIDE DEF a, b, c, d
  <2>2. \A f \in 1..a : f \in Nat /\ (f >= a - c + 1 <=> f > d)
    BY <2>1
  <2> QED
    BY <2>2 DEF a, c, d
<1>6. PartNow \in DOMAIN P /\ PartNow \in Nat
  BY <1>3, <1>4
<1> QED
  BY <1>3, <1>5, <1>6 DEF P

(* Listing a part, or being refused it.                                      *)
\* What a step does that takes the head part away and queues its entries, if any.
LEMMA FeedsListed ==
  ASSUME RunTyped, RunFeeds, source.pc = "list", source.parts # <<>>,
         source'.pc = "list", source'.kind = source.kind,
         source.kind = "feeds" => source'.parts = Tail(source.parts), UNCHANGED tried,
         \/ source'.queue = source.queue /\ UNCHANGED listed
         \/ \E links \in Links :
              /\ source'.queue = source.queue \o Entries(PartNow, links)
              /\ listed' = [listed EXCEPT ![PartNow] = Len(links)]
  PROVE  RunFeeds'
<1> SUFFICES ASSUME source.kind = "feeds" PROVE RunFeeds'
  BY DEF RunFeeds
<1> DEFINE D == DOMAIN Parts("feeds")
<1>1. /\ listed \in [D -> Nat] /\ tried = <<>> /\ Len(source.parts) <= Len(Parts("feeds"))
      /\ \A f \in D : listed[f] = EntriesOf(source.queue, f) /\ (f >= PartNow => listed[f] = 0)
  BY DEF RunFeeds
<1>2. /\ Len(Tail(source.parts)) = Len(source.parts) - 1
      /\ PartNow \in D /\ PartNow \in Nat
      /\ \A f \in D : f \in Nat /\ (f >= PartNow' <=> f > PartNow)
  BY <1>1, PartCounts DEF PartNow
<1>3. Len(source'.parts) <= Len(Parts("feeds"))
  <2>1. Len(source.parts) \in Nat /\ Len(Parts("feeds")) \in Nat
    BY PartsListed DEF RunTyped, Kinds
  <2>2. Len(source'.parts) = Len(source.parts) - 1
    BY <1>2
  <2> QED
    BY <1>1, <2>1, <2>2
<1>4. /\ listed' \in [D -> Nat]
      /\ \A f \in D : listed'[f] = EntriesOf(source'.queue, f) /\ (f >= PartNow' => listed'[f] = 0)
  <2>1. CASE source'.queue = source.queue /\ UNCHANGED listed
    BY <1>1, <1>2, <2>1
  <2>2. ASSUME NEW links \in Links,
               source'.queue = source.queue \o Entries(PartNow, links),
               listed' = [listed EXCEPT ![PartNow] = Len(links)]
        PROVE  /\ listed' \in [D -> Nat]
               /\ \A f \in D : listed'[f] = EntriesOf(source'.queue, f) /\ (f >= PartNow' => listed'[f] = 0)
    <3>1. links \in Seq(PageUrls) /\ Len(links) \in Nat
      BY SourceAssumption
    <3>2. source.queue \in Seq(Int \X PageUrls)
      BY DEF RunTyped
    <3>3. listed[PartNow] = 0 /\ EntriesOf(source.queue, PartNow) = 0
      BY <1>1, <1>2
    <3>4. /\ EntriesOf(source'.queue, PartNow) = Len(links)
          /\ \A f : f # PartNow => EntriesOf(source'.queue, f) = EntriesOf(source.queue, f)
      <4> DEFINE q == source.queue  p == PartNow
      <4>1. p \in Int /\ q \in Seq(Int \X PageUrls) /\ source'.queue = q \o Entries(p, links)
            /\ EntriesOf(q, p) = 0
        BY <1>2, <2>2, <3>2, <3>3
      <4> HIDE DEF q, p
      <4>2. /\ EntriesOf(q \o Entries(p, links), p) = Len(links)
            /\ \A f : f # p => EntriesOf(q \o Entries(p, links), f) = EntriesOf(q, f)
        BY <3>1, <4>1, EntriesAdded
      <4> QED
        BY <4>1, <4>2 DEF q, p
    <3>5. \A f \in D : f # PartNow => listed'[f] = listed[f]
      BY <1>1, <2>2
    <3>6. listed'[PartNow] = Len(links) /\ listed' \in [D -> Nat]
      BY <1>1, <1>2, <2>2, <3>1
    <3>7. \A f \in D : f > PartNow => f # PartNow /\ f >= PartNow
      BY <1>2
    <3> HIDE DEF D
    <3> QED
      BY <1>1, <1>2, <3>4, <3>5, <3>6, <3>7
  <2> QED
    BY <2>1, <2>2
<1> QED
  BY <1>1, <1>3, <1>4 DEF RunFeeds

\* A step that lists, or passes over, the head part of a run.
ListStep ==
  /\ IsRun(source') /\ source'.kind = source.kind /\ source'.inserted = source.inserted
  /\ source'.page = source.page /\ UNCHANGED <<put, articles, tried, runs>>

(* It stores nothing.                                                        *)
LEMMA StoredListed ==
  ASSUME RunInv, ListStep, source'.pc \notin {"fetch", "put"},
         source.kind \in Apis => source'.calls <= Calls
  PROVE  RunStored'
BY DEF RunInv, RunStored, ListStep, Bound

(* A listing or a feed is refused, fails or gives its entries.               *)
LEMMA ListInv ==
  ASSUME RunInv, ListRefused \/ (\E raises \in BOOLEAN : ListFails(raises)) \/ \E links \in Links : ListGives(links)
  PROVE  RunInv'
<1>1. /\ source.pc = "list" /\ source.parts # <<>> /\ source.kind \notin Apis
      /\ UNCHANGED <<articles, tried, put, runs>>
  BY DEF ListRefused, ListFails, ListGives, ToList
<1>2. ListHost \in Hosts
  BY <1>1, HostsKnown DEF RunInv
<1>3. robots' \in [Hosts -> {"unknown", "open", "shut", "failed"}] /\ RunAllowed'
  <2>1. PICK a \in {"open", "shut", "failed"} :
          Permit(ListHost, a) /\ fetched' \subseteq fetched \cup IF a = "open" THEN {ListHost} ELSE {}
    BY DEF ListRefused, ListFails, ListGives
  <2> QED
    BY <1>2, <2>1, PermitKeeps DEF RunInv, RunAllowed, PagesAllowed
<1>4. \/ source' = NextPart(source) /\ UNCHANGED listed
      \/ source' = [source EXCEPT !.pc = "raised"] /\ UNCHANGED listed /\ source.kind \in Papers
      \/ \E links \in Links :
           /\ source' = [source EXCEPT !.queue = @ \o Entries(PartNow, links),
                   !.parts = IF Gathers(source.kind) THEN Tail(@) ELSE @,
                   !.pc = IF Gathers(source.kind) THEN "list" ELSE "try"]
           /\ listed' = [listed EXCEPT ![PartNow] = Len(links)]
  BY DEF ListRefused, ListFails, ListGives
<1>5. IsRun(source) /\ source.parts \in Seq(Offered) /\ source.queue \in Seq(Int \X PageUrls)
  BY DEF RunInv, RunTyped
<1>6. CASE source' = NextPart(source) /\ UNCHANGED listed
  <2>1. /\ IsRun(source') /\ source'.parts = Tail(source.parts)
        /\ source'.pc = source.pc /\ source'.kind = source.kind /\ source'.queue = source.queue
        /\ source'.inserted = source.inserted /\ source'.calls = source.calls
        /\ source'.page = source.page
    BY <1>5, <1>6, NextPartIs
  <2>2. Tail(source.parts) \in Seq(Offered)
    BY <1>1, <1>5
  <2>3. RunTyped'
    BY <1>1, <1>3, <2>1, <2>2 DEF RunInv, RunTyped
  <2>4. RunStored'
    BY <1>1, <2>1, StoredListed DEF ListStep
  <2>5. RunFeeds'
    BY <1>1, <1>6, <2>1, FeedsListed DEF RunInv
  <2> QED
    BY <1>3, <2>3, <2>4, <2>5 DEF RunInv
<1>7. CASE source' = [source EXCEPT !.pc = "raised"] /\ UNCHANGED listed /\ source.kind \in Papers
  <2>1. /\ IsRun(source') /\ source'.parts = source.parts
        /\ source'.pc = "raised" /\ source'.kind = source.kind /\ source'.queue = source.queue
        /\ source'.inserted = source.inserted /\ source'.calls = source.calls
        /\ source'.page = source.page
    BY <1>5, <1>7 DEF IsRun
  <2>3. RunTyped'
    BY <1>1, <1>3, <2>1 DEF RunInv, RunTyped
  <2>4. RunStored'
    BY <1>1, <2>1, StoredListed DEF ListStep
  <2>5. RunFeeds'
    BY <1>7, <2>1 DEF RunFeeds, Papers
  <2> QED
    BY <1>3, <2>3, <2>4, <2>5 DEF RunInv
<1>8. ASSUME NEW links \in Links,
             source' = [source EXCEPT !.queue = @ \o Entries(PartNow, links),
                   !.parts = IF Gathers(source.kind) THEN Tail(@) ELSE @,
                   !.pc = IF Gathers(source.kind) THEN "list" ELSE "try"],
             listed' = [listed EXCEPT ![PartNow] = Len(links)]
      PROVE  RunInv'
  <2>1. /\ IsRun(source') /\ source'.kind = source.kind
        /\ source'.parts = (IF Gathers(source.kind) THEN Tail(source.parts) ELSE source.parts)
        /\ source'.pc = (IF Gathers(source.kind) THEN "list" ELSE "try")
        /\ source'.queue = source.queue \o Entries(PartNow, links)
        /\ source'.inserted = source.inserted /\ source'.calls = source.calls
        /\ source'.page = source.page
    BY <1>5, <1>8 DEF IsRun
  <2>2. source'.parts \in Seq(Offered)
    BY <1>1, <1>5, <2>1
  <2>6. source'.queue \in Seq(Int \X PageUrls)
    <3>1. links \in Seq(PageUrls)
      BY SourceAssumption
    <3>2. PartNow \in Int
      <4>1. Parts(source.kind) \in Seq(Offered)
        BY <1>1, PartsListed DEF RunInv, RunTyped
      <4>2. Len(Parts(source.kind)) \in Nat /\ Len(source.parts) \in Nat
        BY <1>5, <4>1
      <4> QED
        BY <4>2 DEF PartNow
    <3> QED
      BY <1>5, <2>1, <3>1, <3>2, EntriesAdded
  <2>3. RunTyped'
    BY <1>1, <1>3, <2>1, <2>2, <2>6 DEF RunInv, RunTyped
  <2>4. RunStored'
    BY <1>1, <2>1, StoredListed DEF ListStep
  <2>5. RunFeeds'
    <3>1. CASE source.kind # "feeds"
      BY <2>1, <3>1 DEF RunFeeds
    <3>2. CASE source.kind = "feeds"
      BY <1>1, <1>8, <2>1, <3>2, FeedsListed DEF RunInv, Gathers
    <3> QED
      BY <3>1, <3>2
  <2> QED
    BY <1>3, <2>3, <2>4, <2>5 DEF RunInv
<1> QED
  BY <1>4, <1>6, <1>7, <1>8

(* A request of an API.                                                      *)
LEMMA RequestInv ==
  ASSUME RunInv, RequestFails \/ \E links \in Links : RequestGives(links)
  PROVE  RunInv'
<1>1. /\ source.pc = "list" /\ source.parts # <<>> /\ source.kind \in Apis /\ source.calls < Calls
      /\ UNCHANGED <<robots, articles, fetched, tried, put, runs>>
  BY DEF RequestFails, RequestGives, ToList, Gathers
<1>2. IsRun(source) /\ source.parts \in Seq(Offered) /\ source.queue \in Seq(Int \X PageUrls)
      /\ source.calls \in Nat /\ source.kind \in Kinds
  BY <1>1 DEF RunInv, RunTyped
<1>3. PICK q : /\ source' = [source EXCEPT !.parts = Tail(@), !.calls = @ + 1, !.queue = q]
               /\ q \in Seq(Int \X PageUrls)
  <2>1. CASE RequestFails
    <3>1. source' = [source EXCEPT !.parts = Tail(@), !.calls = @ + 1, !.queue = source.queue]
      BY <1>2, <2>1 DEF RequestFails, IsRun
    <3> QED
      BY <1>2, <3>1
  <2>2. ASSUME NEW links \in Links, RequestGives(links)
        PROVE  \E q : /\ source' = [source EXCEPT !.parts = Tail(@), !.calls = @ + 1, !.queue = q]
                      /\ q \in Seq(Int \X PageUrls)
    <3>1. links \in Seq(PageUrls)
      BY SourceAssumption
    <3>2. PartNow \in Int
      <4>1. Parts(source.kind) \in Seq(Offered)
        BY <1>2, PartsListed
      <4>2. Len(Parts(source.kind)) \in Nat /\ Len(source.parts) \in Nat
        BY <1>2, <4>1
      <4> QED
        BY <4>2 DEF PartNow
    <3>3. source.queue \o Entries(PartNow, links) \in Seq(Int \X PageUrls)
      BY <1>2, <3>1, <3>2, EntriesAdded
    <3> QED
      BY <2>2, <3>3 DEF RequestGives
  <2> QED
    BY <1>1, <2>1, <2>2
<1>4. /\ IsRun(source') /\ source'.kind = source.kind /\ source'.inserted = source.inserted
      /\ source'.page = source.page /\ source'.pc = "list" /\ source'.parts = Tail(source.parts)
      /\ source'.queue = q /\ source'.calls = source.calls + 1
  BY <1>1, <1>2, <1>3 DEF IsRun
<1>5. source'.parts \in Seq(Offered) /\ source'.calls \in Nat /\ source'.calls <= Calls
  BY <1>1, <1>2, <1>4, SourceAssumption
<1>6. RunTyped'
  BY <1>1, <1>3, <1>4, <1>5 DEF RunInv, RunTyped
<1>7. RunStored'
  BY <1>1, <1>4, <1>5, StoredListed DEF ListStep
<1>8. RunAllowed'
  BY <1>1 DEF RunInv, RunAllowed, PagesAllowed
<1>9. RunFeeds'
  BY <1>1, <1>4 DEF RunFeeds, Apis
<1> QED
  BY <1>6, <1>7, <1>8, <1>9 DEF RunInv

(* What is gathered becomes the queue, in turn or without repetition.        *)
LEMMA QueuedIs ==
  ASSUME RunTyped
  PROVE  /\ Queued(source) \in Seq(Int \X PageUrls)
         /\ source.kind = "feeds" =>
              /\ Level(Queued(source))
              /\ \A f : EntriesOf(Queued(source), f) = EntriesOf(source.queue, f)
<1> DEFINE q == source.queue
<1>1. q \in Seq(Int \X PageUrls)
  BY DEF RunTyped
<1>2. Distinct(q) \in Seq(Int \X PageUrls)
  <2> DEFINE S == {j \in DOMAIN q : \A i \in 1..j - 1 : q[i][2] # q[j][2]}
  <2>1. S \in SUBSET (DOMAIN q)
    OBVIOUS
  <2>2. Picked(q, S) \in Seq(Int \X PageUrls)
    BY <1>1, <2>1, PickedIs
  <2> QED
    BY <2>2 DEF Distinct
<1>3. /\ Interleaved(q) \in Seq(Int \X PageUrls) /\ Level(Interleaved(q))
      /\ \A f : EntriesOf(Interleaved(q), f) = EntriesOf(q, f)
  BY <1>1, InterleavedIs
<1>4. CASE source.kind = "feeds"
  BY <1>3, <1>4 DEF Queued, Apis
<1>5. CASE source.kind # "feeds"
  BY <1>1, <1>2, <1>5 DEF Queued
<1> QED
  BY <1>4, <1>5

(* Nothing is left to list: the queue is arranged, or the run goes on or ends.*)
LEMMA ListedInv ==
  ASSUME RunInv, ListedAll
  PROVE  RunInv'
<1>1. /\ source.pc = "list" /\ UNCHANGED <<robots, articles, tried, listed, fetched, put, runs>>
      /\ ~ToList
  BY DEF ListedAll
<1>2. /\ IsRun(source) /\ source.parts \in Seq(Offered) /\ source.queue \in Seq(Int \X PageUrls)
      /\ source.kind \in Kinds
  BY <1>1 DEF RunInv, RunTyped
<1>3. RunAllowed'
  BY <1>1 DEF RunInv, RunAllowed, PagesAllowed
<1>4. CASE Gathers(source.kind)
  <2>1. source' = [source EXCEPT !.pc = "try", !.queue = Queued(source)]
    BY <1>4 DEF ListedAll, Gathers, Apis
  <2>2. /\ IsRun(source') /\ source'.kind = source.kind /\ source'.inserted = source.inserted
        /\ source'.page = source.page /\ source'.pc = "try" /\ source'.parts = source.parts
        /\ source'.queue = Queued(source) /\ source'.calls = source.calls
    BY <1>2, <2>1 DEF IsRun
  <2>3. RunTyped'
    BY <1>1, <1>4, <2>2, QueuedIs DEF RunInv, RunTyped
  <2>4. RunStored'
    BY <1>1, <2>2, StoredListed DEF ListStep, RunInv, RunStored
  <2>5. RunFeeds'
    <3> SUFFICES ASSUME source.kind = "feeds" PROVE RunFeeds'
      BY <2>2 DEF RunFeeds
    <3> DEFINE q == Queued(source)
    <3>1. /\ listed \in [DOMAIN Parts("feeds") -> Nat] /\ tried = <<>>
          /\ \A f \in DOMAIN Parts("feeds") : listed[f] = EntriesOf(source.queue, f)
      BY <1>1 DEF RunInv, RunFeeds
    <3>2. q \in Seq(Int \X PageUrls) /\ Level(q) /\ \A f : EntriesOf(q, f) = EntriesOf(source.queue, f)
      BY QueuedIs DEF RunInv
    <3> HIDE DEF q
    <3>3. <<>> \o q = q
      BY <3>2
    <3>4. tried' \o source'.queue = q
      BY <1>1, <2>2, <3>1, <3>3 DEF q
    <3> QED
      BY <1>1, <2>2, <3>1, <3>2, <3>4 DEF RunFeeds
  <2> QED
    BY <1>3, <2>3, <2>4, <2>5 DEF RunInv
<1>5. CASE ~Gathers(source.kind)
  <2>1. PICK r : /\ source' = r /\ IsRun(r) /\ r.kind = source.kind /\ r.inserted = source.inserted
                 /\ r.page = source.page /\ r.pc \in {"list", "done"} /\ r.parts \in Seq(Offered)
                 /\ r.queue = source.queue /\ r.calls = source.calls
    <3>1. CASE source' = NextPart(source) /\ source.parts # <<>>
      <4>1. Tail(source.parts) \in Seq(Offered)
        BY <1>2, <3>1
      <4> QED
        BY <1>1, <1>2, <3>1, <4>1, NextPartIs
    <3>2. CASE source' = [source EXCEPT !.pc = "done"]
      BY <1>2, <3>2 DEF IsRun
    <3> QED
      BY <1>5, <3>1, <3>2 DEF ListedAll
  <2>2. RunTyped'
    BY <1>1, <1>2, <2>1 DEF RunInv, RunTyped
  <2>3. RunStored'
    BY <1>1, <2>1, StoredListed DEF ListStep, RunInv, RunStored
  <2>4. RunFeeds'
    BY <1>5, <2>1 DEF RunFeeds, Gathers
  <2> QED
    BY <1>3, <2>2, <2>3, <2>4 DEF RunInv
<1> QED
  BY <1>4, <1>5

(* The entries of a listing are through, or the room is used up.             *)
LEMMA ThroughInv ==
  ASSUME RunInv, Through
  PROVE  RunInv'
<1>1. /\ source.pc = "try" /\ UNCHANGED <<robots, articles, tried, listed, fetched, put, runs>>
  BY DEF Through
<1>2. /\ IsRun(source) /\ source.parts \in Seq(Offered) /\ source.queue \in Seq(Int \X PageUrls)
  BY DEF RunInv, RunTyped
<1>3. RunAllowed'
  BY <1>1 DEF RunInv, RunAllowed, PagesAllowed
<1>4. CASE Gathers(source.kind)
  <2>1. source' = [source EXCEPT !.pc = "done"]
    BY <1>4 DEF Through
  <2>2. Carries /\ source'.inserted = source.inserted /\ source'.pc = "done"
    BY <1>1, <1>2, <2>1 DEF Carries, IsRun
  <2>3. RunTyped'
    BY <1>1, <2>2, TypeCarried DEF RunInv, RunTyped
  <2>4. RunStored'
    BY <1>1, <2>2, StoredCarried DEF RunInv
  <2> QED
    BY <1>3, <2>2, <2>3, <2>4, FeedsCarried DEF RunInv
<1>5. CASE ~Gathers(source.kind)
  <2>1. source' = [NextPart(source) EXCEPT !.pc = "list", !.queue = <<>>]
    BY <1>5 DEF Through
  <2>2. /\ IsRun(source') /\ source'.parts = Tail(source.parts)
        /\ source'.pc = "list" /\ source'.kind = source.kind /\ source'.queue = <<>>
        /\ source'.inserted = source.inserted /\ source'.calls = source.calls
        /\ source'.page = source.page
    <3> DEFINE r == NextPart(source)
    <3>1. /\ IsRun(r) /\ r.parts = Tail(source.parts)
          /\ r.kind = source.kind /\ r.inserted = source.inserted
          /\ r.calls = source.calls /\ r.page = source.page
      BY <1>2, NextPartIs
    <3> HIDE DEF r
    <3> QED
      BY <2>1, <3>1 DEF IsRun, r
  <2>3. Tail(source.parts) \in Seq(Offered) /\ source.kind \in Kinds
    BY <1>1, <1>2, <1>5 DEF RunInv, RunTyped
  <2>4. RunTyped'
    BY <1>1, <2>2, <2>3 DEF RunInv, RunTyped
  <2>5. RunStored'
    BY <1>1, <2>2, StoredListed DEF ListStep, RunInv, RunStored
  <2>6. RunFeeds'
    BY <1>5, <2>2 DEF RunFeeds, Gathers
  <2> QED
    BY <1>3, <2>4, <2>5, <2>6 DEF RunInv
<1> QED
  BY <1>4, <1>5

(* A run starts with nothing listed, tried or stored.                        *)
LEMMA StartInv ==
  ASSUME RunInv, NEW k \in Kinds, NEW ready \in BOOLEAN, StartRun(k, ready)
  PROVE  RunInv'
<1>1. /\ UNCHANGED <<robots, articles>> /\ tried' = <<>> /\ fetched' = {} /\ put' = {}
      /\ listed' = [i \in DOMAIN Parts(k) |-> 0]
      /\ source' = [Resting EXCEPT !.pc = IF ready THEN "list" ELSE "done", !.kind = k,
                      !.parts = Parts(k), !.cap = Least(PerSite, Least(Limit, MaxTotal))]
  BY DEF StartRun
<1>2. /\ IsRun(source') /\ source'.pc \in {"list", "done"} /\ source'.kind = k
      /\ source'.parts = Parts(k) /\ source'.queue = <<>> /\ source'.inserted = 0
      /\ source'.calls = 0
  BY <1>1 DEF Resting, IsRun
<1>3. Parts(k) \in Seq(Offered)
  BY PartsListed
<1>4. RunTyped'
  <2>1. <<>> \in Seq(Int \X PageUrls) /\ 0 \in Nat
    OBVIOUS
  <2>2. /\ source'.parts \in Seq(Offered) /\ source'.queue \in Seq(Int \X PageUrls)
        /\ tried' \in Seq(Int \X PageUrls) /\ source'.calls \in Nat
    BY <1>1, <1>2, <1>3, <2>1
  <2> QED
    BY <1>1, <1>2, <2>2 DEF RunInv, RunTyped
<1>5. RunStored'
  <2>1. IsFiniteSet({}) /\ Cardinality({}) = 0
    BY FS_EmptySet
  <2>2. 0 <= Bound'
    BY SourceAssumption DEF Bound
  <2>3. 0 <= Calls
    BY SourceAssumption
  <2> QED
    BY <1>1, <1>2, <2>1, <2>2, <2>3 DEF RunStored
<1>6. RunAllowed'
  BY <1>1 DEF RunAllowed, PagesAllowed
<1>7. RunFeeds'
  <2> SUFFICES ASSUME k = "feeds" PROVE RunFeeds'
    BY <1>2 DEF RunFeeds
  <2>1. listed' \in [DOMAIN Parts("feeds") -> Nat] /\ \A f \in DOMAIN Parts("feeds") : listed'[f] = 0
    BY <1>1
  <2>2. Len(Parts("feeds")) \in Nat
    BY <1>3
  <2>3. <<>> \o <<>> = <<>>
    OBVIOUS
  <2> QED
    BY <1>1, <1>2, <2>1, <2>2, <2>3, NoEntries DEF RunFeeds
<1> QED
  BY <1>4, <1>5, <1>6, <1>7 DEF RunInv

(* The run invariant holds at first,                                         *)
LEMMA RunInitInv == SourceInit => RunInv
<1> SUFFICES ASSUME SourceInit PROVE RunInv
  OBVIOUS
<1>1. IsRun(source) /\ source.pc = "idle" /\ source.kind = "none" /\ source.parts = <<>>
      /\ source.queue = <<>> /\ source.inserted = 0 /\ source.calls = 0
  BY DEF SourceInit, Resting, IsRun
<1>2. RunTyped
  BY <1>1 DEF SourceInit, RunTyped
<1>3. RunStored
  BY <1>1, FS_EmptySet, SourceAssumption DEF SourceInit, RunStored, Bound, Apis
<1>4. RunAllowed /\ RunFeeds
  BY <1>1 DEF SourceInit, RunAllowed, PagesAllowed, RunFeeds
<1> QED
  BY <1>2, <1>3, <1>4 DEF RunInv

(* every step of the process keeps it,                                       *)
LEMMA RunNextInv == RunInv /\ [SourceNext]_sourceVars => RunInv'
<1> SUFFICES ASSUME RunInv, [SourceNext]_sourceVars PROVE RunInv'
  OBVIOUS
<1>1. CASE UNCHANGED sourceVars
  BY <1>1 DEF sourceVars, RunInv, RunTyped, RunStored, RunAllowed, PagesAllowed, RunFeeds, Bound, PartNow
<1>2. CASE ListingRun \/ ListFails(TRUE) \/ Take(FALSE)
  BY <1>2, ListInv, ListedInv, ThroughInv, TakeInv, PageInv, PutInv DEF ListingRun
<1>3. CASE ApiRun
  BY <1>3, RequestInv, ListedInv, ThroughInv, TakeInv, PageInv, PutInv DEF ApiRun
<1>4. ASSUME NEW k \in Kinds, NEW ready \in BOOLEAN, StartRun(k, ready) PROVE RunInv'
  BY <1>4, StartInv
<1>5. ASSUME NEW p \in PageUrls, OtherStores(p) PROVE RunInv'
  BY <1>5, OtherInv
<1> QED
  BY <1>1, <1>2, <1>3, <1>4, <1>5 DEF SourceNext, DawnRun, DunyaRun, SiteRun, SitesRun, FeedRun,
     RssRun, GnewsRun, NewsdataRun, CurrentsRun

(* and so it holds always.                                                   *)
LEMMA RunAlways == SourceSpec => []RunInv
  BY RunInitInv, RunNextInv, PTL DEF SourceSpec

(* Type correctness of a run.                                                *)
THEOREM SourceTypeCorrect == SourceSpec => []SourceTypeOK
<1>1. RunInv => SourceTypeOK
  <2>1. IsFiniteSet(put) => Cardinality(put) \in Nat
    BY FS_CardinalityType
  <2> QED
    BY <2>1 DEF RunInv, RunTyped, RunStored, SourceTypeOK
<1> QED
  BY RunAlways, <1>1, PTL

(* For any listings, feeds, topics, limits and answers of the sites: the run *)
(* of a source reports what it stored and keeps its limit while others store *)
(* pages, fetches only where robots.txt allows it, and takes the feeds of    *)
(* the rss run in turn.                                                      *)
THEOREM RunKeptAlways == SourceSpec => []RunKept
<1>1. RunInv => RunKept
  <2> SUFFICES ASSUME RunInv PROVE RunKept
    OBVIOUS
  <2>1. LimitKept /\ PagesAllowed
    BY DEF RunInv, RunStored, RunAllowed, LimitKept, Bound
  <2>2. FeedsInTurn
    <3> SUFFICES ASSUME source.kind = "feeds", NEW f \in DOMAIN Parts("feeds"), NEW g \in DOMAIN Parts("feeds")
                 PROVE  TriedOf(f) <= TriedOf(g) + 1 \/ TriedOf(g) = listed[g]
      BY DEF FeedsInTurn
    <3> DEFINE s == tried \o source.queue
    <3>1. tried \in Seq(Int \X PageUrls) /\ source.queue \in Seq(Int \X PageUrls)
      BY DEF RunInv, RunTyped
    <3>2. CASE source.pc = "list"
      <4>1. TriedOf(f) = 0 /\ TriedOf(g) = 0
        BY <3>2, NoEntries DEF RunInv, RunFeeds, TriedOf
      <4> QED
        BY <4>1
    <3>3. CASE source.pc # "list"
      <4>1. Level(s) /\ listed[g] = EntriesOf(s, g)
        BY <3>3 DEF RunInv, RunFeeds
      <4>2. Level(tried \o source.queue)
        BY <4>1 DEF s
      <4>3. \A x, y : \/ EntriesOf(tried, x) <= EntriesOf(tried, y) + 1
                      \/ EntriesOf(tried, y) = EntriesOf(tried \o source.queue, y)
        BY ONLY <3>1, <4>2, FrontLevel
      <4> QED
        BY <4>1, <4>3 DEF TriedOf, s
    <3> QED
      BY <3>2, <3>3
  <2> QED
    BY <2>1, <2>2 DEF RunKept
<1> QED
  BY RunAlways, <1>1, PTL

----------------------------------------------------------------------------
(* Each behaviour of the composition is one of every component.              *)
LEMMA ContentParts ==
  ContentSpec => /\ Spec /\ SourceSpec /\ TaxSpec
                 /\ CheckSpec
                 /\ ModSpec /\ FeedSpec
<1>1. ContentInit => Init /\ SourceInit /\ TaxInit /\ CheckInit /\ ModInit /\ FeedInit
  BY DEF ContentInit
<1>2. [ContentNext]_contentVars => [Next]_vars
  BY DEF ContentNext, contentVars
<1>3. [ContentNext]_contentVars => [SourceNext]_sourceVars
  BY DEF ContentNext, contentVars
<1>4. [ContentNext]_contentVars => [TaxNext]_taxVars
  BY DEF ContentNext, contentVars
<1>5. [ContentNext]_contentVars => [CheckNext]_checkVars
  BY DEF ContentNext, contentVars
<1>6. [ContentNext]_contentVars => [ModNext]_modVars
  BY DEF ContentNext, contentVars
<1>7. [ContentNext]_contentVars => [FeedNext]_feedVars
  BY DEF ContentNext, contentVars
<1> QED
  BY <1>1, <1>2, <1>3, <1>4, <1>5, <1>6, <1>7, PTL
     DEF ContentSpec, Spec, SourceSpec, TaxSpec, CheckSpec, ModSpec, FeedSpec

(* Type correctness of all the components that fetch, judge and serve the    *)
(* news.                                                                     *)
THEOREM ContentTypeCorrect == ContentSpec => []ContentTypeOK
<1>1. TypeOK /\ SourceTypeOK /\ TaxTypeOK /\ CheckTypeOK /\ ModTypeOK /\ FeedTypeOK => ContentTypeOK
  BY DEF ContentTypeOK
<1> QED
  BY <1>1, ContentParts, ScrapeTypeCorrect, SourceTypeCorrect, TaxTypeCorrect, CheckTypeCorrect,
     ModTypeCorrect, FeedTypeCorrect, PTL
=============================================================================
