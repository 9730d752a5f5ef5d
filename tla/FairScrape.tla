----------------------------- MODULE FairScrape -----------------------------
(* One run of scrape_raw_news under a total limit: the limit is split into   *)
(* shares, one for each target of the list, and the targets are scraped one  *)
(* after the other into raw_articles, which other runs fill at the same      *)
(* time.  Source: news/management/commands/scrape_raw_news.py,               *)
(* news/scrape_sources.py, news/scrapers/.                                   *)
EXTENDS Integers, FiniteSets

CONSTANTS Runs,        \* scrape_raw_news processes and requests, each runs once
          Ids,         \* ids of connections, or names of scraper modules
          Urls,        \* articles on the sites
          MaxTargets,  \* bound: length of the list of targets
          Total,       \* --total-limit, clamped to 1 or more
          PerMax       \* --limit, clamped to 1 or more

ASSUME ScrapeAssumption ==
  /\ MaxTargets \in Nat \ {0} /\ Total \in Nat \ {0} /\ PerMax \in Nat \ {0}
  /\ IsFiniteSet(Urls) /\ "nobody" \notin Runs /\ "earlier" \notin Runs

VARIABLES
  by,     \* raw_articles: the run that inserted each article
  ids,    \* the list of targets of each run
  at,     \* the target the run is at
  eff,    \* the effective limit of that target
  todo,   \* candidates of that target the run has not visited yet
  hand,   \* the candidate being fetched
  got,    \* inserted for that target
  sum,    \* total_inserted of the targets before it
  pc      \* where the run is

vars == <<by, ids, at, eff, todo, hand, got, sum, pc>>

Stored == {u \in Urls : by[u] # "nobody"}
Size(l) == Cardinality(DOMAIN l)
Smaller(x, y) == IF x <= y THEN x ELSE y

----------------------------------------------------------------------------
(* fair_caps_for_ids                                                         *)

\* Mutant of Share: every share is rounded up.
ShareUp(l, i) == Total \div Size(l) + 1

\* divmod: the first extra places get one more than the others.  The caps are a dict, in
\* which the last share of a repeated id stays: it has the extra one if all its places do.
Share(l, i) ==
  LET first == 1..(Total % Size(l))
  IN Total \div Size(l) + (IF \A j \in DOMAIN l : l[j] = l[i] => j \in first THEN 1 ELSE 0)

Cap(l, i) == Smaller(Share(l, i), PerMax)

----------------------------------------------------------------------------
(* The run.                                                                  *)

Lists == UNION {[1..n -> Ids] : n \in 1..MaxTargets}

Init ==
  /\ by \in [Urls -> {"nobody", "earlier"}]
  /\ ids \in [Runs -> Lists]
  /\ at = [r \in Runs |-> 0]
  /\ eff = [r \in Runs |-> 0] /\ got = [r \in Runs |-> 0] /\ sum = [r \in Runs |-> 0]
  /\ todo = [r \in Runs |-> {}] /\ hand = [r \in Runs |-> "none"]
  /\ pc = [r \in Runs |-> "next"]

\* remaining: what is left of the hard cap.
Room(r) == Total - sum[r] - got[r]

Goto(r, l) == pc' = [pc EXCEPT ![r] = l]

\* The next target of the list with a share above 0, its candidates as the site answers.
BeginTarget(r) ==
  LET i == at[r] + 1
  IN /\ pc[r] = "next" /\ i \in DOMAIN ids[r]
     /\ Cap(ids[r], i) > 0 /\ Room(r) > 0
     /\ at' = [at EXCEPT ![r] = i]
     /\ sum' = [sum EXCEPT ![r] = @ + got[r]] /\ got' = [got EXCEPT ![r] = 0]
     /\ eff' = [eff EXCEPT ![r] = Smaller(Cap(ids[r], i), Room(r))]
     /\ \E S \in SUBSET Urls : todo' = [todo EXCEPT ![r] = S]
     /\ Goto(r, "visit")
     /\ UNCHANGED <<by, ids, hand>>

\* A share of 0: continue.
SkipTarget(r) ==
  LET i == at[r] + 1
  IN /\ pc[r] = "next" /\ i \in DOMAIN ids[r] /\ Cap(ids[r], i) = 0
     /\ at' = [at EXCEPT ![r] = i]
     /\ UNCHANGED <<by, ids, eff, todo, hand, got, sum, pc>>

\* The list is over, or the hard cap is reached.
EndRun(r) ==
  LET i == at[r] + 1
  IN /\ pc[r] = "next"
     /\ i \in DOMAIN ids[r] => Cap(ids[r], i) > 0 /\ Room(r) <= 0
     /\ Goto(r, "over")
     /\ UNCHANGED <<by, ids, at, eff, todo, hand, got, sum>>

\* exists_url: the article is known already.
Known(r, u) ==
  /\ pc[r] = "visit" /\ got[r] < eff[r] /\ u \in todo[r] \cap Stored
  /\ todo' = [todo EXCEPT ![r] = @ \ {u}]
  /\ UNCHANGED <<by, ids, at, eff, hand, got, sum, pc>>

\* exists_url answered False: the page is fetched, which takes a while.
Fetch(r, u) ==
  /\ pc[r] = "visit" /\ got[r] < eff[r] /\ u \in todo[r] \ Stored
  /\ todo' = [todo EXCEPT ![r] = @ \ {u}] /\ hand' = [hand EXCEPT ![r] = u]
  /\ Goto(r, "store")
  /\ UNCHANGED <<by, ids, at, eff, got, sum>>

\* robots.txt, the answer or the text of the page is not good enough.
Refuse(r) ==
  /\ pc[r] = "store"
  /\ hand' = [hand EXCEPT ![r] = "none"] /\ Goto(r, "visit")
  /\ UNCHANGED <<by, ids, at, eff, todo, got, sum>>

\* Mutant of Store: the answer of insert_raw_if_new is not looked at.
StoreCounted(r) ==
  /\ pc[r] = "store"
  /\ by' = [by EXCEPT ![hand[r]] = IF @ = "nobody" THEN r ELSE @]
  /\ got' = [got EXCEPT ![r] = @ + 1]
  /\ hand' = [hand EXCEPT ![r] = "none"] /\ Goto(r, "visit")
  /\ UNCHANGED <<ids, at, eff, todo, sum>>

\* insert_raw_if_new: the unique index refuses what another run stored meanwhile.
Store(r) ==
  /\ pc[r] = "store"
  /\ IF hand[r] \in Stored THEN UNCHANGED <<by, got>>
     ELSE by' = [by EXCEPT ![hand[r]] = r] /\ got' = [got EXCEPT ![r] = @ + 1]
  /\ hand' = [hand EXCEPT ![r] = "none"] /\ Goto(r, "visit")
  /\ UNCHANGED <<ids, at, eff, todo, sum>>

\* The limit is reached, or no candidate is left.
EndTarget(r) ==
  /\ pc[r] = "visit" /\ (got[r] >= eff[r] \/ todo[r] = {})
  /\ todo' = [todo EXCEPT ![r] = {}] /\ Goto(r, "next")
  /\ UNCHANGED <<by, ids, at, eff, hand, got, sum>>

\* An exception of a request or of the database ends the run.
Raise(r) ==
  /\ pc[r] \in {"visit", "store"}
  /\ todo' = [todo EXCEPT ![r] = {}] /\ hand' = [hand EXCEPT ![r] = "none"]
  /\ Goto(r, "over")
  /\ UNCHANGED <<by, ids, at, eff, got, sum>>

Run(r) == \/ BeginTarget(r) \/ SkipTarget(r) \/ EndRun(r) \/ EndTarget(r)
          \/ \E u \in Urls : Known(r, u) \/ Fetch(r, u)
          \/ Refuse(r) \/ Store(r) \/ Raise(r)

Next == \E r \in Runs : Run(r)

Spec == Init /\ [][Next]_vars

----------------------------------------------------------------------------
(* Every variable keeps its type.                                            *)
TypeOK ==
  /\ by \in [Urls -> Runs \cup {"nobody", "earlier"}]
  /\ ids \in [Runs -> Lists] /\ at \in [Runs -> 0..MaxTargets]
  /\ eff \in [Runs -> 0..Total] /\ got \in [Runs -> 0..Total] /\ sum \in [Runs -> 0..Total]
  /\ todo \in [Runs -> SUBSET Urls] /\ hand \in [Runs -> Urls \cup {"none"}]
  /\ pc \in [Runs -> {"next", "visit", "store", "over"}]
  /\ \A r \in Runs : pc[r] = "store" => hand[r] \in Urls

(* "Cap total new inserts across all sources" (--total-limit): no run ever   *)
(* has more new articles in raw_articles than the limit, whatever other runs *)
(* insert meanwhile.                                                         *)
TotalCapped == \A r \in Runs : Cardinality({u \in Urls : by[u] = r}) <= Total

(* What a run reports it inserted are the rows it inserted: of two runs that *)
(* find the same new article, exactly one counts it.                         *)
CountTrue == \A r \in Runs : sum[r] + got[r] = Cardinality({u \in Urls : by[u] = r})

(* "Split a global insert cap evenly so the first source cannot take the     *)
(* whole batch" (_fair_per_source_caps): every target starts with its whole  *)
(* share, however much the ones before it took, and also when ids are        *)
(* repeated: the remaining total never cuts a share.                         *)
ShareKept == \A r \in Runs : pc[r] \in {"visit", "store"} => eff[r] = Cap(ids[r], at[r])

(* The promise of --total-limit as a whole: a run keeps its total, counts    *)
(* what it inserted, and gives every target its share.                       *)
FairKept == TotalCapped /\ CountTrue /\ ShareKept
=============================================================================
