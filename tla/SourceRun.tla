----------------------------- MODULE SourceRun ------------------------------
(* The run of one source module (news/scrapers/sources/*.py): its listings,  *)
(* feeds or API requests, the robots check before every page, and the store  *)
(* that other processes fill too.  Nine entry points share the steps: dawn,  *)
(* dunya, "site" (run_single_site), "sites" (generic run), "feed"            *)
(* (run_single_feed), "feeds" (rss run), gnews, newsdata, currents.  HTML,   *)
(* the extractors and the skip counts are left out; a robots.txt refuses all *)
(* pages of its host or none.                                                *)
EXTENDS Integers, Sequences, FiniteSets, Functions, Arrangement

CONSTANTS Listings,  \* the kinds but the APIs -> listings or feeds, each with host and site
          Topics,    \* the categories configured for the APIs, in order
          ValidTopics,     \* VALID_CATEGORIES of gnews
          PageUrls,     \* the article URLs
          HostOf,    \* page -> host
          Links,     \* bound: what a listing, a feed or a request may give
          Limit,     \* the limit of a run
          PerSite,   \* max_per_site of the generic sites
          MaxTotal,     \* max_total of the generic run
          Calls,     \* MAX_REQUESTS_PER_RUN of the APIs
          MaxRuns,   \* bound: runs of this process
          MaxOthers  \* bound: pages that other processes store

Papers == {"dawn", "dunya"}
Apis == {"gnews", "newsdata", "currents"}
Kinds == DOMAIN Listings \cup Apis

\* The entries of s at the places S, in the order that R puts the places in.
Arranged(s, S, R) ==
  [n \in 1..Cardinality(S) |-> s[Ordered(S, R)[n]]]
Picked(s, S) == Arranged(s, S, {p \in S \X S : p[1] < p[2]})

\* _collect_items: the requests of a run, the general one first.
GnewsRequests ==
  <<"general">> \o Picked(Topics, {i \in DOMAIN Topics : Topics[i] \in ValidTopics \ {"general"}})
NewsdataRequests == <<"latest">> \o Topics
CurrentsRequests == <<"latest-news">> \o Topics
Requested(topics) == [i \in DOMAIN topics |-> [site |-> topics[i], host |-> "api"]]

Parts(k) == CASE k = "gnews" -> Requested(GnewsRequests)
              [] k = "newsdata" -> Requested(NewsdataRequests)
              [] k = "currents" -> Requested(CurrentsRequests)
              [] OTHER -> Listings[k]

Hosts == Range(HostOf) \cup UNION {{Parts(k)[i].host : i \in DOMAIN Parts(k)} : k \in Kinds}

ASSUME SourceAssumption ==
  /\ Limit \in Nat \ {0} /\ PerSite \in Nat \ {0} /\ MaxTotal \in Nat /\ Calls \in Nat \ {0}
  /\ MaxRuns \in Nat /\ MaxOthers \in Nat /\ DOMAIN HostOf = PageUrls
  /\ Links \subseteq Seq(PageUrls) /\ Topics \in Seq(Range(Topics))
  /\ \A k \in DOMAIN Listings : Listings[k] \in Seq(Range(Listings[k]))
  /\ DOMAIN Listings \subseteq Papers \cup {"site", "sites", "feed", "feeds"}

VARIABLES source,   \* the run: place, kind, what is left to list and to try, counts
          robots,   \* _cache and _failed_hosts: host -> what is known of it
          articles, \* the raw collection's URLs
          tried,    \* the entries taken up so far, as <<part, page>> (history)
          listed,   \* part -> number of entries it gave (history)
          fetched,  \* hosts pages were fetched from in this run (history)
          put,      \* pages this run stored (history)
          runs, others

sourceVars == <<source, robots, articles, tried, listed, fetched, put, runs, others>>

Least(a, b) == IF a < b THEN a ELSE b
Gathers(k) == k \in Apis \cup {"feeds"}     \* list everything before the first page

Resting == [pc |-> "idle", kind |-> "none", parts |-> <<>>, queue |-> <<>>, seen |-> {},
            inserted |-> 0, here |-> 0, cap |-> 0, calls |-> 0, page |-> "none"]

SourceInit ==
  /\ source = Resting
  /\ robots = [h \in Hosts |-> "unknown"]
  /\ articles \in {S \in SUBSET PageUrls : Cardinality(S) <= 1}
  /\ tried = <<>> /\ listed = <<>> /\ fetched = {} /\ put = {} /\ runs = 0 /\ others = 0

\* allowed: a host's file is loaded once per process, and a host whose file
\* cannot be loaded stays refused.
Permit(h, answer) ==
  /\ answer \in IF robots[h] = "unknown" THEN {"open", "shut", "failed"} ELSE {robots[h]}
  /\ robots' = [robots EXCEPT ![h] = answer]

\* The room of the run, and of the site it is at.
HasRoom(s) ==
  IF s.kind = "sites" THEN s.inserted < MaxTotal /\ s.here < s.cap ELSE s.inserted < Limit

----------------------------------------------------------------------------

\* scrape_connection_target; a run ends at once without its API key, its feeds,
\* or an enabled configuration of its site.
StartRun(k, ready) ==
  /\ source.pc \in {"idle", "done", "raised"} /\ runs < MaxRuns
  /\ ready \/ k \notin Papers
  /\ source' = [Resting EXCEPT !.pc = IF ready THEN "list" ELSE "done", !.kind = k,
                   !.parts = Parts(k), !.cap = Least(PerSite, Least(Limit, MaxTotal))]
  /\ runs' = runs + 1
  /\ tried' = <<>> /\ listed' = [i \in DOMAIN Parts(k) |-> 0] /\ fetched' = {} /\ put' = {}
  /\ UNCHANGED <<robots, articles, others>>

PartNow == Len(Parts(source.kind)) - Len(source.parts) + 1   \* the number of the head part

\* The part that follows is of the next site: its budget is what the run has left.
NextPart(s) ==
  LET rest == Tail(s.parts)
      fresh == rest # <<>> /\ Head(rest).site # Head(s.parts).site
  IN [s EXCEPT !.parts = rest,
               !.here = IF fresh THEN 0 ELSE @,
               !.cap = IF fresh THEN Least(PerSite, Least(Limit, MaxTotal - s.inserted)) ELSE @]

\* Mutant of Interleaved: feed after feed.
InterleavedFlat(s) == s

\* _round_robin_entries: the first of each feed, then the second, ...
Turn(s, j) == Cardinality({i \in 1..j : s[i][1] = s[j][1]})
Before(s, i, j) ==
  Turn(s, i) < Turn(s, j) \/ (Turn(s, i) = Turn(s, j) /\ s[i][1] < s[j][1])
Interleaved(s) ==
  Arranged(s, DOMAIN s, {p \in (DOMAIN s) \X (DOMAIN s) : Before(s, p[1], p[2])})

\* add_batch: an item is taken once.
Distinct(s) == Picked(s, {j \in DOMAIN s : \A i \in 1..j - 1 : s[i][2] # s[j][2]})

Entries(part, links) == [j \in DOMAIN links |-> <<part, links[j]>>]

\* The queue of a run that gathers first, once everything is listed.
Queued(s) ==
  CASE s.kind = "feeds" -> Interleaved(s.queue)
    [] s.kind \in Apis  -> Distinct(s.queue)
    [] OTHER            -> s.queue

\* The listings of a generic site are read while the site and the run have room,
\* the requests of an API while it has calls left.
ToList == /\ source.pc = "list" /\ source.parts # <<>>
          /\ IF Gathers(source.kind) THEN source.kind \in Apis => source.calls < Calls
             ELSE source.kind # "feed" => HasRoom(source)

ListHost == Head(source.parts).host

\* robots.txt refuses a listing or a feed.
ListRefused ==
  /\ ToList /\ source.kind \notin Apis
  /\ \E a \in {"shut", "failed"} : Permit(ListHost, a)
  /\ source' = NextPart(source)
  /\ UNCHANGED <<articles, tried, listed, fetched, put, runs, others>>

\* A status other than 200 or an exception: the next one, but an exception ends
\* the run of a newspaper.
ListFails(raises) ==
  /\ ToList /\ source.kind \notin Apis /\ Permit(ListHost, "open")
  /\ fetched' = fetched \cup {ListHost}
  /\ source' = IF raises /\ source.kind \in Papers THEN [source EXCEPT !.pc = "raised"]
               ELSE NextPart(source)
  /\ UNCHANGED <<articles, tried, listed, put, runs, others>>

\* The links are tried before the next listing is read, or when all are known.
ListGives(links) ==
  /\ ToList /\ source.kind \notin Apis /\ Permit(ListHost, "open")
  /\ fetched' = fetched \cup {ListHost}
  /\ source' = [source EXCEPT !.queue = @ \o Entries(PartNow, links),
                   !.parts = IF Gathers(source.kind) THEN Tail(@) ELSE @,
                   !.pc = IF Gathers(source.kind) THEN "list" ELSE "try"]
  /\ listed' = [listed EXCEPT ![PartNow] = Len(links)]
  /\ UNCHANGED <<articles, tried, put, runs, others>>

\* A request to an API, which robots.txt is not asked for.  An exception, a
\* status, a broken answer and a quota are one error, and count as a request.
RequestFails ==
  /\ ToList /\ source.kind \in Apis
  /\ source' = [source EXCEPT !.parts = Tail(@), !.calls = @ + 1]
  /\ UNCHANGED <<robots, articles, tried, listed, fetched, put, runs, others>>

RequestGives(links) ==
  /\ ToList /\ source.kind \in Apis
  /\ source' = [source EXCEPT !.parts = Tail(@), !.calls = @ + 1,
                              !.queue = @ \o Entries(PartNow, links)]
  /\ listed' = [listed EXCEPT ![PartNow] = Len(links)]
  /\ UNCHANGED <<robots, articles, tried, fetched, put, runs, others>>

\* Nothing is left to list: the gathered entries are tried, or the run ends.
\* The rest of a site that has no room is passed over.
ListedAll ==
  /\ source.pc = "list" /\ ~ToList
  /\ source' = CASE Gathers(source.kind) -> [source EXCEPT !.pc = "try", !.queue = Queued(source)]
                 [] source.kind = "sites" /\ source.parts # <<>> /\ source.inserted < MaxTotal
                      -> NextPart(source)
                 [] OTHER -> [source EXCEPT !.pc = "done"]
  /\ UNCHANGED <<robots, articles, tried, listed, fetched, put, runs, others>>

\* The entries are through, or the room is used up.
Through ==
  /\ source.pc = "try" /\ (source.queue = <<>> \/ ~HasRoom(source))
  /\ source' = IF Gathers(source.kind) THEN [source EXCEPT !.pc = "done"]
               ELSE [NextPart(source) EXCEPT !.pc = "list", !.queue = <<>>]
  /\ UNCHANGED <<robots, articles, tried, listed, fetched, put, runs, others>>

----------------------------------------------------------------------------
(* An entry: is it stored, may it be fetched, does it give an article, and   *)
(* insert_raw_if_new.                                                        *)

\* Only the newspapers keep the links seen in earlier listings.  An entry of a
\* feed may lack its link, an item of an API its article: they are passed over.
Take(usable) ==
  LET e == Head(source.queue)
      known == \/ ~usable \/ e[2] \in articles
               \/ source.kind \in Papers /\ e[2] \in source.seen
  IN
  /\ usable \/ source.kind \in Apis \cup {"feed", "feeds"}
  /\ source.pc = "try" /\ source.queue # <<>> /\ HasRoom(source)
  /\ tried' = Append(tried, e)
  /\ source' = [source EXCEPT !.queue = Tail(@), !.seen = @ \cup {e[2]},
                   !.page = IF known THEN "none" ELSE e[2], !.pc = IF known THEN "try" ELSE "fetch"]
  /\ UNCHANGED <<robots, articles, listed, fetched, put, runs, others>>

\* robots.txt refuses the page; an API's item is stored without it.
PageRefused ==
  /\ source.pc = "fetch"
  /\ \E a \in {"shut", "failed"} : Permit(HostOf[source.page], a)
  /\ source' = [source EXCEPT !.pc = IF source.kind \in Apis THEN "put" ELSE "try"]
  /\ UNCHANGED <<articles, tried, listed, fetched, put, runs, others>>

\* An API fetches pages only when its FETCH_ARTICLE_PAGES is set.
PageSpared ==
  /\ source.pc = "fetch" /\ source.kind \in Apis
  /\ source' = [source EXCEPT !.pc = "put"]
  /\ UNCHANGED <<robots, articles, tried, listed, fetched, put, runs, others>>

\* _maybe_fetch_page: whatever comes of it, the item is stored.
ItemPage ==
  /\ source.pc = "fetch" /\ source.kind \in Apis /\ Permit(HostOf[source.page], "open")
  /\ fetched' = fetched \cup {HostOf[source.page]}
  /\ source' = [source EXCEPT !.pc = "put"]
  /\ UNCHANGED <<articles, tried, listed, put, runs, others>>

\* Mutant of FetchPage: robots.txt is not asked.
FetchUnasked(outcome) ==
  /\ source.pc = "fetch" /\ source.kind \notin Apis
  /\ fetched' = fetched \cup {HostOf[source.page]}
  /\ source' = [source EXCEPT !.pc = IF outcome = "text" THEN "put" ELSE "try"]
  /\ UNCHANGED <<robots, articles, tried, listed, put, runs, others>>

\* The page gives an article ("text"), or not: another status, too many bytes,
\* nothing extracted ("none"), an exception ("raises").
FetchPage(outcome) ==
  /\ source.pc = "fetch" /\ source.kind \notin Apis /\ Permit(HostOf[source.page], "open")
  /\ fetched' = fetched \cup {HostOf[source.page]}
  /\ source' = [source EXCEPT !.pc = CASE outcome = "text" -> "put"
                                      [] outcome = "raises" /\ source.kind \in Papers -> "raised"
                                      [] OTHER -> "try"]
  /\ UNCHANGED <<articles, tried, listed, put, runs, others>>

PutPage ==
  LET new == IF source.page \in articles THEN 0 ELSE 1 IN
  /\ source.pc = "put"
  /\ source' = [source EXCEPT !.pc = "try", !.inserted = @ + new, !.here = @ + new]
  /\ put' = put \cup ({source.page} \ articles)
  /\ articles' = articles \cup {source.page}
  /\ UNCHANGED <<robots, tried, listed, fetched, runs, others>>

\* Another process stores a page.
OtherStores(p) ==
  /\ others < MaxOthers /\ p \notin articles
  /\ articles' = articles \cup {p} /\ others' = others + 1
  /\ UNCHANGED <<source, robots, tried, listed, fetched, put, runs>>

----------------------------------------------------------------------------
(* The runs of the modules.                                                  *)

ListingRun ==
  \/ ListRefused \/ ListFails(FALSE) \/ \E links \in Links : ListGives(links)
  \/ ListedAll \/ Through \/ Take(TRUE) \/ PageRefused \/ PutPage
  \/ \E outcome \in {"text", "none", "raises"} : FetchPage(outcome)

ApiRun ==
  \/ RequestFails \/ \E links \in Links : RequestGives(links)
  \/ ListedAll \/ Through \/ \E usable \in BOOLEAN : Take(usable)
  \/ PageRefused \/ PageSpared \/ ItemPage \/ PutPage

DawnRun == source.kind = "dawn" /\ (ListFails(TRUE) \/ ListingRun)
DunyaRun == source.kind = "dunya" /\ (ListFails(TRUE) \/ ListingRun)
SiteRun == source.kind = "site" /\ ListingRun
SitesRun == source.kind = "sites" /\ ListingRun
FeedRun == source.kind = "feed" /\ (Take(FALSE) \/ ListingRun)
RssRun == source.kind = "feeds" /\ (Take(FALSE) \/ ListingRun)
GnewsRun == source.kind = "gnews" /\ ApiRun
NewsdataRun == source.kind = "newsdata" /\ ApiRun
CurrentsRun == source.kind = "currents" /\ ApiRun

SourceNext ==
  \/ \E k \in Kinds, ready \in BOOLEAN : StartRun(k, ready)
  \/ DawnRun \/ DunyaRun \/ SiteRun \/ SitesRun \/ FeedRun \/ RssRun
  \/ GnewsRun \/ NewsdataRun \/ CurrentsRun
  \/ \E p \in PageUrls : OtherStores(p)

SourceSpec == SourceInit /\ [][SourceNext]_sourceVars

----------------------------------------------------------------------------
(* Every variable keeps its type.                                            *)
SourceTypeOK ==
  /\ robots \in [Hosts -> {"unknown", "open", "shut", "failed"}]
  /\ articles \subseteq PageUrls /\ put \subseteq articles
  /\ source.pc \in {"idle", "list", "try", "fetch", "put", "done", "raised"}
  /\ source.calls \in Nat /\ source.inserted \in Nat
  /\ source.pc \in {"fetch", "put"} => source.page \in PageUrls

(* A run reports what it stored and no more than its budget, although other  *)
(* processes store pages between its look-up and its insert: inserted counts *)
(* its own inserts, within limit, or max_total for the generic sites.        *)
LimitKept ==
  /\ source.inserted = Cardinality(put)
  /\ source.inserted <= IF source.kind = "sites" THEN MaxTotal ELSE Limit
  /\ source.kind \in Apis => source.calls <= Calls

(* Nothing is fetched from a host whose robots.txt refuses it or could not   *)
(* be loaded, in this run or in an earlier one of the process.               *)
PagesAllowed == \A h \in fetched : robots[h] = "open"

EntriesOf(s, f) == Cardinality({i \in DOMAIN s : s[i][1] = f})
TriedOf(f) == EntriesOf(tried, f)

(* The rss run takes the feeds in turn: when it stops at its limit no feed   *)
(* is more than one entry behind another one, unless it had no more ("each   *)
(* run hits many outlets, not only the first feed", rss.py:1).               *)
FeedsInTurn ==
  source.kind = "feeds"
    => \A f, g \in DOMAIN Parts("feeds") :
         TriedOf(f) <= TriedOf(g) + 1 \/ TriedOf(g) = listed[g]

(* What one source's run promises its caller and the sites: it stays within  *)
(* its limit and reports what it stored, asks only hosts that allow it, and  *)
(* serves the feeds of the rss run in turn.                                  *)
RunKept == LimitKept /\ PagesAllowed /\ FeedsInTurn
=============================================================================
