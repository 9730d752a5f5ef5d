---------------------------- MODULE ArticleFeed ----------------------------
(***************************************************************************)
(* The readers' feeds page by page and the cache of the Explore feed:      *)
(* news/services/{article_query,feed_cache}.py, the visibility clauses of  *)
(* news/moderation_rules.py, the feed views of news/user_views.py.         *)
(*                                                                         *)
(* An article is a number; stamp gives its place in the sort order         *)
(* (processed_at, _id), 0 while it is not processed.  A cursor is a stamp. *)
(* What a search, a category, a reader's keywords or the Pics feed select  *)
(* is the set wanted.  The finds of one page are one step, and a ranking   *)
(* by score may pick any of the candidates it is given.                    *)
(***************************************************************************)
EXTENDS Integers, FiniteSets

CONSTANTS
  N,            \* articles 1 .. N
  Clients,      \* readers who page through a feed
  Feeds,        \* the feeds this instance exercises
  PageSize,     \* limit of a request
  Batch,        \* _feed_batch_size(PageSize)
  MaxChanges,   \* bound: articles processed or moderated, invalidations
  MaxPages,     \* bound: pages served
  MaxSecond     \* bound: the clock of the cache version

FeedArticles == 1 .. N
AllFeeds == {"home", "explore", "category", "search", "pics"}

\* The feeds whose page is looked up in the cache (no search words).
Cacheable == {"explore", "category"}

ASSUME FeedAssumption ==
  /\ N \in Nat
  /\ MaxChanges \in Nat
  /\ Feeds \subseteq AllFeeds
  /\ PageSize \in Nat \ {0}
  /\ Batch \in Nat \ {0}

VARIABLES
  stamp,     \* processed_articles in feed order
  visible,   \* articles that user_feed_visibility_clause selects
  wanted,    \* articles that match the request's filter
  session,   \* what each client pages through
  cached,    \* cache: pages by [version, feed, cursor]
  version,   \* cache: the version of the Explore keys
  second,    \* time.time() in whole seconds
  spent,     \* what the bounds have left: [changes, pages]
  bumps,     \* history: invalidations so far
  blurred    \* history: did two invalidations fall in one second

feedVars == <<stamp, visible, wanted, session, cached, version, second, spent,
              bumps, blurred>>

\* bumps: how many invalidations had happened when the page was read.
Page == [shown : SUBSET FeedArticles, next : Nat, more : BOOLEAN, bumps : Nat]
NoPage == [shown |-> {}, next |-> 0, more |-> FALSE, bumps |-> 0]

\* shown: articles the client was given; steady: history, articles that match
\* and did not change since the session began; key: the cache key in hand.
Session == [feed : AllFeeds, phase : {"idle", "ask", "read", "store"},
            cursor : Nat, shown : SUBSET FeedArticles, steady : SUBSET FeedArticles,
            again : SUBSET FeedArticles, fromCache : BOOLEAN,
            key : Nat, page : Page]

NoSession == [feed |-> "home", phase |-> "idle", cursor |-> 0, shown |-> {},
              steady |-> {}, again |-> {}, fromCache |-> FALSE, key |-> 0, page |-> NoPage]

FeedInit ==
  /\ stamp \in {[a \in FeedArticles |-> IF a <= k THEN a ELSE 0] : k \in 0 .. N}
  /\ visible = FeedArticles
  /\ wanted \in SUBSET FeedArticles
  /\ session = [r \in Clients |-> NoSession]
  /\ cached = {}
  /\ version = 1
  /\ second = 2
  /\ spent = [changes |-> 0, pages |-> 0]
  /\ bumps = 0
  /\ blurred = FALSE

-----------------------------------------------------------------------------
(* One page                                                                *)

Processed == {a \in FeedArticles : stamp[a] > 0}

\* Mutant of Found: the article of the cursor is found again.
FoundAgain(feed, cursor) ==
  {a \in Processed \cap visible :
     /\ cursor # 0 => stamp[a] <= cursor
     /\ feed = "category" => a \in wanted}

\* _query_after_cursor and the visibility clause; a category is part of the
\* query, the other filters are applied to what the query returns.
Found(feed, cursor) ==
  {a \in Processed \cap visible :
     /\ cursor # 0 => stamp[a] < cursor
     /\ feed = "category" => a \in wanted}

\* The place of an article in a result, newest first, and the first n of it.
Rank(a, S) == Cardinality({b \in S : stamp[b] >= stamp[a]})
First(n, S) == {a \in S : Rank(a, S) <= n}

\* The batch a rank falls in, and a batch of the result.
BatchOf(rank) == (rank + Batch - 1) \div Batch
InBatch(S, k) == {a \in S : BatchOf(Rank(a, S)) = k}

\* _cursor_payload_from_doc of the last article of S.
CursorOf(S) == IF S = {} THEN 0 ELSE CHOOSE s \in {stamp[a] : a \in S} :
                                       \A a \in S : s <= stamp[a]

\* next_cursor is given out only when there is more.
PageOf(shown, seen, more) ==
  [shown |-> shown, more |-> more /\ seen # {}, bumps |-> bumps,
   next |-> IF more THEN CursorOf(seen) ELSE 0]

\* Mutant of Home: the cursor goes to the end of the last batch.
HomeToBatchEnd(cursor) ==
  LET S == Found("home", cursor)
      hits == First(PageSize, S \cap wanted)
      full == Cardinality(hits) = PageSize
      seen == {a \in S : full => Rank(a, S) <= Batch * BatchOf(Rank(CHOOSE b \in hits :
                                    stamp[b] = CursorOf(hits), S))}
      last == InBatch(S, BatchOf(Cardinality(seen)))
  IN PageOf(hits, seen, full /\ Cardinality(last) = Batch)

\* get_user_feed_page: batches are scanned until PageSize articles match; the
\* cursor stays at the last article looked at, and there is more only if the
\* last batch was full.  (The loop leaves a page short of PageSize only at an
\* empty batch, so the probe for more matches below it never runs.)
Home(cursor) ==
  LET S == Found("home", cursor)
      hits == First(PageSize, S \cap wanted)
      full == Cardinality(hits) = PageSize
      seen == {a \in S : full => stamp[a] >= CursorOf(hits)}
      last == InBatch(S, BatchOf(Cardinality(seen)))
  IN PageOf(hits, seen, full /\ Cardinality(last) = Batch)

\* get_explore_feed_page without search words: the first PageSize of one batch,
\* ranked; there is more only if the batch was full.
Explore(feed, cursor) ==
  LET limit == IF feed = "category" /\ PageSize > Batch THEN PageSize ELSE Batch
      batch == First(limit, Found(feed, cursor))
      shown == First(PageSize, batch)
  IN PageOf(shown, shown, Cardinality(batch) >= Batch)

\* Explore with search words, and get_pics_feed_page: of each batch as many
\* candidates as the page still lacks, in the order of their rank; the cursor
\* goes to the end of the last batch.
Ranked(feed, cursor) ==
  LET S == Found(feed, cursor)
      hits == S \cap wanted
      need(k) == PageSize - Cardinality({a \in hits : BatchOf(Rank(a, S)) < k})
      fill == {k \in 1 .. N : Cardinality(hits \cap InBatch(S, k)) >= need(k)}
  IN IF fill = {} THEN {PageOf(hits, S, FALSE)}
     ELSE LET k == CHOOSE i \in fill : \A j \in fill : i <= j
              seen == {a \in S : BatchOf(Rank(a, S)) <= k}
              before == {a \in hits : BatchOf(Rank(a, S)) < k}
          IN {PageOf(before \union T, seen, Cardinality(InBatch(S, k)) = Batch) :
                T \in {U \in SUBSET (hits \cap InBatch(S, k)) :
                         Cardinality(U) = need(k)}}

Pages(feed, cursor) ==
  CASE feed = "home" -> {Home(cursor)}
    [] feed \in Cacheable -> {Explore(feed, cursor)}
    [] feed \in {"search", "pics"} -> Ranked(feed, cursor)

-----------------------------------------------------------------------------
(* A client's session                                                      *)

Matches(feed, a) == feed # "explore" => a \in wanted

\* The first request of a feed, or the next one with the cursor of the last.
Ask(r, s) ==
  /\ spent.pages < MaxPages
  /\ spent' = [spent EXCEPT !.pages = @ + 1]
  /\ session' = [session EXCEPT ![r] =
       [s EXCEPT !.phase = IF s.feed \in Cacheable THEN "ask" ELSE "read",
                 !.page = NoPage]]
  /\ UNCHANGED <<stamp, visible, wanted, cached, version, second, bumps, blurred>>

Start(r) == \E feed \in Feeds :
  /\ session[r].phase = "idle"
  /\ Ask(r, [NoSession EXCEPT !.feed = feed,
               !.steady = {a \in Found(feed, 0) : Matches(feed, a)}])

Continue(r) ==
  /\ session[r].phase = "idle"
  /\ session[r].page.more
  /\ Ask(r, [session[r] EXCEPT !.cursor = session[r].page.next])

\* The page reaches the client.
Receive(s, page, hit) ==
  [s EXCEPT !.phase = "idle", !.page = page, !.shown = @ \union page.shown,
            !.again = @ \union (s.shown \cap page.shown), !.key = 0,
            !.fromCache = @ \/ hit]

\* explore_cache_key is made from the version of now, then looked up.
Lookup(r) ==
  LET s == session[r]
      hits == {c \in cached : c.version = version /\ c.feed = s.feed /\ c.cursor = s.cursor}
  IN
  /\ s.phase = "ask"
  /\ IF hits # {}
     THEN \E c \in hits : session' = [session EXCEPT ![r] = Receive(s, c.page, TRUE)]
     ELSE session' = [session EXCEPT ![r] = [s EXCEPT !.phase = "read", !.key = version]]
  /\ UNCHANGED <<stamp, visible, wanted, cached, version, second, spent, bumps, blurred>>

\* The finds of the page.
Read(r) ==
  LET s == session[r] IN
  /\ s.phase = "read"
  /\ \E page \in Pages(s.feed, s.cursor) :
       session' = [session EXCEPT ![r] =
         IF s.feed \in Cacheable THEN [s EXCEPT !.phase = "store", !.page = page]
         ELSE Receive(s, page, FALSE)]
  /\ UNCHANGED <<stamp, visible, wanted, cached, version, second, spent, bumps, blurred>>

\* Mutant of StorePage: the key is made when the page is stored.
StorePageLate(r) ==
  LET s == session[r] IN
  /\ s.phase = "store"
  /\ cached' = cached \union
       {[version |-> version, feed |-> s.feed, cursor |-> s.cursor, page |-> s.page]}
  /\ session' = [session EXCEPT ![r] = Receive(s, s.page, FALSE)]
  /\ UNCHANGED <<stamp, visible, wanted, version, second, spent, bumps, blurred>>

\* set_cached_explore under the key made before the finds.
StorePage(r) ==
  LET s == session[r]
      same(c) == c.version = s.key /\ c.feed = s.feed /\ c.cursor = s.cursor
  IN
  /\ s.phase = "store"
  /\ cached' = {c \in cached : ~same(c)} \union
       {[version |-> s.key, feed |-> s.feed, cursor |-> s.cursor, page |-> s.page]}
  /\ session' = [session EXCEPT ![r] = Receive(s, s.page, FALSE)]
  /\ UNCHANGED <<stamp, visible, wanted, version, second, spent, bumps, blurred>>

-----------------------------------------------------------------------------
(* Changes                                                                 *)

Change ==
  /\ spent.changes < MaxChanges
  /\ spent' = [spent EXCEPT !.changes = @ + 1]

\* a changed, so no session owes it any more.
Unsteady(a) ==
  session' = [r \in Clients |-> [session[r] EXCEPT !.steady = @ \ {a}]]

\* replace_one of a new or requeued article: it is the newest one now.
ProcessArticle(a) ==
  /\ Change
  /\ stamp' = [stamp EXCEPT ![a] = 1 + CHOOSE m \in {stamp[b] : b \in FeedArticles} :
                                         \A b \in FeedArticles : stamp[b] <= m]
  /\ Unsteady(a)
  /\ UNCHANGED <<visible, wanted, cached, version, second, bumps, blurred>>

\* An administrator's decision; the cache is not told.
ModerateArticle(a) ==
  /\ Change
  /\ stamp[a] > 0
  /\ visible' = (visible \ {a}) \union ({a} \ visible)
  /\ Unsteady(a)
  /\ UNCHANGED <<stamp, wanted, cached, version, second, bumps, blurred>>

\* invalidate_explore_cache, after a drain of the pipeline.
InvalidateExplore ==
  /\ Change
  /\ version' = second
  /\ bumps' = bumps + 1
  /\ blurred' = (blurred \/ version = second)
  /\ UNCHANGED <<stamp, visible, wanted, session, cached, second>>

\* A cached page reaches its timeout or is evicted.
PageExpires ==
  /\ \E c \in cached : cached' = cached \ {c}
  /\ UNCHANGED <<stamp, visible, wanted, session, version, second, spent, bumps, blurred>>

SecondPasses ==
  /\ second < MaxSecond
  /\ second' = second + 1
  /\ UNCHANGED <<stamp, visible, wanted, session, cached, version, spent, bumps, blurred>>

FeedNext ==
  \/ \E r \in Clients : Start(r) \/ Continue(r) \/ Lookup(r) \/ Read(r) \/ StorePage(r)
  \/ \E a \in FeedArticles : ProcessArticle(a) \/ ModerateArticle(a)
  \/ InvalidateExplore \/ PageExpires \/ SecondPasses

FeedSpec == FeedInit /\ [][FeedNext]_feedVars
-----------------------------------------------------------------------------
\* Every variable keeps its type.
FeedTypeOK ==
  /\ stamp \in [FeedArticles -> Nat]
  /\ visible \subseteq FeedArticles
  /\ wanted \subseteq FeedArticles
  /\ session \in [Clients -> Session]
  /\ cached \subseteq [version : Nat, feed : AllFeeds, cursor : Nat, page : Page]
  /\ version \in Nat
  /\ second \in Nat
  /\ spent \in [changes : Nat, pages : Nat]
  /\ bumps \in Nat
  /\ blurred \in BOOLEAN

\* A client that pages on by cursor is never given an article twice, whatever
\* is processed, requeued or moderated meanwhile; only pages of the cache may
\* repeat one that moved up.
NoRepeat == \A r \in Clients : session[r].fromCache \/ session[r].again = {}

\* The personal, Explore and category feeds leave no gap behind their cursor:
\* an article that matched all along is shown once the cursor is past it.  The
\* search and Pics feeds leave out what a full page ranked lower.
NoGap == \A r \in Clients :
  LET s == session[r] IN
  s.feed \in {"home", "explore", "category"} /\ s.phase = "idle" /\ ~s.fromCache
  => {a \in s.steady : s.page.more /\ stamp[a] >= s.page.next} \subseteq s.shown

\* A client's pages neither repeat an article nor leave one out behind the cursor.
PagesExact == NoRepeat /\ NoGap

\* After an invalidation no page read before it is served from the cache, even
\* when the page was being computed at that time, unless two invalidations
\* fell in one second and so made the same version.
FreshCache ==
  [][\A r \in Clients : Lookup(r) /\ session'[r].phase = "idle"
       => blurred \/ session'[r].page.bumps = bumps]_feedVars

\* article_query.py: "Cursor-based personalized feed for infinite scrolling":
\* at the end of the feed everything that matched all along was shown.
EndReached == \A r \in Clients :
  LET s == session[r] IN
  s.feed = "home" /\ s.phase = "idle" /\ spent.pages > 0 /\ ~s.page.more
  => s.steady \subseteq s.shown
=============================================================================
