------------------------------ MODULE MCContent ------------------------------
(* The components that fetch, judge and serve the news, for TLC: the fair    *)
(* scrape, one source's run, the taxonomy that names the sources, the fact   *)
(* check, moderation and the feeds.  They share no state here, so each       *)
(* behaviour exercises one of them, the focus; the others rest.              *)
EXTENDS FairScrape, SourceRun, Taxonomy, FactCheck, Moderation, ArticleFeed, TLC

VARIABLE focus

\* The instance.
CONSTANTS x1, x2, y1, y2, z1, z2, z3, p1, p2, p3, u1, u2, u3

Symmetry == Permutations({x1, x2})

Listing(site, host) == [site |-> site, host |-> host]
MCListings ==
  [dawn |-> <<Listing("s1", "h1"), Listing("s1", "h1")>>,
   dunya |-> <<Listing("s1", "h2"), Listing("s1", "h2")>>,
   site |-> <<Listing("s1", "h1"), Listing("s1", "h2")>>,
   sites |-> <<Listing("s1", "h1"), Listing("s2", "h2")>>,
   feed |-> <<Listing("s1", "h1")>>,
   feeds |-> <<Listing("s1", "h1"), Listing("s2", "h2")>>]
MCTopics == <<"general", "world", "unknown">>
MCHostOf == p1 :> "h1" @@ p2 :> "h2" @@ p3 :> "h1"
MCLinks == {<<>>, <<p1>>, <<p1, p2>>, <<p2, p3, p1>>}

MCDefaults == "news" :> {"local"}
MCCatalog == "dawn" :> u1 @@ "bbc" :> u2

Probs(real, fake, suspicious) == Real :> real @@ Fake :> fake @@ Suspicious :> suspicious
MCShapes == {Probs(6, 2, 2), Probs(5, 3, 2), Probs(0, 9, 1), Probs(7, 7, 0)}
MCSources == {<<>>, <<"wikipedia", "wikidata", "openalex">>, <<"google", "wikipedia">>}
AnyOutput == CHOOSE o \in FakeDetection(MCShapes) : TRUE

contentVars == <<focus, vars, sourceVars, taxVars, checkVars, modVars, feedVars>>

\* A component that rests has one initial state.  Of the two scrape runs one has
\* a list of a single target: they meet in raw_articles only.
ContentInit ==
  /\ focus \in {"fair", "source", "taxonomy", "check", "moderation", "feed"}
  /\ Init
  /\ \E r \in Runs : Size(ids[r]) = 1
  /\ focus # "fair" => /\ \A u \in Urls : by[u] = "nobody"
                       /\ \A r \in Runs : ids[r] = [i \in 1..1 |-> CHOOSE x \in Ids : TRUE]
  /\ SourceInit /\ (focus # "source" => articles = {})
  /\ TaxInit /\ (focus # "taxonomy" => cats = <<>> /\ conns = <<>>)
  /\ CheckInit /\ (focus # "check" => sources = <<>> /\ ~parallel /\ model = AnyOutput)
  /\ ModInit /\ (focus # "moderation" => \A d \in Docs : doc[d] = NoDoc)
  /\ FeedInit /\ (focus # "feed" => wanted = {} /\ \A a \in FeedArticles : stamp[a] = 0)

ContentNext ==
  \/ /\ focus = "fair" /\ Next
     /\ UNCHANGED <<focus, sourceVars, taxVars, checkVars, modVars, feedVars>>
  \/ /\ focus = "source" /\ SourceNext
     /\ UNCHANGED <<focus, vars, taxVars, checkVars, modVars, feedVars>>
  \/ /\ focus = "taxonomy" /\ TaxNext
     /\ UNCHANGED <<focus, vars, sourceVars, checkVars, modVars, feedVars>>
  \/ /\ focus = "check" /\ CheckNext
     /\ UNCHANGED <<focus, vars, sourceVars, taxVars, modVars, feedVars>>
  \/ /\ focus = "moderation" /\ ModNext
     /\ UNCHANGED <<focus, vars, sourceVars, taxVars, checkVars, feedVars>>
  \/ /\ focus = "feed" /\ FeedNext
     /\ UNCHANGED <<focus, vars, sourceVars, taxVars, checkVars, modVars>>

ContentSpec == ContentInit /\ [][ContentNext]_contentVars

(* Every variable of these components keeps its type.                        *)
ContentTypeOK == TypeOK /\ SourceTypeOK /\ TaxTypeOK /\ CheckTypeOK /\ ModTypeOK /\ FeedTypeOK
=============================================================================
