------------------------------ MODULE Taxonomy ------------------------------
(* The platform taxonomy (news/platform_taxonomy.py, the settings views of   *)
(* admin_panel/api_views.py): one admin_settings document holds the          *)
(* categories and the connections, every edit reads a list, reads the other  *)
(* one and writes both back; the settings page also seeds, merges the        *)
(* catalog and refreshes labels.  Sort orders and category names are left    *)
(* out; every connection is an RSS feed.                                     *)
EXTENDS Integers, Sequences, FiniteSets

CONSTANTS Cats,      \* category slugs
          Subs,      \* subcategory slugs
          Defaults,  \* DEFAULT_TAGS_WITH_SUBCATEGORIES: some categories -> their subcategories
          Slugs,     \* connection slugs
          FeedUrls,      \* feed URLs
          Catalog,   \* sources_catalog: some connection slugs -> their URLs
          Editors,   \* requests that overlap
          MaxEdits   \* bound: requests served

ASSUME TaxonomyAssumption ==
  /\ DOMAIN Defaults \subseteq Cats /\ DOMAIN Catalog \subseteq Slugs
  /\ DOMAIN Defaults # {} /\ DOMAIN Catalog # {} /\ MaxEdits \in Nat
  /\ \A c \in DOMAIN Defaults : Defaults[c] \subseteq Subs
  /\ \A s \in DOMAIN Catalog : Catalog[s] \in FeedUrls

VARIABLES cats,   \* categories: slug -> subcategories and whether active
          conns,  \* connections: slug -> URL, whether active, whose name
          desk,   \* each request: tasks left, what it read and will write
          edits   \* requests begun

taxVars == <<cats, conns, desk, edits>>

Category(subs, on) == [subs |-> subs, on |-> on]
NewCategory(subs) == Category(subs, TRUE)
Connection(url, on, name) == [url |-> url, on |-> on, name |-> name]
NewConnection(url) == Connection(url, TRUE, "own")
DefaultCats == [c \in DOMAIN Defaults |-> Category(Defaults[c], TRUE)]
CatalogConns == [s \in DOMAIN Catalog |-> Connection(Catalog[s], TRUE, "label")]
With(f, x, row) == [y \in DOMAIN f \cup {x} |-> IF y = x THEN row ELSE f[y]]
Without(f, x) == [y \in DOMAIN f \ {x} |-> f[y]]
UrlsOf(list) == {list[s].url : s \in DOMAIN list}

\* The tasks of a request.  AdminSettingsView.get is four of them; its patch may
\* replace either list before them.
SettingsPage == <<"seedcats", "seedconns", "merge", "labels">>
Duties == {<<"cats">>, <<"conns">>, <<"seedcats">>, <<"seedconns">>, SettingsPage,
           <<"newcats">> \o SettingsPage, <<"newconns">> \o SettingsPage}
CatTasks == {"cats", "newcats", "seedcats"}
ConnTasks == {"conns", "newconns", "merge", "labels"}
Free == [todo |-> <<>>, pc |-> "look", mine |-> <<>>, other |-> <<>>, target |-> {}, fresh |-> FALSE]

TaxInit ==
  /\ cats \in {<<>>, DefaultCats} /\ conns \in {<<>>, CatalogConns}
  /\ desk = [w \in Editors |-> Free] /\ edits = 0

OpenDesk(w, todo) ==
  /\ desk[w].todo = <<>> /\ edits < MaxEdits
  /\ desk' = [desk EXCEPT ![w].todo = todo] /\ edits' = edits + 1
  /\ UNCHANGED <<cats, conns>>

TaskOf(w) == Head(desk[w].todo)
\* The list that an operation saves, and the slugs it is about.
Saved(list, target) == [mine |-> list, target |-> target]

(* The edits that are not refused.                                           *)
AddCategory(c, subs) == Saved(With(cats, c, NewCategory(subs)), {c})
CreateCategory == {AddCategory(c, S) : c \in Cats \ DOMAIN cats, S \in SUBSET Subs}
UpdateCategory == {Saved([cats EXCEPT ![c].on = b], {c}) : c \in DOMAIN cats, b \in BOOLEAN}
DeleteCategory == {Saved(Without(cats, c), {c}) : c \in DOMAIN cats}
AddSubcategory ==
  UNION {{Saved([cats EXCEPT ![c].subs = @ \cup {s}], {c}) : s \in Subs \ cats[c].subs} :
           c \in DOMAIN cats}
\* Names are left out: the list is saved as it was read.
UpdateSubcategory == {Saved(cats, {}) : c \in {d \in DOMAIN cats : cats[d].subs # {}}}
DeleteSubcategory ==
  UNION {{Saved([cats EXCEPT ![c].subs = @ \ {s}], {c}) : s \in cats[c].subs} : c \in DOMAIN cats}
ReplaceCategories == {Saved(<<>>, Cats), Saved(DefaultCats, Cats)}

AddConnection(s, url) == Saved(With(conns, s, NewConnection(url)), {s})
CreateConnection ==
  {AddConnection(s, u) : s \in Slugs \ DOMAIN conns, u \in FeedUrls \ UrlsOf(conns)}
\* The URL is not compared with those of the other connections.
UpdateConnection ==
  {Saved([conns EXCEPT ![s].on = b], {s}) : s \in DOMAIN conns, b \in BOOLEAN}
    \cup {Saved([conns EXCEPT ![s].url = u], {s}) : s \in DOMAIN conns, u \in FeedUrls}
    \cup {Saved([conns EXCEPT ![s].name = "own"], {s}) : s \in DOMAIN conns}
DeleteConnection == {Saved(Without(conns, s), {s}) : s \in DOMAIN conns}
ReplaceConnections == {Saved(<<>>, Slugs), Saved(CatalogConns, Slugs)}

\* seed_taxonomy_if_empty, seed_connections_if_empty
SeedCategories == IF cats = <<>> THEN {Saved(DefaultCats, Cats)} ELSE {}
SeedConnections == IF conns = <<>> THEN {Saved(CatalogConns, Slugs)} ELSE {}

\* merge_catalog_connections: what is missing by slug and by URL.
NotYet == {s \in DOMAIN Catalog : s \notin DOMAIN conns /\ Catalog[s] \notin UrlsOf(conns)}
Merged == [s \in DOMAIN conns \cup NotYet |->
             IF s \in NotYet THEN CatalogConns[s] ELSE conns[s]]

\* refresh_connection_labels_from_catalog: a feed gets the label of its URL.
Labelled == [s \in DOMAIN conns |-> [conns[s] EXCEPT !.name = "label"]]

\* What a task does with the document it reads; nothing when there is nothing to do.
Edited(task) ==
  CASE task = "cats" -> CreateCategory \cup UpdateCategory \cup DeleteCategory
                          \cup AddSubcategory \cup UpdateSubcategory \cup DeleteSubcategory
    [] task = "conns" -> CreateConnection \cup UpdateConnection \cup DeleteConnection
    [] task = "newcats" -> ReplaceCategories
    [] task = "newconns" -> ReplaceConnections
    [] task = "seedcats" -> SeedCategories
    [] task = "seedconns" -> SeedConnections
    [] task = "merge" -> IF NotYet # {} THEN {Saved(Merged, NotYet)} ELSE {}
    [] OTHER -> \* "labels"
                IF Labelled # conns THEN {Saved(Labelled, {})} ELSE {}

Onward(w) == [Free EXCEPT !.todo = Tail(desk[w].todo)]

\* The first read.  list_connections seeds an empty list before anything else.
LookUp(w) ==
  /\ desk[w].todo # <<>> /\ desk[w].pc = "look"
  /\ IF TaskOf(w) \in ConnTasks \ {"newconns"} /\ conns = <<>>
     THEN desk' = [desk EXCEPT ![w].todo = <<"seedconns">> \o @]
     ELSE IF Edited(TaskOf(w)) = {} THEN desk' = [desk EXCEPT ![w] = Onward(w)]
     ELSE \E e \in Edited(TaskOf(w)) :
            desk' = [desk EXCEPT ![w].mine = e.mine, ![w].target = e.target,
                                 ![w].fresh = TRUE, ![w].pc = "other"]
  /\ UNCHANGED <<cats, conns, edits>>

\* A request that is refused: an unknown or known slug, a known URL, no name, or
\* a deletion whose second read of the list is as long as what it would leave.
RefuseEdit(w) ==
  /\ desk[w].todo # <<>> /\ desk[w].pc = "look" /\ TaskOf(w) \in {"cats", "conns"}
  /\ desk' = [desk EXCEPT ![w] = Free]
  /\ UNCHANGED <<cats, conns, edits>>

\* Mutant of ReadOther: only the active connections are written back.
ReadOtherActive(w) ==
  LET on == {s \in DOMAIN conns : conns[s].on} IN
  /\ desk[w].pc = "other"
  /\ desk' = [desk EXCEPT ![w].pc = "save",
                ![w].other = IF TaskOf(w) \in CatTasks THEN [s \in on |-> conns[s]] ELSE cats]
  /\ UNCHANGED <<cats, conns, edits>>

\* The second read: the other list, as _persist_categories, _persist_connections
\* and the seeds read it.
ReadOther(w) ==
  /\ desk[w].pc = "other"
  /\ desk' = [desk EXCEPT ![w].pc = "save",
                ![w].other = CASE TaskOf(w) \in {"cats", "newcats"} -> conns
                               [] TaskOf(w) = "seedcats" -> IF conns = <<>> THEN CatalogConns ELSE conns
                               [] TaskOf(w) = "seedconns" -> IF cats = <<>> THEN DefaultCats ELSE cats
                               [] OTHER -> cats]
  /\ UNCHANGED <<cats, conns, edits>>

\* _save_categories_connections: both lists in one update.  _persist_connections
\* then lists the connections, which seeds them when none is left.
SaveBoth(w) ==
  /\ desk[w].pc = "save"
  /\ cats' = IF TaskOf(w) \in CatTasks THEN desk[w].mine ELSE desk[w].other
  /\ conns' = IF TaskOf(w) \in CatTasks THEN desk[w].other ELSE desk[w].mine
  /\ desk' = [v \in Editors |->
                IF v # w THEN [desk[v] EXCEPT !.fresh = FALSE]
                ELSE [Onward(w) EXCEPT !.todo = IF TaskOf(w) \in ConnTasks
                                               THEN <<"seedconns">> \o @ ELSE @]]
  /\ UNCHANGED edits

TaxNext ==
  \E w \in Editors : \/ \E todo \in Duties : OpenDesk(w, todo)
                     \/ LookUp(w) \/ RefuseEdit(w) \/ ReadOther(w) \/ SaveBoth(w)

TaxSpec == TaxInit /\ [][TaxNext]_taxVars

----------------------------------------------------------------------------
(* Every variable keeps its type.                                            *)
TaxTypeOK ==
  /\ DOMAIN cats \subseteq Cats /\ DOMAIN conns \subseteq Slugs
  /\ \A c \in DOMAIN cats : cats[c].subs \subseteq Subs /\ cats[c].on \in BOOLEAN
  /\ \A s \in DOMAIN conns : conns[s].url \in FeedUrls /\ conns[s].name \in {"own", "label"}
  /\ edits \in 0..MaxEdits

SavesNow(w) == desk[w].pc = "save" /\ desk'[w].pc = "look"

(* An edit changes what it is about and nothing else: neither the other list *)
(* nor, in its own, another row, so a source that an admin switched off is   *)
(* not switched on by an edit of a category, a seed, a merge or a label.     *)
(* Only a request that had read before another one saved writes old values   *)
(* back; an empty list may be seeded along the way.                          *)
EditsLocal ==
  [][\A w \in Editors : SavesNow(w) /\ desk[w].fresh =>
       /\ IF TaskOf(w) \in CatTasks THEN conns' = conns \/ conns = <<>> ELSE cats' = cats \/ cats = <<>>
       /\ \A c \in DOMAIN cats : c \in desk[w].target \/ (c \in DOMAIN cats' /\ cats'[c] = cats[c])
       /\ \A s \in DOMAIN conns :
            s \in desk[w].target
              \/ (s \in DOMAIN conns' /\ conns'[s].url = conns[s].url /\ conns'[s].on = conns[s].on)
    ]_taxVars
=============================================================================
