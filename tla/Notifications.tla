--------------------------- MODULE Notifications ---------------------------
(***************************************************************************)
(* In-app notifications: keyword alerts, their backfill, alerts for        *)
(* administrators, and the badge that clears what predates an account:     *)
(* news/notifications/keyword_alerts.py, notifications/{delivery,realtime, *)
(* user_scope,admin_alerts,views}.py, TrackKeywordsView of                 *)
(* news/user_views.py.                                                     *)
(*                                                                         *)
(* A job is a thread that walks a list of notifications to make; each is a *)
(* find for a recent duplicate, an insert and a delivery, three accesses   *)
(* that nothing groups.  Time passes in units of which Window make the 24  *)
(* hours of the deduplication; the look-back of a backfill is longer than  *)
(* a behaviour.                                                            *)
(***************************************************************************)
EXTENDS Naturals, Sequences, SequencesExt, FiniteSets

CONSTANTS
  Readers,      \* accounts with role user
  Admins,       \* active accounts with role admin
  Articles,     \* canonical URLs of processed_articles
  Keywords,     \* what a reader can follow
  Threads,      \* job threads and request threads
  Window,       \* dedupe_hours
  CutOff,       \* limit of a backfill: newest articles it looks at
  PruneLimit,   \* unread alerts a listing looks through, limit(300)
  MaxLegacy,    \* bound: notifications of before, at the start
  MaxNow,       \* bound: the clock
  MaxEvents     \* bound: articles processed, moderated or deleted, keywords
                \* saved, jobs

ASSUME NoteAssumption ==
  /\ Readers \cap Admins = {}
  /\ Window \in Nat \ {0}
  /\ CutOff \in Nat \ {0}
  /\ PruneLimit \in Nat \ {0}
  /\ MaxLegacy \in Nat
  /\ MaxNow \in Nat
  /\ MaxEvents \in Nat
  /\ IsFiniteSet(Articles) /\ IsFiniteSet(Admins) /\ IsFiniteSet(Keywords) /\ Keywords # {}

VARIABLES
  now,      \* the clock
  joined,   \* accounts_user.created_at of a reader
  follows,  \* user_keywords: [list, at], at is created_at
  arts,     \* processed_articles: [at, pub, visible, tags, id]
  notes,    \* notifications in the order of _id: [user, key, aid, at, read],
            \* aid is meta.article_id, 0 when there is none
  job,      \* what each thread does
  badge,    \* rows: the unread notifications a reader's client was last told
            \* of; cut (history): a look through them left some out
  events,   \* what the bound has left
  clashed   \* history: users that two jobs at once made notifications for

noteVars == <<now, joined, follows, arts, notes, job, badge, events, clashed>>

All == "your topics"
Alert == "pipeline_error"

\* The dedupe_key of a notification: article and keyword, or the admin alert.
Keys == (Articles \X (Keywords \union {All})) \union {<<Alert, All>>}

\* rows and cut belong to a listing: the alerts it has yet to look at, and
\* whether PruneLimit made it leave others out.  since and goal are history:
\* when a job began, and the readers and articles (administrators and the
\* alert) it owes a notification.
NoteJob == [kind : {"none", "backfill", "admins", "list"},
            step : {"idle", "find", "insert", "deliver", "suppress", "prune",
                    "look", "mark", "answer"},
            who : Readers \union Admins \union {Alert},
            todo : Seq([user : Readers \union Admins, key : Keys, aid : Nat]),
            rows : SUBSET Nat,
            cut : BOOLEAN,
            since : Nat,
            goal : SUBSET ((Readers \union Admins) \X (Articles \union {Alert}))]

NoteIdle == [kind |-> "none", step |-> "idle", who |-> Alert, todo |-> <<>>,
             rows |-> {}, cut |-> FALSE, since |-> 0, goal |-> {}]

\* The _id of an article: 1 for those of the start, later ones by the event.
Gone == [at |-> 0, pub |-> 0, visible |-> FALSE, tags |-> {}, id |-> 0]
Old == [at |-> 0, pub |-> 0, visible |-> TRUE, tags |-> Keywords, id |-> 1]

\* Rows of before created_at was honoured, each of another user or article: a
\* note older than its reader's account, or of an article older than it, with
\* or without the article's id.
LegacyRows == [user : Readers, key : Articles \X {All}, aid : {0, 1}, at : {0, 1},
               read : {FALSE}]
Legacies ==
  {s \in UNION {[1..n -> LegacyRows] : n \in 0 .. MaxLegacy} :
     \A i, j \in DOMAIN s : s[i].user = s[j].user /\ s[i].key = s[j].key => i = j}

NoteInit ==
  /\ now = 1
  /\ joined \in [Readers -> {1}]
  /\ follows \in [Readers -> {[list |-> <<>>, at |-> 0]} \union
                            {[list |-> <<k>>, at |-> 1] : k \in Keywords}]
  /\ arts \in [Articles -> {Gone, Old}]
  /\ notes \in Legacies
  /\ job = [t \in Threads |-> NoteIdle]
  /\ badge = [u \in Readers |-> [rows |-> {}, cut |-> FALSE]]
  /\ events = 0
  /\ clashed = {}

NoteEvent == events < MaxEvents /\ events' = events + 1
-----------------------------------------------------------------------------
(* Who should hear of an article                                           *)

Saved(u) == follows[u].list # <<>>

\* _matched_keywords: the first of the list that matches, or all topics.
Hits(u, a) ==
  LET list == follows[u].list
      match == {i \in DOMAIN list : list[i] \in arts[a].tags}
  IN IF list # <<>> /\ ToSet(list) = Keywords THEN {All}
     ELSE {list[i] : i \in {j \in match : \A k \in match : j <= k}}

\* The article is not older than the reader's account.
Fresh(u, a) == arts[a].at >= joined[u] /\ arts[a].pub >= joined[u]

\* How far a backfill for u looks back.
Since(u) == IF follows[u].at > joined[u] THEN follows[u].at ELSE joined[u]

LookBack(u) == {a \in Articles : arts[a] # Gone /\ arts[a].at >= Since(u)}

\* Mutant of Recent: one article less.
RecentFewer(u) ==
  {N \in SUBSET LookBack(u) :
     /\ N = LookBack(u) \/ Cardinality(N) = CutOff - 1
     /\ Cardinality(N) < CutOff
     /\ \A a \in N, b \in LookBack(u) \ N : arts[a].at >= arts[b].at}

\* What sort and limit leave; articles of one time come in any order.
Recent(u) ==
  {N \in SUBSET LookBack(u) :
     /\ N = LookBack(u) \/ Cardinality(N) = CutOff
     /\ Cardinality(N) <= CutOff
     /\ \A a \in N, b \in LookBack(u) \ N : arts[a].at >= arts[b].at}

Eligible(u, a) == arts[a].visible /\ Fresh(u, a) /\ Hits(u, a) # {}

\* The members of S one by one.
OneByOne(S) == {s \in [1..Cardinality(S) -> S] : ToSet(s) = S}

\* The lists of eligible articles a backfill may go through, newest first.
Backlogs(u) ==
  {news \in UNION {OneByOne({a \in N : Eligible(u, a)}) : N \in Recent(u)} :
     \A i, j \in DOMAIN news : i < j => arts[news[i]].at >= arts[news[j]].at}

Telling(u, news) ==
  [i \in DOMAIN news |->
     [user |-> u, key |-> <<news[i], CHOOSE h \in Hits(u, news[i]) : TRUE>>,
      aid |-> arts[news[i]].id]]

\* The same by its meaning: visible articles of the reader's topics, younger
\* than the account and the interests, with fewer than CutOff newer ones.
Deserved(u) == {a \in Articles :
  /\ arts[a] # Gone
  /\ Eligible(u, a)
  /\ arts[a].at >= follows[u].at
  /\ Cardinality({b \in Articles \ {a} : arts[b].at >= arts[a].at}) < CutOff}

-----------------------------------------------------------------------------
(* Articles and interests                                                  *)

\* process_one_raw replaces the article and alerts its followers, as does an
\* administrator's approval.  notify_keyword_matches_for_article raises at its
\* first user_keywords row (User has no field date_joined) and the caller
\* swallows it, so the alert makes no notification.
AlertFollowers == UNCHANGED <<notes, job, clashed>>

Process(a) ==
  /\ NoteEvent
  /\ \E vis \in BOOLEAN, tags \in SUBSET Keywords :
       arts' = [arts EXCEPT ![a] = [at |-> now, visible |-> vis, tags |-> tags,
                                    pub |-> IF @ = Gone THEN now ELSE @.pub,
                                    id |-> IF @ = Gone THEN events + 2 ELSE @.id]]
  /\ AlertFollowers
  /\ UNCHANGED <<now, joined, follows, badge>>

Moderate(a) ==
  /\ NoteEvent
  /\ arts[a] # Gone
  /\ arts' = [arts EXCEPT ![a].visible = ~@]
  /\ AlertFollowers
  /\ UNCHANGED <<now, joined, follows, badge>>

\* AdminArticleDetailView.delete: the notifications about it stay.
DeleteArticle(a) ==
  /\ NoteEvent
  /\ arts[a] # Gone
  /\ arts' = [arts EXCEPT ![a] = Gone]
  /\ UNCHANGED <<now, joined, follows, notes, job, badge, clashed>>

Waiting(t) == job[t].step = "idle"

\* A thread begins to make todo; users already being notified clash.
BeginJob(t, kind, who, todo, goal) ==
  LET users == {todo[i].user : i \in DOMAIN todo} IN
  /\ Waiting(t)
  /\ job' = [job EXCEPT ![t] = [NoteIdle EXCEPT !.kind = kind, !.step = "find",
                                !.who = who, !.todo = todo, !.since = now,
                                !.goal = goal]]
  /\ clashed' = clashed \union
       {u \in users : \E s \in Threads \ {t} :
          \E i \in DOMAIN job[s].todo : job[s].todo[i].user = u}

\* upsert_user_keywords: created_at is set by the first save only.
Follow(u, list) ==
  follows' = [follows EXCEPT ![u] = [list |-> list,
                                     at |-> IF @.at = 0 THEN now ELSE @.at]]

\* TrackKeywordsView saves, then a new thread reads the list and the articles;
\* a reader without interests gets nothing.
SaveKeywords(u) ==
  /\ NoteEvent
  /\ \E list \in SetToAllKPermutations(Keywords) : Follow(u, list)
  /\ UNCHANGED <<now, joined, arts, notes, job, badge, clashed>>

\* notify_keyword_matches_for_user_recent, from the thread of a save, the
\* reader's own request or the management command.
Backfill(t, u) ==
  /\ NoteEvent
  /\ Saved(u)
  /\ \E news \in Backlogs(u) :
       BeginJob(t, "backfill", u, Telling(u, news), {u} \X Deserved(u))
  /\ UNCHANGED <<now, joined, follows, arts, notes, badge>>

\* notify_all_admins: one notification for each active administrator.
AlertAdmins(t) ==
  /\ NoteEvent
  /\ \E admins \in OneByOne(Admins) :
       BeginJob(t, "admins", Alert,
                [i \in DOMAIN admins |-> [user |-> admins[i], key |-> <<Alert, All>>,
                                          aid |-> 0]],
                Admins \X {Alert})
  /\ UNCHANGED <<now, joined, follows, arts, notes, badge>>

-----------------------------------------------------------------------------
(* create_notification                                                     *)

\* Does a row with the same user and key exist that is young enough?
Duplicate(s) == \E i \in DOMAIN notes : /\ notes[i].user = s.user
                                        /\ notes[i].key = s.key
                                        /\ notes[i].at + Window >= now

Proceed(j) == [j EXCEPT !.todo = Tail(@), !.step = "find"]

FindDuplicate(t) ==
  /\ job[t].step = "find"
  /\ job' = [job EXCEPT ![t] =
       IF @.todo = <<>> THEN NoteIdle
       ELSE IF Duplicate(Head(@.todo)) THEN Proceed(@) ELSE [@ EXCEPT !.step = "insert"]]
  /\ UNCHANGED <<now, joined, follows, arts, notes, badge, events, clashed>>

Insert(t) ==
  LET s == Head(job[t].todo) IN
  /\ job[t].step = "insert"
  /\ notes' = Append(notes, [user |-> s.user, key |-> s.key, aid |-> s.aid,
                             at |-> now, read |-> FALSE])
  /\ job' = [job EXCEPT ![t].step = "deliver"]
  /\ UNCHANGED <<now, joined, follows, arts, badge, events, clashed>>

\* fanout_notification: the channel layer's group_send is not guarded, and its
\* error ends the whole job with the row stored; push and mail errors are
\* swallowed.
Deliver(t) ==
  /\ job[t].step = "deliver"
  /\ job' = [job EXCEPT ![t] = Proceed(@)]
  /\ UNCHANGED <<now, joined, follows, arts, notes, badge, events, clashed>>

DeliveryRaises(t) ==
  /\ job[t].step = "deliver"
  /\ job' = [job EXCEPT ![t] = NoteIdle]
  /\ UNCHANGED <<now, joined, follows, arts, notes, badge, events, clashed>>

-----------------------------------------------------------------------------
(* Reading notifications                                                   *)

Unread(u) == {i \in DOMAIN notes : notes[i].user = u /\ ~notes[i].read}

MarkRead(S) ==
  notes' = [i \in DOMAIN notes |-> IF i \in S THEN [notes[i] EXCEPT !.read = TRUE]
                                   ELSE notes[i]]

\* NotificationsListView and NotificationsUnreadCountView
Open(t, u) ==
  /\ NoteEvent
  /\ Waiting(t)
  /\ job' = [job EXCEPT ![t] = [NoteIdle EXCEPT !.kind = "list", !.who = u,
                                                !.step = "suppress"]]
  /\ UNCHANGED <<now, joined, follows, arts, notes, badge, clashed>>

\* suppress_pre_account_notifications: one update_many.
Suppress(t) ==
  /\ job[t].step = "suppress"
  /\ MarkRead({i \in Unread(job[t].who) : notes[i].at < joined[job[t].who]})
  /\ job' = [job EXCEPT ![t].step = "prune"]
  /\ UNCHANGED <<now, joined, follows, arts, badge, events, clashed>>

\* prune_stale_keyword_notifications reads unread alerts up to its limit,
Prune(t) == \E page \in SUBSET Unread(job[t].who) :
  /\ job[t].step = "prune"
  /\ Cardinality(page) <= PruneLimit
  /\ page = Unread(job[t].who) \/ Cardinality(page) = PruneLimit
  /\ job' = [job EXCEPT ![t].step = "look", ![t].rows = page,
                        ![t].cut = page # Unread(job[t].who)]
  /\ UNCHANGED <<now, joined, follows, arts, notes, badge, events, clashed>>

\* Mutant of Predates: only the time of processing counts.
PredatesAt(u, a, id) == id # 0 /\ arts[a].id = id /\ arts[a].at < joined[u]

\* The article of an alert exists and is older than the account; an alert
\* without an article's id, or of a deleted one, is spared.
Predates(u, a, id) == id # 0 /\ arts[a].id = id /\ ~Fresh(u, a)
StaleAlert(i) == Predates(notes[i].user, notes[i].key[1], notes[i].aid)

\* ... and goes through them: it finds the article of the next one,
Row(t) == CHOOSE i \in job[t].rows : TRUE
OtherRows(t) == job[t].rows \ {Row(t)}

LookAt(t) ==
  /\ job[t].step = "look"
  /\ job' = [job EXCEPT ![t] =
       IF @.rows = {} THEN [@ EXCEPT !.step = "answer"]
       ELSE IF StaleAlert(Row(t)) THEN [@ EXCEPT !.step = "mark"]
       ELSE [@ EXCEPT !.rows = OtherRows(t)]]
  /\ UNCHANGED <<now, joined, follows, arts, notes, badge, events, clashed>>

\* ... and marks the alert read in a call of its own.
MarkStale(t) ==
  /\ job[t].step = "mark"
  /\ MarkRead({Row(t)})
  /\ job' = [job EXCEPT ![t].step = "look", ![t].rows = OtherRows(t)]
  /\ UNCHANGED <<now, joined, follows, arts, badge, events, clashed>>

\* user_notifications_query with read = False.
AnswerUnread(t) ==
  LET u == job[t].who IN
  /\ job[t].step = "answer"
  /\ badge' = [badge EXCEPT ![u] = [rows |-> {i \in Unread(u) : notes[i].at >= joined[u]},
                                    cut |-> job[t].cut]]
  /\ job' = [job EXCEPT ![t] = NoteIdle]
  /\ UNCHANGED <<now, joined, follows, arts, notes, events, clashed>>

\* MarkNotificationReadView; MarkAllNotificationsReadView reads the same query
\* as the badge.
ReadNotes(u) ==
  /\ \/ \E i \in DOMAIN notes : notes[i].user = u /\ MarkRead({i})
     \/ MarkRead({i \in Unread(u) : notes[i].at >= joined[u]})
  /\ UNCHANGED <<now, joined, follows, arts, job, badge, events, clashed>>

NoteTick ==
  /\ now < MaxNow
  /\ now' = now + 1
  /\ UNCHANGED <<joined, follows, arts, notes, job, badge, events, clashed>>

-----------------------------------------------------------------------------
NoteNext ==
  \/ NoteTick
  \/ \E a \in Articles : Process(a) \/ Moderate(a) \/ DeleteArticle(a)
  \/ \E u \in Readers : SaveKeywords(u) \/ ReadNotes(u)
  \/ \E t \in Threads :
       \/ AlertAdmins(t)
       \/ FindDuplicate(t) \/ Insert(t) \/ Deliver(t) \/ DeliveryRaises(t)
       \/ Suppress(t) \/ Prune(t) \/ LookAt(t) \/ MarkStale(t) \/ AnswerUnread(t)
       \/ \E u \in Readers : Backfill(t, u) \/ Open(t, u)

NoteSpec == NoteInit /\ [][NoteNext]_noteVars
-----------------------------------------------------------------------------
\* Every variable keeps its type (the documents of the four collections).
NoteTypeOK ==
  /\ now \in Nat
  /\ joined \in [Readers -> Nat]
  /\ follows \in [Readers -> [list : Seq(Keywords), at : Nat]]
  /\ arts \in [Articles -> [at : Nat, pub : Nat, visible : BOOLEAN,
                            tags : SUBSET Keywords, id : Nat]]
  /\ notes \in Seq([user : Readers \union Admins,
                    key : Keys, aid : Nat, at : Nat, read : BOOLEAN])
  /\ job \in [Threads -> NoteJob]
  /\ badge \in [Readers -> [rows : SUBSET (1 .. Len(notes)), cut : BOOLEAN]]
  /\ events \in Nat
  /\ clashed \subseteq Readers \union Admins

\* "Dedupe keys prevent duplicate notifications within 24h" (keyword_alerts.py)
\* holds exactly for users whom no two jobs notify at once: the find and the
\* insert of create_notification are two calls.
DedupeHolds ==
  \A i, j \in DOMAIN notes :
    i < j /\ notes[i].user = notes[j].user /\ notes[i].key = notes[j].key
    => notes[i].user \in clashed \/ notes[j].at > notes[i].at + Window

\* A job that walks to its end leaves a recent notification behind for every
\* administrator, or for every article its reader deserved to hear of when it
\* began, whatever other jobs, saves and moderators do meanwhile.
JobComplete ==
  [][\A t \in Threads :
       FindDuplicate(t) /\ job[t].todo = <<>>
       => \A g \in job[t].goal : \E i \in DOMAIN notes :
            /\ notes[i].user = g[1] /\ notes[i].key[1] = g[2]
            /\ notes[i].at + Window >= job[t].since]_noteVars

\* What a reader's badge counts is never older than the account, and is about
\* an article older than the account only when there were more unread alerts
\* than the PruneLimit the listing looks at (or the article is gone, or the
\* alert names none): however the listing, row by row, interleaves with
\* backfills, readers and reprocessed or deleted articles.
BadgeHonest ==
  \A u \in Readers : \A i \in badge[u].rows :
    LET a == arts[notes[i].key[1]] IN
    /\ notes[i].at >= joined[u]
    /\ \/ a.at >= joined[u] /\ a.pub >= joined[u]
       \/ notes[i].aid # a.id \/ notes[i].aid = 0
       \/ badge[u].cut

\* keyword_alerts.py: "Notify users when a newly processed article matches
\* their saved keywords."
MatchNotified ==
  [][\A a \in Articles : Process(a) \/ Moderate(a)
       => \A u \in Readers : Eligible(u, a)' =>
            \E i \in DOMAIN notes' : notes'[i].user = u /\ notes'[i].key[1] = a]_noteVars

(* The inbox holds no alert twice, and its count is right.                   *)
InboxHonest == DedupeHolds /\ BadgeHonest
=============================================================================
