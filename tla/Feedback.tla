------------------------------ MODULE Feedback ------------------------------
(***************************************************************************)
(* Reports and feedback of readers and their review: news/feedback_service *)
(* .py, the views of news/user_views.py and admin_panel/api_views.py that  *)
(* call it, and the unique index of news/mongo_db.py.                      *)
(*                                                                         *)
(* A submission counts, finds, writes and notifies in separate calls.  One *)
(* unit of time is the hour of the rate limit; DedupeHours units pass      *)
(* before a repeated report is a new one.  Titles, messages and addresses  *)
(* are left out.                                                           *)
(***************************************************************************)
EXTENDS Naturals, Sequences, FiniteSets

CONSTANTS
  Reporters,     \* users
  Stories,       \* article ids
  NoStory,       \* feedback on the app has no article
  Categories,    \* a subset of FEEDBACK_CATEGORIES, "other" among them
  Handlers,      \* request threads
  RateLimit,     \* RATE_LIMIT_PER_HOUR
  DedupeHours,   \* DEDUPE_HOURS
  LastHour,      \* bound: the clock
  MaxPosts,      \* bound: submissions
  MaxReviews     \* bound: reviews

ASSUME FeedbackAssumption ==
  /\ Reporters # {}
  /\ NoStory \notin Stories
  /\ "other" \in Categories
  /\ RateLimit \in Nat \ {0}
  /\ DedupeHours \in Nat \ {0}
  /\ LastHour \in Nat
  /\ MaxPosts \in Nat
  /\ MaxReviews \in Nat

VARIABLES
  hour,      \* the clock
  indexed,   \* was the unique index built?  ensure_feedback_indexes passes over
             \* an error, which rows of an earlier version may cause
  reports,   \* user_feedback in the order of _id
  post,      \* the submission of each thread
  posted,    \* what the bounds have left: [posts, reviews]
  failed,    \* history: submissions that ended in an error, by kind
  crowded    \* history: users with two submissions at once

feedbackVars == <<hour, indexed, reports, post, posted, failed, crowded>>

Types == {"article_report", "article_feedback", "app_feedback"}
Statuses == {"pending", "reviewed", "dismissed"}

\* judged: reviewed_by and reviewed_at are set; born is history: the type of
\* the submission that created the row.
Report == [user : Reporters, story : Stories \union {NoStory}, category : Categories,
           type : Types, at : Nat, status : Statuses, judged : BOOLEAN,
           born : Types]

Post == [step : {"idle", "find", "update", "insert", "notify"},
         user : Reporters, story : Stories \union {NoStory},
         category : Categories, type : Types, found : Nat]

PostIdle == [step |-> "idle", user |-> CHOOSE u \in Reporters : TRUE,
             story |-> NoStory, category |-> "other", type |-> "app_feedback",
             found |-> 0]

NoPost(w) == post[w].step = "idle"

FeedbackInit ==
  /\ hour = 0
  /\ indexed \in BOOLEAN
  /\ reports = <<>>
  /\ post = [w \in Handlers |-> PostIdle]
  /\ posted = [posts |-> 0, reviews |-> 0]
  /\ failed = {}
  /\ crowded = {}

EndPost(w) == [post EXCEPT ![w] = PostIdle]

\* Mutant of InLastHour: the hour is open at its end.
InLastHourOpen(u) == {i \in DOMAIN reports : reports[i].user = u /\ reports[i].at + 1 > hour}

\* _check_rate_limit counts rows by created_at; a repeated report keeps its own.
InLastHour(u) == {i \in DOMAIN reports : reports[i].user = u /\ reports[i].at + 1 >= hour}

\* _normalize_type and _normalize_category: an article without a known type is
\* a report; an unknown category is "other" when there is a message.
Typed(type, story) ==
  IF type \in Types THEN type
  ELSE IF story # NoStory THEN "article_report" ELSE "app_feedback"

\* submit_user_feedback up to the lookup: a user at the rate limit is answered
\* 429, and missing texts are answered 400.  A report that names its article by
\* URL only is stored with article_id None.
Submission(w) == \E u \in Reporters, s \in Stories \union {NoStory},
                    c \in Categories, type \in Types \union {"unknown"} :
  LET t == Typed(type, s) IN
  /\ NoPost(w)
  /\ posted.posts < MaxPosts
  /\ posted' = [posted EXCEPT !.posts = @ + 1]
  /\ Cardinality(InLastHour(u)) < RateLimit
  /\ crowded' = IF \E v \in Handlers : ~NoPost(v) /\ post[v].user = u
                THEN crowded \union {u} ELSE crowded
  /\ post' = [post EXCEPT ![w] =
                [step |-> IF s # NoStory /\ t = "article_report" THEN "find" ELSE "insert",
                 user |-> u, story |-> s, category |-> c, type |-> t, found |-> 0]]
  /\ UNCHANGED <<hour, indexed, reports, failed>>

Same(i, q) == /\ reports[i].user = q.user
              /\ reports[i].story = q.story
              /\ reports[i].category = q.category

\* find_one of a young row with the same user, article and category, of any
\* type.
FindReport(w) ==
  LET q == post[w]
      young == {i \in DOMAIN reports : Same(i, q) /\ reports[i].at + DedupeHours >= hour}
  IN
  /\ q.step = "find"
  /\ \/ /\ young = {}
        /\ post' = [post EXCEPT ![w].step = "insert"]
     \/ \E i \in young : post' = [post EXCEPT ![w].step = "update", ![w].found = i]
  /\ UNCHANGED <<hour, indexed, reports, posted, failed, crowded>>

\* The row found is rewritten: pending again, without its review, with its age.
Pending(q, at, born) == [user |-> q.user, story |-> q.story, category |-> q.category,
                  type |-> q.type, at |-> at, status |-> "pending", judged |-> FALSE,
                       born |-> born]

Renew(w) ==
  LET q == post[w] IN
  /\ q.step = "update"
  /\ reports' = [reports EXCEPT ![q.found] = Pending(q, @.at, @.born)]
  /\ post' = [post EXCEPT ![w].step = "notify"]
  /\ UNCHANGED <<hour, indexed, posted, failed, crowded>>

\* insert_one; the index on user, article and category (None included) raises.
InsertReport(w) ==
  LET q == post[w]
      taken == indexed /\ \E i \in DOMAIN reports : Same(i, q)
  IN
  /\ q.step = "insert"
  /\ IF taken
     THEN /\ post' = EndPost(w)
          /\ failed' = failed \union {[q EXCEPT !.found = hour]}
          /\ UNCHANGED reports
     ELSE /\ reports' = Append(reports, Pending(q, hour, q.type))
          /\ post' = [post EXCEPT ![w].step = "notify"]
          /\ UNCHANGED failed
  /\ UNCHANGED <<hour, indexed, posted, crowded>>

\* _notify_admins_for_feedback; a delivery that raises answers 500, but the
\* row is stored.
Announce(w) ==
  /\ post[w].step = "notify"
  /\ post' = EndPost(w)
  /\ UNCHANGED <<hour, indexed, reports, posted, failed, crowded>>

\* update_feedback: one find_one_and_update by an administrator.
Review == \E i \in DOMAIN reports, s \in Statuses :
  /\ posted.reviews < MaxReviews
  /\ posted' = [posted EXCEPT !.reviews = @ + 1]
  /\ reports' = [reports EXCEPT ![i].status = s, ![i].judged = TRUE]
  /\ UNCHANGED <<hour, indexed, post, failed, crowded>>

HourPasses ==
  /\ hour < LastHour
  /\ hour' = hour + 1
  /\ UNCHANGED <<indexed, reports, post, posted, failed, crowded>>

FeedbackNext ==
  \/ \E w \in Handlers : \/ Submission(w) \/ FindReport(w) \/ Renew(w)
                         \/ InsertReport(w) \/ Announce(w)
  \/ Review \/ HourPasses

FeedbackSpec == FeedbackInit /\ [][FeedbackNext]_feedbackVars
-----------------------------------------------------------------------------
\* Every variable keeps its type (the documents of user_feedback).
FeedbackTypeOK ==
  /\ hour \in Nat
  /\ indexed \in BOOLEAN
  /\ reports \in Seq(Report)
  /\ post \in [Handlers -> Post]
  /\ posted \in [posts : Nat, reviews : Nat]
  /\ failed \subseteq Post
  /\ crowded \subseteq Reporters

\* RATE_LIMIT_PER_HOUR bounds the rows a user creates within any hour, unless
\* the user submits twice at once: the count and the insert are two calls.
RateHolds ==
  \A u \in Reporters \ crowded, h \in 0 .. hour :
    Cardinality({i \in DOMAIN reports : reports[i].user = u /\ reports[i].at \in h .. h + 1})
      <= RateLimit

\* Two reports of one user on one article in one category are DEDUPE_HOURS
\* apart, by the index when it could be built, and else unless two
\* submissions ran at once.  (Feedback on an article, and reports by URL only,
\* are not looked up at all.)
ReportsApart ==
  \A i, j \in DOMAIN reports :
    /\ i < j
    /\ Same(i, reports[j]) /\ reports[j].born = "article_report"
    /\ reports[j].story # NoStory
    => /\ ~indexed
       /\ \/ reports[j].user \in crowded
          \/ reports[j].at > reports[i].at + DedupeHours

\* With the index, a submission fails only on a row of the same user, article
\* and category that is too old to be found or of a submission that is not a
\* report; a report repeated in time is never refused.
RefusedOnlyLate ==
  \A q \in failed :
    /\ indexed
    /\ \/ q.type # "article_report" \/ q.story = NoStory
       \/ q.user \in crowded
       \/ \E i \in DOMAIN reports : Same(i, q) /\ reports[i].at + DedupeHours < q.found

(* The limits on reports: how many in an hour, one per matter, and no more   *)
(* refused than the index has to.                                            *)
ReportLimits == RateHolds /\ ReportsApart /\ RefusedOnlyLate
=============================================================================
