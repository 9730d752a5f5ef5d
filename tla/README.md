# TRAK backend: TLA+ models

The TRAK backend collects news articles, processes them with a chain of ML
stages, serves them to readers, alerts the readers about their keywords and
answers their questions. This directory models what the code decides and
stores: the queue of raw articles with its leases and schedules, the scrapers
that fill it, the credibility verdicts and moderation, the feeds, and what
belongs to an account (codes, notifications, reports, conversations). TLC
checks each module on a small instance; TLAPS proves the main safety
properties for every value of the constants. Paths are relative to `src/`.

Contents: 1 system and inventory, 2 modules, 3 runs, 4 fairness, 5 proofs,
6 divergences between documents and code, 7 abstractions, 8 not modelled.

## 1. The system

    sources ──scrape_raw_news──> raw_articles ──workers──> processed_articles ──> feeds, alerts
                 ^      ^             ^    ^        |              ^                   |
      scrape_scheduler, |       auto_runner,    credibility,   moderators,          readers:
      run_news_cycle,  taxonomy run_news_cycle,  fact check    rescoring,           keywords, reports,
      admin            (settings) admin views                  backfill             chat, accounts

Two containers run the same code over one MongoDB (`docker-compose.yml`): the
API process with its background threads (auto runner loop, scrape scheduler
loop, request threads, kick threads) and the pipeline container with cron's or
an operator's management commands. All coordination goes through MongoDB
documents and the Django cache, and in one process through two
`threading.Lock`s and module globals. `transaction.atomic` is a no-op on the
MongoDB backend, so every request is a sequence of calls that others interleave.

| component | state | operations | interacts with | hard behaviour | what makes it correct |
|---|---|---|---|---|---|
| pipeline queue (`news/pipeline/orchestrator.py`) | `pipeline_status`, `processing_started_at`, `pipeline_error` of raw rows; processed documents; a batch's shared counters | claim, process, retry, fail, sweep, heal, requeue | everything below | worker threads, concurrent drains, crashes, unconditional updates by `_id` | done only with output; each article claimed once, counted once, eventually settled |
| operators (`admin_panel/api_views.py`, `run_ai_pipeline.py`, `requeue_failed_pipeline.py`) | – | requeue, delete, reprocess, moderate, single batches | the queue, at any moment | commands between two calls of a worker | decisions stick, repairs spare rows in flight |
| leases (`auto_runner.py`, `scrape_scheduler.py`) | a `pipeline_locks` document each | clear stale, update, insert, release, ask | two containers with separate pids | expiry, late holders, judgement by pid across containers, threads that look and clear | one holder but for leases that clearing ended; the ways a running lease ends; taken again after a death or a failing call |
| auto runner, news cycle (`auto_runner.py`, `run_news_cycle.py`) | `_local_guard`, `_wake`, two leases | loop, kick, drain, cycle | starts the queue's drains | lost wakeups, daemon threads, deaths | guard exact, one drain at a time in a process, no lease left behind, queue always drained |
| scrape scheduler (`news/schedule/scrape_scheduler.py`) | `last_run_at`, lease, `_last_scrape_insert_count` | check, scrape, record | scrape runs, queue | check before lock, forced runs, crash before record, a count that admin scrapes share | one scrape per interval unless runs overlap; the count reported is the run's; the schedule goes on |
| scrape run (`scrape_raw_news.py`, `scrape_sources.py`) | raw rows, counters of the run | split, visit, insert | other runs, the source modules | check, fetch, insert; remainders | capped total, true count, fair shares |
| source modules (`news/scrapers/`) | robots cache of the process, counters | list, fetch, check, insert | sites, other processes | exceptions that end a run in one module and are swallowed in another; limits per site and in total | limits and reports right, robots obeyed, feeds served in turn |
| taxonomy (`news/platform_taxonomy.py`) | categories and connections in one settings document | create, change, delete, seed, merge, label | admin views, the scrape run | read one list, read the other, save both | an edit changes what it is about |
| credibility, fact check (`news/credibility/`, `news/factcheck/`) | none that lasts | model, providers, aggregate, combine | pipeline, rescoring | answers arrive in any order, fail, contradict | the order decides nothing; look-ups overturn nothing |
| moderation (`news/moderation_rules.py`, two commands) | `moderation_status` and the fields it is derived from | publish, rescore, decide, backfill | pipeline, feeds, admins | two formulations of one rule, writers with old reads | no doubtful article visible, none in limbo |
| feeds and cache (`news/services/`) | version and pages in the cache | page, rank, fill, invalidate | pipeline, moderation, readers | the collection changes between pages; fill after invalidation | no repeat, no gap, no page older than the last invalidation |
| one-time codes, lockout (`accounts/`) | EmailOtp rows, failure counters, reset sessions, account rows | issue, resend, verify, reset, register, sign in | auth views, admin | read-modify-write everywhere | nothing gained without a code; guesses bounded; a spent code stays spent |
| notifications (`notifications/`, `news/notifications/keyword_alerts.py`) | notifications, keywords, badge | alert, backfill, deduplicate, read, prune | workers, user API, moderators | find, insert, deliver as three calls of several jobs | one alert per key and day, jobs complete, badge right |
| feedback (`news/feedback_service.py`) | reports, unique index | submit, renew, review | notifications | count, find, write; an index that may be missing | rate limit, no two reports of one matter |
| conversations (`news/chatbot/conversations.py`) | chat threads, legacy history | append, trim, list, import, split, delete | chat views | read-modify-write, deaths between two calls | no exchange and no old turn lost |
| chat replies (`news/chatbot/intents.py`, `gemini_chat.py`) | none but the conversation | classify, resolve a follow-up, search, filter, call models, fall back | articles, Gemini | classification against the previous messages, failing models | answers grounded, follow-ups keep their topic |
| user API (`news/user_views.py`) | bookmarks, reactions, preferences | the views of the components above; single upserts | – | – | – |
| push, sockets, text processing, TTS, settings, deployment, migrations, `node_modules` | – | – | – | – | – |

`PROJECT.json` lists the same components with their sources, and every hazard
at its line with the properties that are about it.

## 2. Modules

In the order they were written. The first six are the pipeline's core.

**ArticleLifecycle** is the abstract specification: what the pipeline promises
about one article, with no word about threads. An article that arrived is
queued until settled, it is done only after its document was stored, it leaves
only by deletion, and (in `Spec`) it does not stay queued for ever.

**PipelineQueue** is the queue (`orchestrator.py`, `errors.py`, `storage.py`,
the operator views). Every MongoDB call is one step.

| state | code |
|---|---|
| `status`, `started`, `err` | the row's `pipeline_status`; `processing_started_at` by its relation to the stale cutoff; the class of `pipeline_error` |
| `proc` | the document in `processed_articles`: none, with its initial moderation status, with a moderator's decision, or removed |
| `wpc`, `wdoc` | place and row of each `_worker_loop` thread |
| `dpc`, `limit`, `counted`, `total` | place of each `run_until_empty` or `run_batch` call, its limits and counts |
| `hpc`, `hfound` | place of each `heal_stuck_raw_pipeline` call and the ids it holds between its read and its update |

The worker's actions are `CheckLimit`, `ClaimRow`, `FindNothing`, `Upsert`,
`MarkDone`, the outcomes of a stage or a database call (`StageTransient`,
`StageFails`, `StoreTransient`, `StoreFails`, `Raise`) and `CountResult`; the
drain's are `CountPending`, `CountProcessing`, `Sweep`, `Recount`, `EndBatch`;
the repair job's `HealLook` to `RetryTransient`; then the operators' commands,
`InsertRaw`, time (`GrowStale`) and `Crash`.

**MongoLease** is the protocol of one lease document; `kind` is which of the
three it is. They differ in who clears a stale document before doing anything
(`ClearsFirst`: everybody but the owners of pipeline_cycle, whose document the
API loop clears whenever it looks), in what clearing leaves (`Deletes`), and in
what a watcher does then. Every call is one step, so a document may change
between the read that judged it stale and the delete. `Remote` threads run in
the other container, where `os.kill(pid, 0)` says nothing true about them: to
the other container a live owner may look dead (`MayLookDead`). `Alike` owners
have one pid and thread name, so they write the same tag. `Punctual` owners end
before their lease does; the others may overrun it, since no lease is renewed.
A call may raise (`CallRaises`, the release in the finally clause included) and
a process may die (`Crash`). `robbed` is a history: whose running lease another
thread ended.

**AutoRunner** EXTENDS PipelineQueue and adds who starts drains: the loop, the
kicks of the API and of scraping commands, and `run_news_cycle`. Leases are one
step here, seen from each container: to one in the other container a live
holder may look dead (`LooksDead`, `Free`), and its running lease may be taken
or deleted. `CallRaises` is any call of the runner's own, the release included;
`ProcessDies` and `CycleDies` take their threads, drains and repair jobs with
them and leave rows and leases behind. The race between the read and the delete
of one clearing is MongoLease's (`Lease_v_auto`).

**ScrapeSchedule** is the daily scrape: loops and forced commands in two
containers, the interval check, the lease, the scrape with its inserts, the
process-wide insert count that admin scrapes also write, the record of the run.
A scheduled scrape is bounded by the schedule's limit, an admin's by the limit
of its request (`Cap`). Time is in ticks; `since`, `alone` and `mixed` are
histories: when a scheduled scrape last began, whose look at the interval no
other run has overlapped, and whose count another scrape of the process has
touched. Its scrape is FairScrape seen from outside: up to the limit, or a
failure.

**FairScrape** is one run of `scrape_raw_news` under a total limit, next to
other runs: the shares of `fair_caps_for_ids` with its dictionary semantics for
repeated ids, the targets one after the other, check, fetch, insert.

**SourceRun** is what one target does: nine entry points (`dawn`, `dunya`,
one generic site, all generic sites, one feed, all feeds, gnews, newsdata,
currents) in one process with its robots cache. `source` is the run's local
state: its listings, what it collected, the page in hand and its counters;
`ListGives`/`ListFails`/`ListRefused` and `RequestGives`/`RequestFails` are the
answers of listings and APIs, `PageRefused`, `PageSpared`, `ItemPage` and
`FetchPage` what happens to one page, `PutPage` the insert that wins
or finds the page there. Where the modules differ (who interleaves,
who dedupes, which exception ends the run) the difference is a condition on the
kind.

**Taxonomy** is the settings document. A request is a list of tasks (the
settings page seeds both lists, merges the catalog and refreshes labels); each
task reads its list (`LookUp`, with the edit it will make), reads the other one
(`ReadOther`) and writes both (`SaveBoth`). `fresh` is a history field: nobody
saved since the request read.

**Credibility** holds the pure functions: the outputs the fake-detection model
may give (Space, local model with its own threshold, stub), what each
provider's answer becomes, `Aggregate`, `Combine`. A model's numbers are three
parts of `Unit`; the Space's need not sum to it, and `Combine` tests them
against the threshold as they came and rescales afterwards (`Rescaled`), as the
code does. **FactCheck** runs them with the providers answering in
their order or, outside a worker, in any. **Moderation** sets the rules against
their writers: `Publish` (pipeline), `Rescore` (reprocess_credibility),
`Decide` and `RemoveArticle` (admin), `BackfillRead` and `BackfillWrite` with
the cursor's old document in between. The rules are written twice in the code,
as predicates and as MongoDB clauses, and so are mapped to both.

**ArticleFeed** is a reader paging through the home, Explore, category, search
and Pics feeds while articles are processed and hidden. A page is looked up in
the cache, computed in one step from the collection (`Home`, `Explore`,
`Ranked` are the three page builders) and stored in the cache in another, so
an invalidation may come between. The cache version is `time.time()` in whole
seconds, here `second`.

**OtpCodes** is what an accepted code changes. A worker is a request thread
with a place (`step`) and what it read; `Look`, `Judge`, `FailRead`, `FailSet`,
`Clear` are the calls of every verification, then each operation's own
(`GrantLogin`, `GrantVerified`, `GrantToken`, `UseToken`, `Consume`,
`ResetRead`, `ResetSave`); `Cooldown`, `Invalidate`, `Create` those of every
issue. Time is `OtpLapse`/`CacheExpires` (a code or a counter ends) and `Age`.

**Notifications**: a job is a thread that walks a list of alerts to make:
`FindDuplicate`, `Insert`, `Deliver` for each. Jobs come from workers
(`Process`), moderators, saved keywords (`Backfill`) and admin alerts; the
badge request marks read what predates the account: one update for old rows,
then up to `PruneLimit` unread alerts looked up and marked one by one (`Prune`,
`LookAt`, `MarkStale`), sparing those whose article is gone or unnamed.

**Feedback**: `Submission` counts the last hour, `FindReport`, `InsertReport`
or `Renew`, `Announce`; the unique index may be missing, since
`ensure_feedback_indexes` passes over an error.

**ChatStore**: exchanges by read and write, the trim, the import of the legacy
history turn by turn and its split, with a death after any call. Turns are
opaque.

**ChatReply**: a message is the set of patterns it matches and its search
terms. `DetectIntent`, `Resolve` and `Continues` are the classification and
what a follow-up takes from earlier messages; `Search`, `Relevant`, `Cards` and
`Context` choose the articles; `CallModel`, `Respond`, `FallbackReply` answer.

**MCPipelineQueue** adds symmetry sets. **MCPeople** and **MCContent** hold the
instances of the components above that share no state with each other: each of
their behaviours exercises one component (`focus`) and the others rest, so a run
is the union of the components' runs. The `*_proofs` modules EXTEND their
component and hold the theorems: People_proofs those of MCPeople's components,
Readers_proofs those of Moderation, FactCheck and ArticleFeed, Sources_proofs
those of FairScrape, SourceRun and Taxonomy and of the composition MCContent.
**Arrangement** defines what a sort returns, by the places its members take;
SourceRun, ChatStore and ChatReply sort with it, and Arrangement_proofs says
what they get.

## 3. Runs

| run | instance | shows |
|---|---|---|
| `Pq_alone` | 2 articles (one left failed by an older build), 1 drain with 2 threads, 1 repair job, batch and `max_articles` of 1, one each of crash, transient failure, failing call, operator command | `CountedOnce`, `BatchOvershoot`, `ExclusiveClaim`, `InFlightCounted`, `DecisionSticks` |
| `Pq_shared` | 1 article, 2 drains, 1 repair job, one each of stale row, crash, transient failure, failing call, operator command | `TypeOK`, `DoneHasOutput`, `SweepSparesOwn`, `LifecycleSafe` (the queue implements the life cycle) |
| `Leases` | each of the three leases; 3 owners, one late and in the other container, two of one tag, a watcher in the other container, lease of 2 ticks, one crash or failing call | `TypeOK`, `MutualExclusion`, `LeaseRespected`, `TakenAgain` |
| `Auto_safe` | 1 article; loop, API kick, and a cycle in the other container; one process death, one crash, one failing call of the runner | `AutoTypeOK`, `GuardExact`, `LeaseNotForgotten`, `OneDrainEach` |
| `Auto_live` | 1 article; loop, and a cycle in the other container; one death, one stale row, one failing call of the queue and one of the runner | `Drained` |
| `Sched_loop` | 1 loop, a forced command in the other container, 1 admin request, interval of 2 ticks, limit 1, the admin's 2, one crash, failing record or failing lease call | `TypeOK`, `OncePerInterval`, `CountTold`, `RunsAgain` |
| `People` | codes: 1 address, 2 threads, 3 requests beside a code mailed before, 2 attempts, 2 failures; alerts: 1 reader, 1 admin, 2 articles, 2 keywords, 2 jobs, 3 events, up to 2 rows of an older build, a pruning limit of 1; feedback: 2 threads, 3 submissions over 2 hours; conversations: 2 exchanges, 2 listings, 2 legacy turns, a death; chat: 3 messages, 2 models | `PeopleTypeOK`, `Backed`, `GuessBound`, `WritesStick`, `InboxHonest`, `JobComplete`, `ReportLimits`, `ConversationsKept`, `AnswerKept` |
| `Content` | scrape: 2 runs, 3 articles, lists of 1 to 3 of 2 ids, total 2; sources: 9 kinds, 3 pages of 2 hosts, limit 2; taxonomy: 2 editors, 3 edits; fact check: 3 provider lists, 4 triples of numbers, one of them not summing to one; moderation: 1 article, every outcome; feeds: 3 articles, pages of 1 from batches of 2, 3 pages, 2 changes | `ContentTypeOK`, `FairKept`, `RunKept`, `EditsLocal`, `FactSound`, `RealBacked`, `NoLimbo`, `PagesExact`, `FreshCache` |
| `Lease_v_auto`, `Lease_v_cycle`, `Note_v_match`, `Feed_v_end` | as small as shows it | a sentence of the code that is not true (section 6) |

What the properties of the leases and schedules say:

* `MutualExclusion`: of the punctual owners, two are in their sections at once
  only where somebody ended the running lease of one of them. `LeaseRespected`
  says how that can happen: a clearing thread that judged another document than
  the one it deletes, one of the other container, or one of the same tag; an
  owner itself never takes or ends another's lease. `OneDrain` and
  `HeldThroughout`, the docstrings at their word, are refuted (section 6).
* `GuardExact`, `OneDrainEach`: within one process the drains and repairs that
  the runner starts take turns. `LeaseNotForgotten`: a running lease in the name
  of a live thread belongs to one that is draining, or to one whose release
  raised.
* `OncePerInterval`: a loop scrapes only when the interval has passed since a
  scheduled scrape last began, unless a process died, a record failed, or
  another scheduled run was under way between its look at the interval and its
  start. `CountTold`: the count a run reports is what it inserted, unless
  another scrape of the process came in between.

What the properties of the two composed runs say:

* `Backed`: a password is reset, and an address verified, only with an accepted
  code of that very address and purpose; one code resets once unless requests
  overlapped. `GuessBound`: without overlap a code survives its attempts and a
  counter its failures, no more. `WritesStick`: a spent code stays spent, and an
  account an admin switched off stays off, whatever late saves bring.
* `InboxHonest`: two alerts of one key are a window apart unless two jobs ran
  for that user at once, and the badge counts nothing
  older than the account but alerts whose article is gone or unnamed and those
  beyond the pruning's limit.
  `JobComplete`: a job that ends left a recent notification for everything its
  user deserved when it began.
* `ReportLimits`: no more rows of a user within an hour than the rate, unless
  the user's submissions overlapped; two reports of one matter are a window
  apart, by the index where it could be built; a submission is refused only by
  that index, and only if it is no report, overlapped, or met a row too old for
  its look-up to find.
* `ConversationsKept`: an exchange is lost only to one that had the
  conversation in hand at the same time; every legacy turn is in the history or
  a conversation unless it was deleted, whatever dies where; no more new
  conversations are kept than the limit and the requests that are on their way
  to the trim or died there. `AnswerKept`: every
  card is an article the model was given and, unless alone, matches the
  question, and a follow-up keeps the topic of the last question of its own.
* `RunKept`: a run reports what it stored and keeps its limit, nothing is
  fetched from a host that refuses, the feeds of the rss run get their turns. `EditsLocal`: section 5.
* `FactSound`: the label does not depend on the order of the knowledge
  providers' answers, and they never overturn the model. `RealBacked`: what
  readers see as real was given the threshold's number for Real (or the Space's
  zero) by the model, and is stored with at least the threshold when the
  model's numbers sum to one.
  `NoLimbo`: an article that is hidden was decided, waits on the admin's list,
  or was never fact-checked, unless a stale writer wrote last.
* `PagesExact`: pages do not repeat articles and leave none out behind the
  cursor, for articles that matched all along. `FreshCache`: no cached page is
  older than the last invalidation, unless two fell in one second.

Why the bounds are enough. Two threads on two articles reach every overtaking
the claim allows, and a limit of one makes both overshoot it. With two drains
one article is enough, since rows influence each other only through the counts
and the claim order; those are what `Pq_alone` is about. One failure of a kind
reaches each error path once; the combinations of different kinds are all
there. What a bound could hide is repetition (a second crash during the repair
of the first); the theorems of section 5 have no such bounds. Lease times of
two ticks separate "running", "about to end" and "over". A total of 2 over 3
places has a remainder and an empty share, and two ids over three places force
a repetition. Two requests on one address, one report or one conversation are
what the read-modify-write hazards need, and a third request or event sees what
they left. Three articles with pages of one out of batches of two reach a page
that ends inside a batch, one that ends with it and one that skips a batch.
Every component's share of `People` and `Content` reaches its bounds: the
mutants in `PROJECT.json`, one or more per component, are each found there.

`CHECK_DEADLOCK FALSE` is said where the system stops: runs, requests and
conversations that end when their bound is reached, and a schedule that never
had its first run, which waits for a manual one (`scrape_scheduler.py`,
`_interval_elapsed`).

Some properties hold only in a system less crowded than the deployed one, and
say so in their statement or comment: `CountedOnce`, `ExclusiveClaim`,
`InFlightCounted` and `DecisionSticks` are about one drain at a time (the admin's
pipeline views take no lease, so two drains are possible); `GuessBound`,
`ResetOnce`, `DedupeHolds`, `RateHolds` and `LostOnlyInRace` except users whose
requests overlapped, and `OncePerInterval` and `CountTold` runs that overlapped,
which a history variable remembers, because the code's counters and checks are
not atomic. For the excepted overlaps nothing is claimed: the hazards of
`PROJECT.json` that consist of such an overlap carry a note instead of a
property.

The initial states of `People` are those of one component at a time, and of the
codes and alerts of older builds a part: a code mailed before is a reset code of
an account; old alerts are there only with old articles and saved keywords, and
of two the second is young and names its article. The theorems have no such
restriction.

## 4. Fairness

* `Auto_live`: weak fairness of each thread's and each drain's own steps, of
  the loop's waits (they time out), of the lapse of a lease (MongoDB compares
  `locked_until` with the clock). No fairness of kicks, new rows, deaths or
  operators, and none of starting a drain: `Drained` is what shows the loop
  starts one. The number of external cycles is bounded, since each runs once;
  an endless sequence of cycles would itself drain the queue.
* `Leases`: time passes and the callers' loops go on.
* `Sched_loop`: the hourly check of the loop, the scrape's answers, time and
  the lapse of the lease. Admin requests and crashes have none.
* `People` and `Content` state none: requests, jobs and scrape runs are begun
  by users and commands, may die at any call, and nothing retries them, so the
  code promises nothing that must eventually happen there. `JobComplete` says
  instead what is true when a job does reach its end.

## 5. Proofs

No proof uses the bounds of the runs: the theorems hold for any number of
threads, articles, users, requests, runs and events. All assume only the
ASSUMEs of their module and what the theorem itself states. The ASSUMEs are what
the deployment gives: sets that are finite, limits that are numbers, disjoint
names; `Keywords # {}` and `m.marks # {} \/ m.terms # {}` say that there is
something to match and that an empty message is refused before the chat; the
default categories name known subcategories and the catalog known URLs.

For each component the pattern is the same: an inductive invariant that adds
to the properties what a thread between two of its calls relies on, one lemma
per action (or per group that ends alike), and a temporal step.

The queue and its schedules:

* **PipelineQueue_proofs**. `TypeCorrect`; `DoneHasOutputAlways`;
  `SweepSparesOwnAlways`; `ImplementsLifecycle`. `DoneHasOutput` is not
  inductive: a late worker or repair job sets done by `_id` whatever the row
  says. The strengthening is that a thread that is about to mark its row done
  has stored its document, and that every id the repair job found as finished
  had one. `SweepSparesOwn` rests on: a drain outside a batch has no live
  thread. The refinement maps pending and processing to `queued`; every action
  is a step of `ArticleLifecycle` or a stutter.
  `BatchOvershootAlways`: what a batch has counted and the threads that passed
  the limit check (`Busy`) are below its limit and a pool together (`BatchInv`);
  the pool is what each check can add once.
  `ExclusiveClaimAlways`, `InFlightCountedAlways`, `DecisionSticksAlways`,
  `CountedOnceAlways` state `[]InTurn`: at any moment one drain and one repair
  job at most, whoever runs them; and `MaxAging = 0`: no row beyond the cutoff.
  That is the system the code's comments describe and the run `Pq_alone` an
  instance of. The code provides it only in part: AutoRunner_proofs' `GuardTurns`
  has it for the loop and the kicks of one process; news cycles, commands, the
  admin's run view (`api_views.py:577`) and the dashboard's repair
  (`analytics_snapshot.py:183`) ask for neither guard nor lease.
  `DecisionSticksAlways` also states, as `[][OnlyDecides]`, that operators do
  nothing but decide on outputs: an operator who requeues a row has its output
  written anew. With two drains at once or a stale row all four fail, since
  claims are not re-checked when a result is written. `LoneInv` says that every
  processing row is fresh, that the row of each live thread says processing and is its own, and that a stored output
  belongs to a done row or to the thread about to mark it.
* **AutoRunner_proofs**. Lemma `KeepsQueue`: each step of AutoRunner is a step
  of PipelineQueue or leaves the queue alone (a death is a `Crash` or a
  `HealStops`), so `RunnerDoneHasOutput` and `RunnerBatchOvershoot` follow from
  the queue's theorems. `GuardExactAlways`: at most one thread of a process is
  inside, and the guard is the set of their processes. `GuardTurns`: a thread
  drains or repairs only at its place in the try block (`Placed`), so with the
  exact guard the drains and repairs of a process take turns, whatever leases
  lapse or are robbed, calls raise and processes die. `LeaseNotForgottenAlways`,
  `AutoTypeCorrect`. None has a hypothesis on containers, leases or failures.
* **MongoLease_proofs**. `LeaseExcludes`, for each of the three leases with its
  clearing and its watchers. The invariant says that a punctual owner that
  holds and was not robbed has the document, unexpired and in its name (`Own`).
  `LeaseRespectedAlways` needs no punctuality: no document names a process that
  is yet to start, and a clearing thread that judged a running document saw the
  pid of a process of its own container that is gone (`Judgement`); so if it
  ends a live owner's lease, the document is another one now or the owner is
  where its pid is not seen.
* **ScrapeSchedule_proofs**. `OncePerIntervalAlways` for any number of loops,
  commands and admin requests: while a loop is `alone`, no scheduled run has
  begun since it looked, so `since = Interval` when it starts; and while nothing
  died and no record failed, the recorded age is at most `since` unless a
  scheduled run is under way (`Waited`). `CountToldAlways`: a run that is not
  `mixed` finds in its process's count what it wrote there, or the zero of its
  start (`OwnCount`). `ScheduleTypeCorrect`.

**Sources_proofs** is about what fetches the news:

* `FairKeptAlways`, from `CountTrueAlways`, `TotalCappedAlways` and
  `ShareKeptAlways`. The invariant bounds the sum of a run by the shares of the
  targets before it: `at * (Total \div n)` plus the extra places passed. So the
  remaining total is never less than the share of the next target, and the
  code's `min(per_source, remaining)` never cuts it, for repeated ids either,
  since the dictionary then keeps the smaller share.
* `EditsLocalAlways`. What is saved was read and computed calls before, so the
  property is not about the save. The invariant: while nobody else has saved,
  what a request holds keeps every row outside its target, and the other list
  it read is still the document's (or was seeded where there was none). One
  lemma per list shows that every edit is about its target only.
* `TaxTypeCorrect`. The document is what a request computed several calls
  before, so its type needs that of everything a request holds: both lists it
  read, the edit, the tasks left (`RowsTyped`).
* `SourceTypeCorrect`, `RunKeptAlways`. `RunInv` has a part for each claim: the
  rows a run stored are its counter, with room for one more between check and
  insert; every fetch was allowed by the robots answer of its host; the entries
  tried and queued together are what the feeds listed, turn by turn. The last
  one rests on what `Interleaved` returns: a rearrangement of the listed entries
  (**Arrangement_proofs**: the ranks of a finite set, and that a sort by rank is
  a bijection that keeps the order), on which turns never go down.
* `ContentTypeCorrect`. Each behaviour of the composition is one of every
  component (`ContentParts`), so the type invariants of all six hold in it.

**Readers_proofs** is about what judges and serves them:

* `RealBackedAlways`, for any numbers of the Space. `RealBacked` alone is not
  inductive: the status decides visibility and the writers set it without
  looking at the numbers. The strengthening is about the label: an article
  labelled Real has the threshold behind it or a zero, which `Combine`
  guarantees whatever the aggregation said, and a visible article is labelled
  Real.
* `NoLimboAlways`. An article that the rules wrote last has the status they
  give its label, or never got one (`Ruled`); and that label is one of the
  three, since an answer of the fact check without a label never decides
  (a lemma about `Combine`).
* `CheckTypeCorrect`, `ModTypeCorrect`, `FeedTypeCorrect`. Numbers
  within 0.02 of a whole stay, others are brought to parts of it (`PartBounded`,
  `RescaledTyped`), and each page
  builder returns a page and a cursor of the session's type.
* `FactSoundAlways`. `heard` is a sequence of look-up results as long as only
  look-ups were asked (`CheckInv`); the rest are lemmas about `Aggregate` for
  sequences of any length and order: what a Fake, a Suspicious and a Real
  model verdict become.
* `PagesExactAlways`. `FeedInv`: down to the cursor a session was given every
  article that matched all along and nothing behind it. Each page builder is
  shown to return a sound page: what it shows is behind the cursor it was asked
  with, not behind the one it returns, and nothing between is left out.
* `FreshCacheAlways`. A key that is still the current version was made after
  the last invalidation, so what is stored under it was read after it, unless
  two invalidations shared a second (`CacheInv`).

**People_proofs** is about what belongs to an account:

* `OtpTypeCorrect`; `VerifiedBackedAlways`, `ResetCodedAlways`,
  `UsedStaysAlways`: the parts of `Backed` and `WritesStick` that need no
  history. What has to be added is what a request between two calls no longer
  looks at: past `Judge` an accepted code of its own address and purpose exists,
  a reset session was given for an accepted reset code, and the verified flag
  that a reset writes back was earned when read (`CodeInv`).
* `GuessBoundAlways`, `BackedAlways`, `WritesStickAlways`, for addresses
  without overlapping requests. `OrderInv` says of such an address: one request
  at a time serves it; a record has counted its wrong guesses and is spent once
  accepted; a counter has its failures; what the request read is still so; and
  its resets, its live sessions and what its request still owes are at most its
  accepted reset codes (`Covered`). Requests for other addresses (`Untouched`,
  `Spectator`) and time change none of this.
* `ReportLimitsAlways`. A user who never submits twice at once has one
  submission under way, with room for its row (`Single`), and with the index no
  two rows are of one matter. A failed insert met a row that the look-up before
  it did not see, for its age or because it came between. The hour's bound for every window, not just the
  last, follows since rows are only appended with the present hour.
* `InboxHonestAlways`, `JobCompleteAlways`. `NoteInv`: whoever is at the head
  of a list and was looked up has no duplicate unless two jobs share the user,
  everyone in the goal was told or is still on the list, and what is on the
  list is younger than the account; a listing has looked at every unread alert
  that is not on its own list or beyond its limit, and what it spared stays
  spared, since the article of an id is never written an earlier time.
* `FeedbackTypeCorrect`, `NoteTypeCorrect`, `ChatTypeCorrect`, and
  `PeopleTypeCorrect` for the composition, each of whose behaviours is one of
  every component.
* `ConversationsKeptAlways`. `ChatInv`: an exchange that was not raced is in
  the conversation and in every copy that others hold of it; copies of one
  conversation differ in removed legacy turns only; a turn that no import still
  has to do is in a conversation or was removed with one. The bound on the
  conversations is not inductive, since a trim drops what an earlier look found
  and may overlap with others: `Trimmed` says for every set of requests about
  to drop that, with their drops taken as done, what is left is within the
  limit and the requests still on their way.
* `ReplyTypeCorrect`, `AnswerKeptAlways`. Every earlier message was taken for
  what it would be taken for now (`Fits` in `Talk`), so the topic that
  `LastNews` finds is the same one whenever it is asked; what is shown comes
  from the context at every step (`Underway`). The proof showed that a greeting
  with a blocked word has no topic, which `TopicKept` says.

Only model-checked:

* Liveness (`TakenAgain`, `Drained`, `RunsAgain`), which is out of the
  prover's reach.
* What recursive definitions compute for every input, the pure text functions
  and the four statements of section 6 that runs refute.

## 6. Divergences between documents and code

Shown by runs:

* `Lease_v_auto`: two holders of "only one drain" (`news/pipeline/auto_runner.py:80,86`).
* `Lease_v_cycle`: the pipeline_cycle lease is not "Held for the duration of
  run_news_cycle" (`auto_runner.py:190`): the API loop looks the cycle's pid up
  in its own container and deletes the lease of a cycle that runs in the other
  one (`auto_runner.py:173`).
* `Note_v_match`: nobody is notified when an article matches, because the
  look-up of a follower asks for a field that does not exist and the exception
  is swallowed (`news/notifications/keyword_alerts.py:57`); only the backfill
  after saving keywords makes alerts.
* `Feed_v_end`: the personal feed ends before its last matching articles
  (`news/services/article_query.py:440`).

Seen while translating; the models do what the code does.

Queue and schedule: the sweep takes rows that a thread of another drain is
processing (`orchestrator.py:164,168`); the repair job marks a row done that
was started a moment ago (`orchestrator.py:220,255`); the drained flag of the
report comes from two counts made one after the other (`orchestrator.py:459`);
`requeue_transient_failures` moves rows by `_id` that may have left failed
(`orchestrator.py:196,207`); `requeue_failed_pipeline --all` also requeues done
articles (`requeue_failed_pipeline.py:17,22`); the cycle lease is looked at
before a drain and not by the cycle, so two ML workers are possible
(`auto_runner.py:242`); a release that raises leaves the lease in the name of a
thread that lives (`auto_runner.py:117,291`), and the other container of a live
drain may take its lease; the "Hard policy: one scheduled scrape every 24 hours"
(`scrape_scheduler.py:23`) and "at most once every 24 hours"
(`run_scheduled_scrape.py:16`) do not bind the command, which forces its run
(`:20`), nor two runs that overlap, since the interval is checked before the
lock (`scrape_scheduler.py:256`); the number of articles it returns,
"(<= configured limit)" (`:214`), is read from a count of the process that an
admin's scrape, with a limit of its own up to 200 (`api_views.py:620`), may have
written (`:227`). `OncePerInterval` and `CountTold` name these as exceptions.

Accounts: failed password sign-ins are never counted, although
`services/security.py:20` says "IP + identifier lockouts for login"; the lockout message says
"Request a new code." and a new code is refused as well; a reset session and
an account row are read and written back in different calls, so two resets may
both succeed and a reset may undo an admin's deactivation or deletion (the
histories `overlap` mark exactly these).

Notifications and feedback: the badge still counts alerts about articles older
than the account when more are unread than the pruning looks at, or when the
article is gone or unnamed (`user_scope.py:98,101`); a delivery that fails after the insert is never
repeated, and an exception of the channel layer ends the rest of the job; a
report repeated within the window resets its review and is not counted against
the rate; one repeated after the window meets the unique index and ends in an
error.

Moderation and verdicts: `reprocess_credibility` leaves the status of the old
label; the backfill command writes over an admin's decision by what its cursor
read earlier; an admin's "review" of a Real article hides it and lists it
nowhere; moderation does not invalidate the Explore cache, and two
invalidations within a second share a version; a Space verdict Real with
probability 0 is shown (`combine.py:37`), and so is one whose numbers pass the
threshold before they are rescaled and not after (`combine.py:58,69`,
`client.py:186,203`); Google's own verdict is recorded as
"skipped", and `no_hits` becomes "inconclusive" before the branch that is about
it.

Chat: deleting the history leaves the conversations; the split deletes an
import before its turns are stored again; two listings at once import twice; a
deleted conversation is created again by the exchange that was under way;
follow-ups continue a message that was refused (`intents.py:302`), and without
search terms are taken for off topic.

Sources and taxonomy: saving one list writes back the other as it was read;
catalog connections that an admin deleted come back with the next settings
page, and a connection's own name is overwritten by the catalog's;
`update_connection` does not compare URLs; disabled RSS connections are still
read by the all-feeds run (`scrape_sources.py:48,61`); a host whose robots.txt
could not be loaded stays refused for the life of the process; an exception of
a listing ends the whole run of `dawn` and `dunya` and is swallowed elsewhere.

## 7. Abstractions

* `update_many` is one step; MongoDB may interleave it row by row.
* Rows age one by one (`GrowStale`), not by a common clock.
* The content of an article, of a processed document and of an error are
  reduced to the classes the code tells apart. For the queue, the alerts, the
  cache invalidations and the log lines of a worker are left out; the code
  swallows their errors.
* A URL that was deleted from `raw_articles` is not scraped again.
* `PIPELINE_AUTO_MIN_PENDING` is 1 and `PIPELINE_AUTO_ON_INTERVAL` true (the
  defaults). No caller passes `max_articles` today.
* The admin's pipeline views behave, for the queue, as a drain under no lease
  (`StartDrain`, `StartSingleBatch`), or as a cycle that got no lease.
* `external_pipeline_cycle_active` also looks at the scheduled_scrape lease; in
  AutoRunner the cycle lease stands for both.
* The model's numbers are three, as all models in use give; `combine.py` also
  fills up two (`:63`) and one (`:66`), and the numbers are whole parts of `Unit`.
* FairScrape has only runs with a total limit, which every production caller
  sets. The candidates of a target are a set; their order is the site's.
* SourceRun: HTML and its extractors are one answer (links, or a page that is
  usable, unusable or fails); a robots.txt refuses all pages of a host or none.
* Codes do not collide, and a client keeps its IP address; the per-view
  throttles only refuse requests and are left out.
* ArticleFeed keeps search words apart from the other conditions of a query and
  has one cache for all processes. Only the API service of `docker-compose.yml`
  sets `USE_REDIS`, so the invalidations of the pipeline container reach the
  readers only where its settings name the same Redis.
* The finds of one feed page are one step; a ranking by score may pick any of
  the candidates. `Content` exercises the home, category and search feeds: the
  Explore feed is the category feed's builder without a filter, the Pics feed
  the search's.
* A text in ChatReply is the patterns it matches and its terms; which strings
  match which pattern is not modelled. `Score` leaves out anchor aliases and the
  bonus of a question's lead, on which no property depends.
* OtpCodes' `Judge` makes the saves of the last attempt and of the used flag
  one step: a request that reads the row in between finds its attempts spent,
  and is refused as it would be for a used code.
* Categories' names, sort orders and kinds of connections other than RSS are
  left out of Taxonomy.

## 8. Not modelled

* Push and socket delivery (`fcm.py`, `consumers.py`, `reengagement.py`): one
  upsert or one call each; whether a message arrives is outside.
* Social sign-in, the reset by an e-mailed link, profile edits, follows, the
  e-mail transports and the throttles of `accounts/`.
* Channel preferences and device tokens of `notifications/`: single upserts.
* Bookmarks, reactions, profile, statistics, category counts and related
  articles: single queries or upserts.
* Text processing (summaries, categories, keywords, entities), query building
  of the fact check and the numerical score: functions of one text, whose
  results the modules above take from all values.
* Text to speech, settings, migrations, scripts, vendored code.

What would come next, by the harm a mistake does: the drains that ask for
neither guard nor lease (cycles, the admin's run view, the dashboard's repair)
next to the loop, and what is left of `InTurn`'s theorems then; exclusion of the
leases with a corrected delete and a holder that names its container.
