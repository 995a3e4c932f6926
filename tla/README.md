# Formal models of feedbase

Feedbase is a multi-user RSS reader: a FastAPI application (`src/app`) on
PostgreSQL, with background jobs that poll the feeds, send digests and deliver
notifications. These modules specify the parts of it in which several
processes, threads, database sessions or requests meet. TLC checks them on
small instances, and TLAPS proves the invariants that matter most for every
value of the constants.

## 1. Inventory

Paths are relative to `src/app`.

| Part | State | Operations | Interacts with | What is hard |
|---|---|---|---|---|
| Job queue, `lib/jobs/adapters/db_adapter.py` | table `job_queues`; per process a scheduler thread, a pool and its queue | `enqueue`, `enlist`, `_poll_and_dispatch`, `_sweep_stale`, `_run_job`, `start`, `stop`, recurring ticks | every part that calls `perform_later` | several processes on one table, reads without locks, crash between claim, execution and commit, slow jobs |
| Outbox, `lib/jobs/handle.py` and `enlist` | the job row and listeners on the caller's session | `with_session`, `_promote`, `_discard` | OPML import | a row that is committed in one transaction and hidden in another |
| Celery adapter, `lib/jobs/adapters/celery_adapter.py` | the broker's | `enqueue`, `dispatch_job` | as the job queue | its retry rule differs from the database adapter's |
| Feed polling, `services/feed_{fetcher,poller,recovery,parser}.py`, `jobs/feed/` | rows of `feeds` and `articles`; a session's unflushed and uncommitted changes | `FeedFetcherService.run`, `FeedPollerService.run`, `FeedRecoveryService.run` | run as jobs, so concurrently and repeatedly | one transaction over many HTTP requests, stale rows, locks, a unique constraint, partial failure |
| Subscriptions and folders, `services/feed_subscription.py`, `services/folder.py` | `feeds`, `feed_subscriptions`, `folders` | subscribe, move, unsubscribe, create, rename, delete | enqueue `FetchFeedJob` | job runs before the transaction it belongs to commits; check, then insert |
| OPML, `services/opml_importer.py`, `opml_exporter.py` | the same tables | import, export | outbox | failures counted per feed inside one transaction, a session that an error has broken |
| Article status, `services/article.py`, `services/fever.py`, `jobs/article/sweep.py` | `article_statuses`, `articles` | update, Fever marks, sweep | web and Fever clients | two requests create one row; commits that are missing |
| Digest, `services/article_digestor.py` | `users.preferences` | one run for all users, `update_preferences` | mailer | mail leaves before the state that says so is committed; one JSON column is written as a whole |
| Article list, `services/article.py`, `lib/pagination/filter.py`, `lib/database/paginator.py` | the cursor a client holds | one page after another | every part that writes articles | rows that change between pages, ties in the order |
| Slugs, `lib/database/mixins/friendly/` | `articles.slug`, unique | before each flush | feed polling | a free slug is looked for and inserted in two statements |
| Fever API, `services/fever.py`, `repositories/article.py` | what a client has copied, its `max_id` or `since_id` | pages of items, unread ids, marks | feed polling, subscriptions, article status | ids are given at construction and seen at commit; errors are answered as empty pages |
| Refresh tokens, `lib/auth/backends/jwt.py` | `auth_refresh_tokens` by family | login, refresh, logout, sweep | request handlers | rotation in one session, successor in another |
| Sessions and one-time tokens, `lib/auth/backends/session.py`, `lib/auth/helpers/ott.py` | their tables | login, authenticate, logout, generate, consume, sweep | request handlers | check, then set |
| Notifications, `lib/notifications/` | queues of subscribers, records, push subscriptions | publish, subscribe, deliver, deliver_later | jobs | subscribers come and go, jobs repeat deliveries |
| List of articles in the browser, `assets/src/js/extensions/pagination.0.1.0.js` | cursor, flags, the elements of the list, requests on their way | load more, set a filter or search, reload, silent refresh | the article list, server-sent events | answers come in any order and nothing cancels a request; two ways to write one list |
| Reading pane and annotations, `assets/src/js/alpine/article-pane.js`, `services/article_annotation.py` | the selected article, popover and picked text, annotations shown; table `article_annotations` | select, pick, save, edit, delete, show | the list, which restores the selection | answers for an article that is not shown any more |
| Database layer, `lib/database/` | sessions | repository operations, `Transaction` | everything | who commits, and what a rollback expires |
| Everything else: forms, schemas, views, controllers, middlewares, authorization policies, throttling, storage, i18n, mail, logging, the rest of the front end | none that is shared, or external | | | reached well by unit tests |

What makes each part correct:

* **Job queue.** One worker at a time executes a job. A job that has an outcome
  keeps it. A job that can be executed gets an outcome, whatever stops or dies.
  Attempts are counted once each.
* **Feed polling.** The stored ETag never claims articles that are not stored,
  or a 304 would hide them for good. Only real, repeated errors make a feed
  DEAD. One feed, or one poller, cannot keep the others from their articles.
* **Outbox.** A job is not executed any more once its caller has rolled back, and
  is executed if it committed.
* **Tokens and sessions.** A revoked family stays revoked, a family has one
  active token, an ended session stays ended, and the sweep removes what is
  stale and nothing else.
* **Subscriptions, folders, import.** Constraints hold whoever races, a
  subscription ends only when the user ends it, what is reported is what
  happened, and a feed that is subscribed to is fetched.
* **Article status, list, Fever, slugs.** A column changes only to what a request
  asked for; a walk through the pages lists everything once; a client that copies
  articles ends up with all of them; equal titles do not keep a feed's articles
  out.
* **Digest, notifications.** At most one digest a day unless something failed or
  overlapped; a stream that stays connected gets every message once per
  execution, up to the bound of its queue, and a notification that arrives
  while others are marked as read stays unread.
* **Front end.** A list that came to its end shows its view, once each and in
  order; a refresh shows what the server answered. An annotation is stored with
  the article whose text was picked, and the pane shows those of its article.

`PROJECT.json` lists the hazards behind these at the lines where they bite.

## 2. Modules

| Module | What it is |
|---|---|
| `JobContract` | abstract: what `perform_later` promises |
| `JobQueue` | the database job queue: table, scheduler threads, pools, crashes |
| `JobQueueRefinement` | refinement mapping from `JobQueue` to `JobContract`, inductive invariant |
| `JobOutbox` | extends `JobQueue` by jobs that are tied to their caller's transaction |
| `JobQueueProofs` | proofs about these four |
| `FeedPolling` | polling, fetching and recovering feeds in concurrent database sessions |
| `FeedPollingProofs` | proofs about it |
| `Subscriptions`, `SubscriptionsProofs` | subscriptions, folders and the OPML import of one user's overlapping requests; proofs |
| `ArticleStatus` | status rows, Fever marks and the article sweep |
| `ArticleDigest` | digest runs and the preferences form |
| `ArticleList` | the walk through the pages of the article list |
| `FeverSync` | a Fever client that copies articles, page by page |
| `Slugs` | slugs of new articles in concurrent flushes |
| `ListView` | the list of articles in the browser: pages, resets, refreshes |
| `ArticlePane` | the reading pane and its annotations |
| `ReaderProofs` | proofs about `ArticleList`, `FeverSync`, `Slugs`, `ArticleDigest`, `ArticleStatus` |
| `FrontEndProofs` | proofs about `ListView` and `ArticlePane` |
| `MCReaderProofs` | `MCReader` implements each module it composes |
| `Notifications`, `NotificationsProofs` | delivery jobs, the event emitter and its streams, inbox and push subscriptions; proofs |
| `Accounts` | accounts, sessions, one-time tokens and their sweep |
| `RefreshTokens` | rotation and revocation of refresh tokens |
| `AuthProofs` | proofs about these two |
| `MCJobQueue`, `MCJobOutbox`, `MCFeedPolling`, `MCSubscriptions`, `MCReader`, `MCAuth` | instances for TLC |

`MCSubscriptions`, `MCReader` and `MCAuth` choose a *scene* at the start and
stay in it: `MCReader` runs one of its eight modules, no two of which share a
variable, and `MCAuth` one of the two backends, of which a deployment
configures one. A scene shrinks the state space to what can interact; all
actions of all modules are in `Next`.

### JobQueue

One `DBAdapter` per process `p`. `phase[p]` and `batch[p]` are the scheduler
thread (APScheduler runs poll and sweep in an executor of one thread, so one
after the other), `backlog[p]` the queue of the `ThreadPoolExecutor`, and
`task[p][t]` a worker thread with the ORM object as it loaded it. `status`,
`attempts` and `timer` are the columns of the row; `timer[j]` says that the
instant the row waits for (`scheduled_at`, or `started_at` plus the stale
timeout) has passed.

* Every transaction is one action, or two where it reads without a lock and
  writes later: `PollSelect`/`PollCommit`, `SweepSelect`/`SweepCommit`,
  `RunStart`/`RunFinish`. Between them everything else can happen.
* Writes follow SQLAlchemy: a column is written if the session changed its
  value relative to what it loaded (`RunFinish` keeps a status that a sweep
  changed when the verdict equals the loaded one), an UPDATE of a vanished row
  raises and rolls back (`PollCommit`, `SweepCommit`), a row is reloaded after
  the commit expired it (`Dispatch`).
* `Stop` is `DBAdapter.stop`, which waits for the scheduler and the pool;
  `Restart` needs `Drained`. `Crash` kills a process at any point.
* `Broken` rows cannot be resolved, or their `migrate` raises.

Not modelled: arguments, errors and log lines. A recurring job is an
`Enqueue`; `enlist` is in `JobOutbox`.

### JobOutbox

`perform_later(...).with_session(session)` on the database adapter. The module
extends `JobQueue` by one variable, `caller[j]`: how far the session that
enlists `j` has come. `PerformLater` commits the row as ENQUEUED, `Enlist`
registers the two listeners, `Flush` sends the UPDATE to PENDING, which locks
the row (`Pinned`), `CommitCaller` makes it visible. `PromoteRead` and
`PromoteWrite` are the two halves of `_promote`, `Discard` is `_discard`. A
session that is closed with neither a commit nor a rollback (`CloseSession`:
SQLAlchemy's `Session.close` fires no listener) leaves the row as it is. Since
each listener is registered once, the one for a rollback is still there after
the commit (`RollBack` from `"kept"`). A process that is killed takes its callers
with it; one that was killed between the caller's commit and the promotion leaves its
caller `"orphaned"`, and the row PENDING for good. The queue's actions are those of
`JobQueue`; a poll skips pinned rows, a sweep and a worker's outcome wait.

The sessions are synchronous ones. With an `AsyncSession`, `enlist` reads
through its `sync_session` outside the greenlet that SQLAlchemy needs, and
raises; the OPML import, the only caller in the application, counts that as a
failed feed.

### FeedPolling

A worker `w` runs one job in one session. `read[w]` is what the session
loaded, `heard[w]` what the origins answered, `insert[w]` the articles its next
flush inserts, `added[w]` and `locked[w]` what it has flushed and not
committed. `Fetch` is `FeedFetcherService.run` on one feed up to its flush,
`Flush` the flush of `bulk_create` or `bulk_update`, `Commit` the single commit
of the job with the updates it flushes, `Close` the end of the session, with or
without a commit before it. `Stored` merges columns as SQLAlchemy writes them:
only the changed ones, so two sessions can overwrite each other's columns one
by one.

The database is READ COMMITTED PostgreSQL: a flush waits for row locks and for
an uncommitted row with the same unique key (`Waits`), a duplicate key fails
the flush and rolls the session back (`Clashes`), and a cycle of waits is
broken (`Deadlock`).

A document is a version number, its ETag the same number, its entries
`Entries[f][v]`. `Last-Modified` behaves as the ETag does and is left out, as
are titles, bodies and notifications. `DeadAfter` stands for the 10 in
`feed_fetcher.py:61`, so the runs can reach it.

### Subscriptions

One user's requests `r`, each a database session and a transaction. `rows` are
the committed rows of `feeds`, `feed_subscriptions` and `folders`, `own[r]` what
`r` inserted and has not committed, `want[r]` the row it has decided to write
after its checks. The checks and the write are separate actions, with the
other requests in between. `Insert` waits for an open transaction with the same
key (`WaitsFor`), is refused when the key is committed or a reference is gone
(`Refused`), and a cycle of waits is broken (`Deadlocked`).

* `LookUp` and `Insert` are `subscribe_to_feeds`, url by url; the job it enqueues
  is committed before the subscription, and `RunFetchJob` may come first.
* `WalkFolder`, `WalkFeed` and `Insert` are the importer on the outlines of
  `Document`. `with_session` raises after a new feed's row and job
  are there, so that the feed counts as failed. An insert that is refused leaves
  a session that needs a rollback (`broken`): later feeds fail, a later folder or
  the commit ends the import.
* `BeginDelete` is `delete_folder` up to the query of `clear_folder`, `Delete` its
  updates, the deletion with `ON DELETE SET NULL`, and the commit.
* `OthersSubscribe` are other users, who share the table `feeds`.

### ArticleStatus

Clients `c` of one user: `"web"` is `update_article_status`, the others are the
Fever marks. `LookStatus` is the query, `CreateStatus` or `UpdateStatus` the write.
`Written` and `Dated` write a column, and its date, when its value differs from
the one *loaded*, into the row as it *is*, which is what SQLAlchemy sends.
`mark=group` inserts without a commit: such rows are in `own[c]` until an update
of another article commits them, or are dropped. `SweepDelete` and `SweepEnd` are
the sweep, which holds locks and never commits.

### ArticleDigest

Runs `j` of the job, which take the users one by one: `MailUser` sends,
`FlushUser` ends the savepoint, which locks the row, `CommitRun` is the one commit at the end.
`copy[j]` is the JSON column as the run loaded it; `LoadPrefs` and `SavePrefs`
are a form that loads and writes the same column. `upset` is a history variable: the
users for whom a date was lost or not seen. A mail that fails, and a user with nothing to
read, are `SkipUser`.

### ArticleList

`rank[i]` is where article `i` stands in the order of the filter, or `Absent`.
`NextPage` is a request: it keeps nothing but the cursor, the ordering values and the id of
the last row. `Change` is any other transaction.

### FeverSync

`Mint` builds an article, which gives it its uuid7; `CommitItems` is the commit of
the session that holds it, so ids appear in any order. `Leave` and `Return` are the
user's subscription to its feed. `PageBack`, `PageOn` and `FetchIds` are the three kinds
of a request for `items`, each with the client's use of the answer: `Page` is the
query, with its descending order and limit, `Answered` adds the exception that
`handle_request` catches and answers with no items. `owed` is a history variable: what was there when
the walk began and never left.

### Slugs

`BeginFlush` is the flush of one `bulk_create`. A `FetchFeedJob` makes one in its
transaction; `FeedPollerService` fetches one feed after another in one session and
commits once, so a session here makes any number of flushes before `CommitSlugs`.
`ChooseSlug` is one round of `_on_before_flush`: the first variant of the
candidate which is neither claimed in this flush nor visible; what the same transaction
flushed for other feeds is visible to it. `InsertOne` waits for the session that
inserted the same slug; `InsertRefused` is the unique index, and costs the session all
of its feeds.

### ListView

The other side of `ArticleList`: `mark`, `more`, `loading`, `total` are the
controller's `state`, `view` its `extraParams`, `list` the children of the list
element, by key. `asked` and `asking` are requests for pages and for a refresh
that are on their way; each is answered from the table as it is then.
`LoadMore` is the observer's or the trigger's call, `Reset` is `setParams` or `reload`,
`PageArrives` and `PageFails` the two ends of a page, `RefreshArrives` the
`_reconcile` of a silent refresh, element by element (`PutAt`). `Relist` is any
transaction that changes what a view lists. `calm` and `lasting` are history
variables: nothing from before the last reset, and no refresh that dropped a card of
the view or brought one from beyond the mark, has disturbed the list; what the view has
listed since then. A card can be in the list twice, when a page from before a reset
follows one of the new view; `_reconcile` knows one element of a key, moves that one and
leaves the others. `RefreshMirrors` says so: the cards of the answer come first, each in
its place, and behind them only such copies can be left.

### ArticlePane

`Select`, `Restore`, `ToggleVisibility`, `ToggleMode`, `Pick`, `OpenDetail` and
`Dismiss` are what the user, or a list that has loaded, does; each carries the
closing of the popover and the request for annotations that the code makes
with it (`Render`, `ReadIf`). `Save` and `Alter` send a request, `Saved`, `Edited`,
`Deleted` and `Failed` are its answer with what the service has committed, `Recounted` is the
end of the request for the count that follows it, and `ReadEnds` a list of
annotations that comes. An annotation is the article of its row and the article its
text is from; one that is saved twice counts once. `passed` and `overtaken` are history
variables: the last list that came was asked for before another that had come.

### Notifications

`stage[m]` is where the job that delivers `m` stands; a transport that raises ends the
execution if it is critical (`AfterFailure`), and the job is tried again.
`PublishOne` is one round of `publish` over the emitter's live list `subs`, by
index, as Python's iterator does, in a worker's thread, while `Subscribe` and
`Disconnect` change that list in the event loop's. `LoadUnread`/`MarkAllRead` are
the two halves of read-all. `LoadPushes`/`SendPushes` send to the devices and
prune the endpoints that are gone. `commits` says whether the router was given a session
that commits: the one it opens itself does not.

### Accounts

Requests `r` in steps, `call[r].at`: between two steps everything else can happen.
`Authenticate` reads, `CommitExpire` or `CommitSlide` commit the columns assigned;
the route is a further step. `Aged` compares the signature of the cookie, which
nothing renews. Handlers that use the result of an un-awaited `s.get` or `s.exec`
fail where they use it. `SweepRead`/`SweepCommit` are `SessionBackend.sweep`. Time
is in units that no request spans. `RegisterRead` is the library's route; the
application does not mount it (`registration_enabled=False`), and no property
depends on it.

### RefreshTokens

Requests `q` on the rows of `auth_refresh_tokens`: `Present` reads, `Rotate`
commits the rotation, `IssuePair` the successor, in another session;
`RevokeFamily` and `LogOutCommit` revoke what was read. `Fail` may end
any of them in between. `closed` and `raced` are history variables.

## 3. Runs

| Run | Instance | Shows |
|---|---|---|
| `queue` | 2 processes, 2 threads, 3 jobs (one kept, one broken, one of higher priority), 1 crash | `OneWorkerPerJob`, `SelectionHolds`, `NothingStranded`, `AttemptsLedger`, `OutcomeIsFinal`, and that the queue implements `JobContract` (`KeepsContract`) |
| `queue_double` | 2 processes, slow jobs | counterexample to `OneWorkerPerJob` |
| `outbox` | 1 process, 2 threads, a job with `with_session` and one without, one attempt, a slow job, 1 crash, fair | `PendingIsOwned`, `RollbackIsRespected`, `CommittedJobsSettle` |
| `feeds` | 2 workers, 2 feeds, one with a repeated guid, 2 versions, 2 failures, 1 crash, 3 of these events altogether | `ETagCovers`, `DeadIsEarned` |
| `feeds_fair` | 2 workers, 2 feeds, 1 crash, fair | `EveryFeedCatchesUp` |
| `feeds_doubled` | 1 worker, one feed with a repeated guid, fair | counterexample to `EveryFeedCatchesUp` |
| `subscriptions` | 2 requests, 2 feeds, 2 folders, 2 names, a document with two nested folders of one name; one feed followed through the queue | `UniqueKeys`, `NoDangling`, `OnlyUnsubscribeRemoves`, `ReportIsTrue`, `SubscribedIsFetched` |
| `subscriptions_import` | 1 request | counterexample to `ImportSubscribes` |
| `reader` | status: 2 clients, 2 articles, the sweep. Digest: 1 user, 2 runs, 1 form, 2 days, 1 crash. List: 4 articles, pages of 2, 2 ranks. Slugs: 2 sessions, any number of flushes of 2 articles at most, 4 slugs. Fever: 3 articles, pages of 2. Notifications: 1 message, 2 attempts, 2 streams with queues of 1, 1 endpoint, 1 read-all request. List in the browser: 3 cards, pages of 2, 2 views, of which one always lists the same card, 2 pages on their way, 4 elements. Pane: 2 articles, 2 calls at once | `BookmarkDated`, `OnlyAskedChanges`, `SweepKeeps`, `OneDigestADay`, `ListedOnce`, `RefusedOnlyByOthers`, `PagedWhole`, `RecordFirst`, `OncePerExecution`, `WhoStaysGetsIt`, `NewStaysUnread`, `EndShowsAll`, `RefreshMirrors`, `NoteOnItsText`, `QuietPaneIsOwn` |
| `reader_forward` | the same | counterexample to `ForwardPagedWhole` |
| `auth` | sessions: 1 person, 2 sessions, 2 requests, times up to 3. Tokens: 2 families, 3 rows, 2 clients, 2 requests, 1 failure; the sweep fair | `EndedStaysEnded`, `SweepKeepsLive`, `StaleSessionsGo`, `QuietRevocationHolds`, `RotationKeepsOne` |
| `auth_token` | the same | counterexample to `IssuedTokenTaken` |

`queue`, `feeds` and `reader` also check the type invariants of their modules;
those of `JobOutbox`, `Subscriptions`, `Accounts` and `RefreshTokens` are proved
(`OutboxTypeCorrect`, `SubsTypeCorrect`, `AccountsTypeCorrect`, `RefreshTypeCorrect`).

### Bounds

* Two processes with two threads are the smallest deployment in which two
  polls, a poll and a sweep, two sweeps, and two threads of one process race;
  three jobs make a page of a poll smaller than what is eligible.
  `MaxAttempts = 2` has a first, a last and no further attempt.
* `MaxSlips` bounds how often work in progress outlasts its row's timer. 0 is
  the assumption that jobs take less than 30 minutes (`STALE_RUNNING_TIMEOUT`),
  backlog included. `queue_double` shows what happens without it.
* `MaxCrashes = 1`: each crash leaves a process as it comes up, and the rows as
  they are; the proofs cover any number.
* In `outbox` the races are between one job's caller, its listeners, the poll,
  the sweep and the workers, so one process is enough. A poll claims at most as
  many rows as there are threads: with two threads and a second job it claims batches of
  two, of which the tied job's row can vanish before the batch is submitted; then the
  other one stays RUNNING until the sweep. The threads are interchangeable, so the
  second takes a job only while the first has one (`FirstThreadFirst`). The slow job lets the sweep and a second
  execution meet the caller. `MaxAttempts = 1` keeps the liveness check within its time:
  a row is RETRYING only after a sweep here; the retry after an exception, and
  the count of attempts, are checked in `queue`, and proved.
* Two workers and two feeds are the smallest instance with a deadlock between
  polls. One guid in version 1 and two in version 2 make the two versions
  differ, and make a session insert what another is inserting. In `feeds` a
  constraint (`Eventful`) admits three crashes, committed failures and new versions
  altogether: two failures make a feed DEAD, the third event meets them. In the
  liveness runs the documents stay as they are.
* `MaxFailures` bounds the committed failures of a feed, `DeadAfter` is at most
  `MaxFailures - 1`, so feeds do become DEAD. It is 0 in `feeds_fair`, since a
  DEAD feed owes nothing.
* `subscriptions`: two requests are the smallest race, and every constraint is
  between two rows. A cycle of waits needs two requests and two feeds. `Folders`
  is used up by ids that were never committed, too: a third folder is not
  created. In the scene of the folders one request may import.
* `reader`: a status row is shared by two clients, the second article makes
  `mark=group` keep an insert open. Four articles on two pages have a tie on
  each side of a page's end. Two titles whose variants overlap are the smallest
  clash between candidates; the four slugs end a run of flushes, by a session that
  finds none and is abandoned. Two runs of a digest, one crash and one form are the
  ways a date gets lost; one user is enough, since users share nothing but the
  commit.
  Three articles on pages of two are a full page and a further one. For
  notifications, two streams are enough for one to leave, or to come, while a
  publish is between the first and the second place of the list. Two attempts
  make a publish that follows an earlier one, and a queue of 1 is full with the
  message of the first. Nothing depends on what is archived, so only the first record
  of a message is (`NotifyBound`). Clients, sessions, streams and articles of the pane go by
  the same two names, so that one symmetry serves all scenes.
  In the browser, three cards on pages of two are a full page and a further one,
  and two requests are one from before a reset and one from after it; the second view
  only has to be another. Two calls of the pane are a save or a deletion that is
  answered while a list is on its way, or two lists that overtake each other; no
  property of the pane relates three articles.
* `auth`: `Ttl` and `Grace` are 1 and times go up to 3, so a session is
  live, expired within the grace period, and stale. Three rows are a login, a
  rotation and one more login or rotation; two clients hold a token before and
  after its rotation.

### Fairness

* `JobOutbox`, which contains the queue: the two ticks recur (`start` registers
  them with an interval), `job.execute` returns, the pool's queue is first in,
  first out, and a process that is stopped is started again. The ticks get
  strong fairness, since a stop or the other tick disables them now and then,
  and so does taking a job off the queue, since another thread or job may
  disable it. A request that enlisted a job ends its session one way or another,
  and the listeners, which run inside its `commit` or `rollback`, run. Nothing
  says that a caller commits.
* `FeedPolling`: the interval passes, `PollFeedJob` recurs and finds a worker
  free again and again, every request has a timeout, and PostgreSQL grants locks
  in order and breaks deadlocks, hence strong fairness for a flush or commit
  per row it waits for. No fairness for callers, origins, operators or crashes.
* `MCSubscriptions`: weak fairness of `PollFeed`, the recurring poll, which finds
  feeds that were never fetched (`get_due_feeds`). That a poll brings a feed in is
  the result of `feeds_fair`. None for requests, nor for `FetchFeedJob`.
* `MCAuth`: weak fairness of the two halves of the nightly `SweepAuthJob`. None for
  requests or time.

## 4. Disagreements found

Five have a run that TLC refutes; `PROJECT.json` quotes the lines.

1. A job that outlasts 30 minutes from its *claim*, time in the pool's queue
   included, is executed by two workers (`queue_double`).
2. A document that repeats a guid makes every poll of every feed fail: the
   poller's handler itself raises, after the rollback (`feeds_doubled`).
3. An import that meets a feed which has no row yet does not subscribe to it
   (`subscriptions_import`): `with_session` raises on an `AsyncSession`.
4. No one-time token can be consumed (`auth_token`): an expiry with a time zone
   is compared with a `datetime` that has none.
5. A Fever client that pages forward with `since_id` loses articles
   (`reader_forward`): the answer is the newest 50 above `since_id`, not the next 50.

Others are part of the models, where a reader finds them, or were met on the way:

* `attempts` misses executions that die with their process (`RunFinish` commits
  it; `AttemptsLedger` counts what is missing).
* A job is visible as ENQUEUED until the transaction it was enlisted in has
  flushed, so it can be executed before the commit; and the caller's flush can turn a
  RUNNING row PENDING, so that it is promoted and executed once more.
  `OneWorkerPerJob` is a property of `JobQueue` alone.
* `error_count` is documented as consecutive errors, and a 304 does not reset it.
* The recovery job and the article sweep never commit.
* `update_subscription` with a title alone takes the subscription out of its
  folder. A folder that has a subfolder with the name of a root folder (its own,
  say) can never be deleted. `clear_folder` may clear a subscription that was
  moved to another folder meanwhile.
* Marking a Fever group as read creates status rows without a commit
  (`fever.py:374`).
* A database error in a Fever request is answered as an empty page, which a client
  takes for the end (`blank`); `PagedWhole` is about walks without one. A
  `since_id` also misses an article that was built before, and committed after, the greatest
  id the client has seen.
* The digest mail leaves before the commit that dates it; the preferences form
  writes an older date back.
* `FeedFetcherService` writes "updated" articles back with the values they have.
* `register` and `unregister` of push subscriptions, and the pruner through
  `get_db`, flush without a commit when the router opens its own session.
* Retries of a delivery write another record and send the message again.
* `generate_token` means to delete earlier tokens, and both sweeps of tokens
  expired ones; the deletes are not awaited, so nothing is deleted. For the same
  reason `change_password`, `verify_email_change`, the deletion of an account
  and `reset_password` fail without a change.
* `/refresh` and `/logout` of the JWT backend need an access token that has not
  expired, and `/refresh` sets no cookie.
* The session's row slides, its cookie does not: the signature ages out.
* A silent refresh puts the first page in the place of all that was loaded and
  leaves the cursor where it was: later cards are gone until a reset. A page that was
  asked for before a reset is appended to the new view and clears its loading flag.
  `calm` leaves both out of `EndShowsAll`. A card that such a page brings a second
  time stays twice after a refresh; `RefreshMirrors` allows no other card beside those
  of the answer.
* A list of annotations that comes after one that was asked for later stays in
  the pane (`overtaken`). An update that sets `body` to null changes nothing, since
  `exclude_none` drops it.
* Articles with no value in a sortable column end a walk or are left out of it,
  since the cursor compares NULL; `ArticleList` is about orders without NULL.

## 5. Proofs

For all values of the constants, under the named assumption of each module
(`JobQueueAssumption`, `IdleAssumption`, `JobOutboxAssumption`,
`FeedPollingAssumption`, `SubscriptionsAssumption`, `ArticleStatusAssumption`, `ArticleListAssumption`, `DigestAssumption`,
`FeverAssumption`, `SlugsAssumption`, `NotificationsAssumption`, `AccountsAssumption`,
`RefreshAssumption`, `ListViewAssumption`, `ArticlePaneAssumption`), which TLC evaluates
in the runs. A theorem that assumes more says so.

**JobQueueProofs.** `TypeCorrect` needs nothing else. Most other theorems about
`JobQueue` assume `Prompt`, that is `SkipLocked` and `MaxSlips = 0`: without it
they are false, as `queue_double` shows for `OneWorkerPerJob`. None of the properties is inductive: that a worker is
alone with a row depends on who selected and queued it before. `IInv` says that
each row is in one pair of hands: waiting in the table, selected by one poll
(`SelectedInv`), held by one process (`HeldInv`) at one place in it
(`PlaceInv`), or read by sweeps, which find it stale or already reset
(`SweptInv`). `AttemptsInv` and `LedgerInv` add what workers know of attempts,
and how executions, attempts and crashes add up. `Invariance` proves
`Spec => []IInv`; `OneWorkerPerJobHolds`, `NothingStrandedHolds` and
`AttemptsLedgerHolds` follow, `OutcomeIsFinalHolds` is an action property from the same invariant, and `Refinement` shows that each
step is a step of `JobContract` or a stutter under the mapping of
`JobQueueRefinement`. Two results do without `Prompt`. `SelectionHoldsHolds` assumes
`SkipLocked` alone: however late jobs and sweeps are, the locks keep them away from
selected rows, since a sweep writes no rows but those it read (`SpentInv`).
`AttemptsWereRuns` assumes nothing: what a worker will write is below the
executions begun, so that `attempts` counts none that did not happen even when many
workers hold a row.

On the outbox (`JobOutbox`, in the same module): `OutboxTypeCorrect` reuses the lemma on the steps of
`JobQueue`. `PendingIsOwned` holds whatever is killed: the row of a caller that was
killed before it promoted is the only one that nobody is about to promote. `OutboxInv`
adds to it that a row exists exactly once
its caller enqueued it, that a discarded row is deleted for good (`GoneInv`),
and `SpentInv`, without
which a sweep could bring a deleted row back. `PendingIsOwnedHolds` and
`RollbackIsRespectedHolds` follow, with no assumption on locks, timers or
crashes. `OutboxSelections` carries `SelectionHolds` over to the composition, under
`SkipLocked`: a flush waits for the poll that has the row, and a poll passes over what
was flushed. `UntiedIsQueue` joins the two specifications of the queue: with `Tied = {}`
no session has a listener, every step of `OutboxSpec` is one of `Spec` or a stutter,
and what `JobQueueProofs` establishes carries over.

**FeedPollingProofs.** `TypeCorrect`; `DeadIsEarnedHolds`, from `CountInv`: what
a session read is at most what was counted, because rows are only read when
committed; `ETagCoversHolds`, from `CoverInv`: the entries a session has heard
of and the table lacks are about to be inserted or inserted, and a session that
is not flushing has nothing left to insert.

**SubscriptionsProofs.** `SubsTypeCorrect`; `UniqueKeysHolds`, `NoDanglingHolds` and
`OnlyUnsubscribeRemovesHolds`, for any document, requests, folders and names. The
committed rows are not inductive by themselves: an insert sees other transactions
only when it waits. `DataInv` says of each open transaction that what it inserted
clashes neither with what is committed nor with what another inserted (`OwnWell`, by
key and by folder id), that its references are to committed rows or its own, so
that neither commits in any order nor `ON DELETE SET NULL` can break them, and that
the id of a folder about to be inserted is no other folder's (`WantFresh`).
`ReportIsTrueHolds` from `Tally`: until its session breaks, an import has counted as
added what it inserted.

**ReaderProofs.** `ListTypeCorrect`, and `ListedOnceHolds` from `CursorDivides`:
what was listed is behind the cursor, what was not is ahead of it. It is inductive
because `Precedes` is a strict total order (`PrecedesTotal`, `PrecedesTransitive`),
which it is only with the id that `Filter.sort` adds. `FeverTypeCorrect`, and
`PagedWholeHolds` from `StillAsked`: what a walk owes is received, or below its
`max_id`, or among the ids it has still to fetch. `SlugsTypeCorrect`, and
`RefusalsAreLate` from `SlugsInv`: the slugs a flush has still to insert are
distinct, are not among those its transaction inserted, in this flush or an earlier
one, and what of its claims is committed was committed by others since it began. `DigestTypeCorrect`, and `OneDigestADayHolds` from
`DigestInv`: once a user got a digest, a run has the date to commit (`Underway`), or the
date is committed and in every copy that a run or a form still acts on (`Recorded`); a
user for whom it is neither is in `upset`. `StatusTypeCorrect`, `BookmarkDatedHolds` and
`SweepKeepsHolds`, from one invariant: a column and its date are written together, by
the same comparison, or neither is, and `StatusInv` adds what makes that inductive
(`ClientsWell`): a Fever client never sets a bookmark, and the rows a group inserts and
does not commit have neither bookmark nor date. `OnlyAskedChangesHolds` adds `OwnApart`:
an article that a group inserted a row for has no committed row, and no other request an
uncommitted one, so that a commit changes what was asked for and nothing else.

**FrontEndProofs.** On the list in the browser: `ViewTypeCorrect`;
`RefreshMirrorsHolds`, an action property about what the loops of `_reconcile` compute,
for every list, also with cards that are there more than once (`TwiceOnlyAs`: a round
makes no copy).
That round `i` puts card `i` of the answer in its place and leaves the places before it
alone (`PutAtIs`, `PlacedIs`) is a fact about a recursive function, and is proved by
induction over the rounds; the induction theorems of the library take an operator and
cannot be used, so it is an induction over the *set* of good rounds (`EveryNat`, from
`IsWellFoundedOn`). In the same way `PlaceInOrder` and `SortedIs` give what a
definition by rank and `CHOOSE` leaves open: `Sorted` has each element once, in order.
`EndShowsAllHolds` from `ViewInv`: while nothing disturbed the list, one page at most
is asked for and it is asked for from the mark (`OneAsked`); the cards are in order and
not beyond the mark, and what lasts up to there is among them (`ShownToMark`), so that
the page that arrives continues them and at the end nothing is missing. Which refreshes
disturb the list is counted in `calm`; `Books` says that what the view listed all along is
still listed, and that a refresh which disturbs nothing is of the view shown.

On the reading pane: `PaneTypeCorrect`; `NoteOnItsTextHolds` from `TextInv`: while a
popover asks for a note, what was picked is of the article that is shown, since whatever
changes the article closes it; `QuietPaneIsOwnHolds` from `LastIsOwn`, that the last list
asked for is of the article that is shown unless a save or deletion has still to ask for
one, and `PassedFirst`, that of the lists on their way those that were passed are the
first.

**NotificationsProofs.** `NotifyTypeCorrect`; `RecordFirstHolds`, `OncePerExecutionHolds`
and `WhoStaysGetsItHolds` from `Delivery`, the invariance of two formulas. `Ledger` counts:
an execution writes one record at most. `DeliveryInv` follows the round of `publish`
through a list that changes under it: a stream still to come has not the item, whoever
was passed has it, or lost it to a full queue, or was skipped; since a stream that
closes only moves the others towards the front, none is met twice. `NewStaysUnreadHolds`
needs the types alone: `mark_all_read` is the only step that lets go of what a request
read, and it marks no more than that.

**AuthProofs.** On sessions: `AccountsTypeCorrect`; `EndedSessionsStayEnded`, an action
property: no commit writes a status it loaded; `SweepSpares` from `SweepApart`:
what the sweep read has been expired for longer than the grace period, what a request is
about to slide was not expired, and no time passes under either.

On refresh tokens: `RefreshTypeCorrect`; `QuietRevocation` from `QuietInv`.
That a revoked family has no active token is not inductive: a refresh that read
its row before the revocation issues a token after it. `QuietInv` says that a
family which was closed quietly has neither an active token nor a refresh on the
way, and that a request which is to close one, and is still alone with it, has read
all of its active tokens. `RotationKeepsOneHolds` from `LoneInv`: a family without
overlapping or failed requests has one request at most at work, and no active
token between a rotation and the issue of its successor.

**MCReaderProofs.** `ScenesArePartSteps`: the composition of `MCReader` implements the
specification of each of its eight modules, so that the theorems about a module hold of
what the run `reader` checks, with whatever bounds. `ReaderTypeCorrect` follows from it
and the type correctness of each.

Only model-checked: liveness (`CommittedJobsSettle`, `EveryFeedCatchesUp`,
`SubscribedIsFetched`, `StaleSessionsGo`), which needs fairness and is out of the
prover's reach, and the counterexamples. Every other property of a passing run is stated
by a theorem.

## 6. Not modelled

* The Celery adapter: the broker and its workers are external, and what is left
  is a retry rule.
* Redis emitter, FCM transport, OAuth providers, mail, storage, attachments:
  external protocols and I/O. In the Fever API, login, feeds and groups, which only
  read what other parts write.
* Magic links and soft deletion: the application does not configure them.
* Authorization policies, forms, schemas, controllers, templates, i18n,
  throttling, feed discovery: decisions and rendering without state that several
  actors share; unit tests reach them.
* The synchronous variants of `lib/auth`: with a synchronous engine its code
  calls `exec` on a session class that does not have it, so nothing beyond the
  first query runs.
* Of the front end: keyboard, menus, forms and the service worker; page and offset
  modes and retries of the pagination, which the list does not configure; the branch of
  `_reconcile` for elements of Alpine; the place of a highlight in the text.
* Titles, bodies, arguments, log lines and spelling, in every module.

## 7. Plan

Done: the queue, its contract and refinement, the outbox, feed polling, subscriptions
and import, article status, sweep, digest, list, Fever pages and slugs, notifications,
sessions, one-time and refresh tokens, the list in the browser and the reading pane. Left, in this order:

1. Recurring schedules that every process registers, composed with `FeedPolling`.
2. The Celery adapter's retry rule against the database adapter's, as operators
   over bounded inputs.
