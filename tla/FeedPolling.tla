------------------------------ MODULE FeedPolling ------------------------------
(***************************************************************************)
(* How feeds are polled: FeedFetcherService, FeedPollerService and         *)
(* FeedRecoveryService (services/feed_*.py) as the jobs of jobs/feed/ call *)
(* them, several at a time.                                                *)
(*                                                                         *)
(* A worker runs one job in one database session.  The session loads feed  *)
(* rows once, keeps every change in memory, writes the changed columns at  *)
(* its next flush and holds the row locks from there to its commit, across *)
(* the HTTP requests of the remaining feeds.  The isolation is READ        *)
(* COMMITTED, so nothing of it is visible before the commit.               *)
(*                                                                         *)
(* A feed's document is a version number; Entries says which entries that  *)
(* version lists, and its ETag is the number itself.                       *)
(***************************************************************************)
EXTENDS Naturals, FiniteSets

CONSTANTS
  Feeds,       \* rows of the feeds table
  Workers,     \* worker threads, of whichever process
  Guids,       \* guids of entries
  MaxVersion,  \* bound: versions a feed's document goes through
  Entries,     \* Entries[f][v]: the entries in version v of f that parse
  Doubled,     \* feeds whose document lists some guid twice
  DeadAfter,   \* error_count from which one more error makes a feed DEAD
  MaxFailures, \* bound: failed fetches of one feed that are committed
  MaxCrashes   \* bound: how many jobs are killed

ASSUME FeedPollingAssumption ==
  /\ MaxVersion \in Nat \ {0}
  /\ Entries \in [Feeds -> [1..MaxVersion -> SUBSET Guids]]
  /\ Doubled \subseteq Feeds
  /\ DeadAfter \in Nat \ {0}
  /\ MaxFailures \in Nat /\ MaxCrashes \in Nat

VARIABLES
  row,      \* row[f]: the committed columns of feed f
  due,      \* due[f]: last_fetched_at is NULL or older than the interval
  articles, \* committed articles, as <<feed, guid>>
  version,  \* version[f]: the document the origin of f serves
  job,      \* job[w]: the kind of job worker w runs
  todo,     \* todo[w]: feeds of its list it has not come to
  read,     \* read[w][f]: the row of f as its session loaded it
  heard,    \* heard[w][f]: what the origin of f answered it
  flushing, \* workers about to flush
  insert,   \* insert[w]: new articles that flush inserts
  added,    \* added[w]: articles it inserted and has not committed
  locked,   \* locked[w]: feed rows it updated and has not committed
  failures, \* history: failed fetches of f that were committed
  crashes   \* history: how many jobs were killed

tables  == <<row, due, articles>>
session == <<job, todo, read, heard, flushing, insert, added, locked>>
vars    == <<tables, version, session, failures, crashes>>

FeedStatus == {"active", "failing", "dead"}
Row        == [status : FeedStatus, errors : Nat, etag : 0..MaxVersion]
NewRow     == [status |-> "active", errors |-> 0, etag |-> 0]
Answer     == [kind : {"silence", "ok", "unchanged", "error", "alive"},
               etag : 0..MaxVersion]
Silence    == [kind |-> "silence", etag |-> 0]

\* A type for every variable; the columns of models/feed.py.
TypeOK ==
  /\ row \in [Feeds -> Row]
  /\ due \in [Feeds -> BOOLEAN]
  /\ articles \subseteq Feeds \X Guids
  /\ version \in [Feeds -> 1..MaxVersion]
  /\ job \in [Workers -> {"none", "fetch", "recover"}]
  /\ todo \in [Workers -> SUBSET Feeds]
  /\ read \in [Workers -> [Feeds -> Row]]
  /\ heard \in [Workers -> [Feeds -> Answer]]
  /\ flushing \subseteq Workers
  /\ insert \in [Workers -> SUBSET (Feeds \X Guids)]
  /\ added \in [Workers -> SUBSET (Feeds \X Guids)]
  /\ locked \in [Workers -> SUBSET Feeds]
  /\ failures \in [Feeds -> Nat]
  /\ crashes \in Nat

Init ==
  /\ row = [f \in Feeds |-> NewRow]
  /\ due = [f \in Feeds |-> TRUE]
  /\ articles = {}
  /\ version = [f \in Feeds |-> 1]
  /\ job = [w \in Workers |-> "none"]
  /\ todo = [w \in Workers |-> {}]
  /\ read = [w \in Workers |-> [f \in Feeds |-> NewRow]]
  /\ heard = [w \in Workers |-> [f \in Feeds |-> Silence]]
  /\ flushing = {}
  /\ insert = [w \in Workers |-> {}]
  /\ added = [w \in Workers |-> {}]
  /\ locked = [w \in Workers |-> {}]
  /\ failures = [f \in Feeds |-> 0]
  /\ crashes = 0

(***************************************************************************)
(* The clock and the origins.                                              *)
(***************************************************************************)

IntervalPasses(f) ==
  /\ ~due[f]
  /\ due' = [due EXCEPT ![f] = TRUE]
  /\ UNCHANGED <<row, articles, version, session, failures, crashes>>

Publish(f) ==
  /\ version[f] < MaxVersion
  /\ version' = [version EXCEPT ![f] = @ + 1]
  /\ UNCHANGED <<tables, session, failures, crashes>>

(***************************************************************************)
(* The jobs begin: a session opens and loads its feeds.                    *)
(***************************************************************************)

Begin(w, kind, S) ==
  /\ job[w] = "none"
  /\ job' = [job EXCEPT ![w] = kind]
  /\ todo' = [todo EXCEPT ![w] = S]
  /\ read' = [read EXCEPT ![w] = [f \in Feeds |-> IF f \in S THEN row[f] ELSE NewRow]]
  /\ UNCHANGED <<tables, version, heard, flushing, insert, added, locked,
                 failures, crashes>>

\* get_due_feeds.
DueFeeds == {f \in Feeds : row[f].status # "dead" /\ due[f]}

\* PollFeedJob and RefreshFeedJob: every feed that is due.
BeginPoll(w) == DueFeeds # {} /\ Begin(w, "fetch", DueFeeds)

\* FetchFeedJob: one feed that somebody subscribed to, whatever its status.
BeginFetch(w, f) == Begin(w, "fetch", {f})

\* RecoverDeadFeedsJob.
BeginRecover(w) ==
  LET lost == {f \in Feeds : row[f].status \in {"dead", "failing"}}
  IN lost # {} /\ Begin(w, "recover", lost)

(***************************************************************************)
(* FeedFetcherService.run and FeedRecoveryService.run on one feed.         *)
(***************************************************************************)

\* WantedErrors, WantedStatus and WantedEtag: the columns of the row r of a feed
\* as the session leaves them when the origin answers a.
WantedErrors(r, a) ==
  CASE a.kind = "error" -> r.errors + 1
    [] a.kind \in {"ok", "alive"} -> 0
    [] OTHER -> r.errors

\* Mutants of WantedStatus: DEAD one error early; a status that is no FeedStatus.
WantedStatusEarly(r, a) ==
  CASE a.kind = "error" -> IF r.errors + 1 >= DeadAfter THEN "dead"
                           ELSE IF r.errors >= 1 THEN "failing" ELSE r.status
    [] a.kind = "ok" /\ r.status = "failing" -> "active"
    [] a.kind = "alive" -> "active"
    [] OTHER -> r.status

WantedStatusMixed(r, a) == IF a.kind = "error" THEN "error" ELSE "active"

WantedStatus(r, a) ==
  CASE a.kind = "error" -> IF r.errors >= DeadAfter THEN "dead"
                           ELSE IF r.errors >= 1 THEN "failing" ELSE r.status
    [] a.kind = "ok" /\ r.status = "failing" -> "active"
    [] a.kind = "alive" -> "active"
    [] OTHER -> r.status

WantedEtag(r, a) == IF a.kind = "ok" THEN a.etag ELSE r.etag

\* What _fetch can return: 304 needs the ETag of the current document, and any
\* failure, of the network, of the origin or of the parser, is an error.
Answers(w, f) ==
  {[kind |-> "ok", etag |-> version[f]]}
  \cup (IF read[w][f].etag = version[f]
          THEN {[kind |-> "unchanged", etag |-> 0]} ELSE {})
  \cup (IF failures[f] < MaxFailures
          THEN {[kind |-> "error", etag |-> 0]} ELSE {})

Listed(f, a) == IF a.kind = "ok" THEN {f} \X Entries[f][a.etag] ELSE {}

\* The entries of the answer that get_all_articles_for_feed does not return.
Unknown(f, a) == Listed(f, a) \ articles

\* Entries that are known and look changed are "updated" with the values they
\* have; all that does is flush.
Rewrites(f, a) == Listed(f, a) \cap articles # {}

Fetch(w, f) ==
  /\ job[w] = "fetch" /\ f \in todo[w] /\ w \notin flushing
  /\ todo' = [todo EXCEPT ![w] = @ \ {f}]
  /\ \E a \in Answers(w, f) :
       /\ heard' = [heard EXCEPT ![w][f] = a]
       /\ insert' = [insert EXCEPT ![w] = Unknown(f, a)]
       /\ \/ flushing' = flushing \cup {w} /\ (Unknown(f, a) # {} \/ Rewrites(f, a))
          \/ flushing' = flushing /\ Unknown(f, a) = {}
  /\ UNCHANGED <<tables, version, job, read, added, locked, failures, crashes>>

\* The recovery's HTTP check.
Probe(w, f) ==
  /\ job[w] = "recover" /\ f \in todo[w]
  /\ todo' = [todo EXCEPT ![w] = @ \ {f}]
  /\ \E a \in {Silence, [kind |-> "alive", etag |-> 0]} :
       heard' = [heard EXCEPT ![w][f] = a]
  /\ UNCHANGED <<tables, version, job, read, flushing, insert, added, locked,
                 failures, crashes>>

(***************************************************************************)
(* Flush, commit and rollback.                                             *)
(***************************************************************************)

Dirty(w) == {f \in Feeds : heard[w][f] # Silence} \ locked[w]

\* w is about to write: within run, or when the job commits.
Writes(w) == w \in flushing \/ (job[w] = "fetch" /\ todo[w] = {})

\* w has to wait for the transaction of u: for the lock of a row, or to learn
\* whether an article with the same feed and guid gets committed.
Waits(w, u) ==
  /\ u # w /\ Writes(w)
  /\ \/ locked[u] \cap Dirty(w) # {}
     \/ added[u] \cap insert[w] # {}

\* Mutant of Close: the session keeps its transaction, and so its locks.
CloseLeaks(w) ==
  /\ job' = [job EXCEPT ![w] = "none"]
  /\ todo' = [todo EXCEPT ![w] = {}]
  /\ read' = [read EXCEPT ![w] = [f \in Feeds |-> NewRow]]
  /\ heard' = [heard EXCEPT ![w] = [f \in Feeds |-> Silence]]
  /\ flushing' = flushing \ {w}
  /\ insert' = [insert EXCEPT ![w] = {}]
  /\ UNCHANGED <<added, locked>>

\* The session of w is closed.
Close(w) ==
  /\ job' = [job EXCEPT ![w] = "none"]
  /\ todo' = [todo EXCEPT ![w] = {}]
  /\ read' = [read EXCEPT ![w] = [f \in Feeds |-> NewRow]]
  /\ heard' = [heard EXCEPT ![w] = [f \in Feeds |-> Silence]]
  /\ flushing' = flushing \ {w}
  /\ insert' = [insert EXCEPT ![w] = {}]
  /\ added' = [added EXCEPT ![w] = {}]
  /\ locked' = [locked EXCEPT ![w] = {}]

\* The INSERT violates uq_article_feed_guid.
Clashes(w) == insert[w] \cap articles # {} \/ \E e \in insert[w] : e[1] \in Doubled

\* Mutant of Flush: the exception of one feed is survived, as if in a savepoint.
FlushSkips(w) ==
  /\ w \in flushing
  /\ \A u \in Workers : ~Waits(w, u)
  /\ flushing' = flushing \ {w}
  /\ insert' = [insert EXCEPT ![w] = {}]
  /\ added' = [added EXCEPT ![w] = IF Clashes(w) THEN @ ELSE @ \cup insert[w]]
  /\ locked' = [locked EXCEPT ![w] = @ \cup Dirty(w)]
  /\ UNCHANGED <<job, todo, read, heard>>
  /\ UNCHANGED <<tables, version, failures, crashes>>

\* A clash rolls the session back, and the poller's own except clause raises
\* again when it reads feed.url, which the rollback expired: the job is over.
Flush(w) ==
  /\ w \in flushing
  /\ \A u \in Workers : ~Waits(w, u)
  /\ IF Clashes(w) THEN Close(w)
     ELSE /\ flushing' = flushing \ {w}
          /\ insert' = [insert EXCEPT ![w] = {}]
          /\ added' = [added EXCEPT ![w] = @ \cup insert[w]]
          /\ locked' = [locked EXCEPT ![w] = @ \cup Dirty(w)]
          /\ UNCHANGED <<job, todo, read, heard>>
  /\ UNCHANGED <<tables, version, failures, crashes>>

\* A column is written if the session changed it, compared with what it loaded.
Merge(column, loaded, wanted) == IF wanted = loaded THEN column ELSE wanted

Stored(w, f) ==
  LET old == row[f]
      was == read[w][f]
      a   == heard[w][f]
  IN [status |-> Merge(old.status, was.status, WantedStatus(was, a)),
      errors |-> Merge(old.errors, was.errors, WantedErrors(was, a)),
      etag   |-> Merge(old.etag, was.etag, WantedEtag(was, a))]

Commit(w) ==
  /\ job[w] = "fetch" /\ todo[w] = {} /\ w \notin flushing
  /\ \A u \in Workers : ~Waits(w, u)
  /\ row' = [f \in Feeds |-> IF heard[w][f] = Silence THEN row[f] ELSE Stored(w, f)]
  /\ due' = [f \in Feeds |-> due[f] /\ heard[w][f] = Silence]
  /\ articles' = articles \cup added[w]
  /\ failures' = [f \in Feeds |->
                    IF heard[w][f].kind = "error" THEN failures[f] + 1 ELSE failures[f]]
  /\ Close(w)
  /\ UNCHANGED <<version, crashes>>

\* RecoverDeadFeedsJob leaves get_db, which closes the session without a commit.
EndRecover(w) ==
  /\ job[w] = "recover" /\ todo[w] = {}
  /\ Close(w)
  /\ UNCHANGED <<tables, version, failures, crashes>>

\* The database ends one of the transactions that wait for each other.
Deadlock(w) ==
  /\ \E S \in SUBSET Workers :
       /\ w \in S /\ \E u \in S : Waits(u, w)
       /\ \A u \in S : \E v \in S : Waits(u, v)
  /\ Close(w)
  /\ UNCHANGED <<tables, version, failures, crashes>>

\* The process is killed, and its transactions roll back.
Crash(w) ==
  /\ job[w] # "none" /\ crashes < MaxCrashes
  /\ crashes' = crashes + 1
  /\ Close(w)
  /\ UNCHANGED <<tables, version, failures>>

Next ==
  \/ \E f \in Feeds : IntervalPasses(f) \/ Publish(f)
  \/ \E w \in Workers :
       \/ BeginPoll(w) \/ BeginRecover(w)
       \/ \E f \in Feeds : BeginFetch(w, f) \/ Fetch(w, f) \/ Probe(w, f)
       \/ Flush(w) \/ Commit(w) \/ EndRecover(w) \/ Deadlock(w) \/ Crash(w)

Spec == Init /\ [][Next]_vars

(***************************************************************************)
(* Fairness.  The poll recurs for ever and in the end finds a worker free, *)
(* requests have timeouts, and the database breaks deadlocks and gives a   *)
(* lock to who waits for it, whoever comes later: strong fairness for each *)
(* row a step waits for. Nobody needs to subscribe, nothing to crash.      *)
(***************************************************************************)
Fairness ==
  /\ \A f \in Feeds : WF_vars(IntervalPasses(f))
  /\ \A w \in Workers :
       /\ SF_vars(BeginPoll(w))
       /\ WF_vars(\E f \in Feeds : Fetch(w, f) \/ Probe(w, f))
       /\ \A f \in Feeds : SF_vars(f \in Dirty(w) /\ (Flush(w) \/ Commit(w)))
       /\ WF_vars(Flush(w)) /\ WF_vars(Commit(w)) /\ WF_vars(EndRecover(w))
       /\ WF_vars(Deadlock(w))

FairSpec == Spec /\ Fairness

(***************************************************************************)
(* Properties.                                                             *)
(***************************************************************************)

\* The stored ETag answers for its articles: the entries of the document it
\* names are all stored, so a 304 never hides an article, however polls race,
\* fail or roll back.
ETagCovers ==
  \A f \in Feeds :
    row[f].etag # 0 => {f} \X Entries[f][row[f].etag] \subseteq articles

\* No feed is given up on before more than DeadAfter fetches of it failed,
\* however stale the rows are that its pollers compute with.
DeadIsEarned ==
  \A f \in Feeds : row[f].status = "dead" => failures[f] > DeadAfter

\* The articles of a feed catch up with its document, unless it is DEAD; the
\* other feeds of a poll, or another poll, cannot keep them from it for good.
\* feed_poller.py catches exceptions per feed for this, and
\* test_run_continues_when_one_feed_fails says so.
EveryFeedCatchesUp ==
  \A f \in Feeds \ Doubled :
    <>[](row[f].status = "dead" \/ {f} \X Entries[f][version[f]] \subseteq articles)

(***************************************************************************)
(* The inductive invariants behind ETagCovers and DeadIsEarned.            *)
(***************************************************************************)

\* What the entries of an answer are still missing is about to be inserted.
CoverInv ==
  /\ ETagCovers
  /\ \A w \in Workers :
       /\ w \notin flushing => insert[w] = {}
       /\ \A f \in Feeds :
            Listed(f, heard[w][f]) \subseteq articles \cup added[w] \cup insert[w]

\* No error is counted that was not committed, in the table or in a session.
Counted(f, r) ==
  /\ r.errors <= failures[f]
  /\ r.status = "dead" => failures[f] > DeadAfter

CountInv ==
  \A f \in Feeds : Counted(f, row[f]) /\ \A w \in Workers : Counted(f, read[w][f])
================================================================================
