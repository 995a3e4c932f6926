------------------------------ MODULE Subscriptions ------------------------------
(***************************************************************************)
(* The folders and subscriptions of one user, as several of the user's     *)
(* requests change them at once: FeedSubscriptionService, FolderService    *)
(* and OPMLImporterService.  The feeds table is shared with other users.   *)
(*                                                                         *)
(* A request has one database session and one transaction.  It reads what  *)
(* is committed and what it wrote itself (READ COMMITTED); an insert waits *)
(* for an open transaction that inserted the same unique key, and is       *)
(* refused when the key is committed.  Feeds are never deleted.            *)
(***************************************************************************)
EXTENDS Naturals, Sequences, FiniteSets

CONSTANTS
  Feeds,    \* feeds, by their url
  Folders,  \* bound: ids that folders can get
  Names,    \* names of folders
  Requests, \* requests of the user that can run at once
  Watched,  \* bound: feeds whose fetches are followed
  Document, \* the OPML file, its outlines in document order, as
            \*   [kind |-> "feed", feed |-> f, within |-> i] or
            \*   [kind |-> "folder", name |-> n, within |-> i]
            \* where i is the position of the enclosing folder, 0 for the body
  NoFolder, \* NULL as a folder_id or parent_id
  NoRow     \* no row

FolderRef == Folders \cup {NoFolder}
Outline ==
  [kind : {"feed"}, feed : Feeds, within : Nat]
    \cup [kind : {"folder"}, name : Names, within : Nat]

ASSUME SubscriptionsAssumption ==
  /\ NoFolder \notin Folders /\ Watched \subseteq Feeds
  /\ Document \in Seq(Outline)
  /\ \A i \in DOMAIN Document : Document[i].within < i
  /\ Len(Document) \in Nat

VARIABLES
  rows,    \* committed rows of feeds, feed_subscriptions and folders
  jobs,    \* watched feeds with a FetchFeedJob in the queue
  fetched, \* watched feeds whose last_fetched_at is not NULL
  used,    \* ids that folders got, whether or not they were committed
  op,      \* op[r]: what request r does
  todo,    \* todo[r]: urls subscribe_to_feeds has not come to
  place,   \* place[r]: position of the importer in the document
  made,    \* made[r][i]: the folder the importer uses for outline i
  want,    \* want[r]: the row r has decided to write
  own,     \* own[r]: rows r inserted and has not committed
  seen,    \* seen[r]: subscriptions clear_folder found, by feed
  broken,  \* requests whose session needs a rollback
  added,   \* added[r]: feeds the importer counted as added
  failed   \* failed[r]: feeds the importer counted as failed

subsSession == <<op, todo, place, made, want, own, seen, broken, added, failed>>
subsVars    == <<rows, jobs, fetched, used, subsSession>>

FeedRow(f)         == [kind |-> "feed", feed |-> f]
SubRow(f, d)       == [kind |-> "sub", feed |-> f, folder |-> d]
FolderRow(d, n, p) == [kind |-> "folder", id |-> d, name |-> n, parent |-> p]

FeedRows   == {FeedRow(f) : f \in Feeds}
SubRows    == [kind : {"sub"}, feed : Feeds, folder : FolderRef]
FolderRows == [kind : {"folder"}, id : Folders, name : Names, parent : FolderRef]
Rows       == FeedRows \cup SubRows \cup FolderRows
Ops        == {"idle", "subscribe", "import", "create", "rename", "delete", "move"}

\* A type for every variable.
SubsTypeOK ==
  /\ rows \subseteq Rows
  /\ jobs \subseteq Feeds /\ fetched \subseteq Feeds /\ used \subseteq Folders
  /\ op \in [Requests -> Ops]
  /\ todo \in [Requests -> SUBSET Feeds]
  /\ place \in [Requests -> 1..Len(Document) + 1]
  /\ made \in [Requests -> [0..Len(Document) -> FolderRef]]
  /\ want \in [Requests -> Rows \cup {NoRow}]
  /\ own \in [Requests -> SUBSET Rows]
  /\ seen \in [Requests -> SUBSET Feeds]
  /\ broken \subseteq Requests
  /\ added \in [Requests -> SUBSET Feeds]
  /\ failed \in [Requests -> SUBSET Feeds]

SubsInit ==
  /\ rows = {} /\ jobs = {} /\ fetched = {} /\ used = {}
  /\ op = [r \in Requests |-> "idle"]
  /\ todo = [r \in Requests |-> {}]
  /\ place = [r \in Requests |-> 1]
  /\ made = [r \in Requests |-> [i \in 0..Len(Document) |-> NoFolder]]
  /\ want = [r \in Requests |-> NoRow]
  /\ own = [r \in Requests |-> {}]
  /\ seen = [r \in Requests |-> {}]
  /\ broken = {}
  /\ added = [r \in Requests |-> {}]
  /\ failed = [r \in Requests |-> {}]

(***************************************************************************)
(* What the database guarantees.                                           *)
(***************************************************************************)

\* Mutant of Key: folders without uq_folder_user_name_parent and
\* uq_folders_root_name, so that only their ids are unique.
KeyById(x) ==
  IF x.kind = "folder" THEN <<"folder", x.id>> ELSE <<x.kind, x.feed>>

\* The unique key of a row, within this user's rows: the url of a feed, the
\* feed of a subscription, the name and parent of a folder.
Key(x) ==
  IF x.kind = "folder" THEN <<"folder", x.name, x.parent>> ELSE <<x.kind, x.feed>>

Keys(S) == {Key(x) : x \in S}

\* Foreign keys of x that have a row in S.
Resolved(x, S) ==
  CASE x.kind = "feed" -> TRUE
    [] x.kind = "sub" -> /\ FeedRow(x.feed) \in S
                         /\ \/ x.folder = NoFolder
                            \/ \E y \in S : y.kind = "folder" /\ y.id = x.folder
    [] x.kind = "folder" -> \/ x.parent = NoFolder
                            \/ \E y \in S : y.kind = "folder" /\ y.id = x.parent

RefersTo(x, d) ==
  \/ x.kind = "sub" /\ x.folder = d
  \/ x.kind = "folder" /\ x.parent = d

\* A new row waits for the transaction that inserted the same key.
WaitsFor(r, q) == q # r /\ want[r] # NoRow /\ Key(want[r]) \in Keys(own[q])

\* PostgreSQL aborts a request of a set whose members wait for one another.
Deadlocked(r) ==
  \E S \in SUBSET Requests :
    r \in S /\ \A q \in S : \E p \in S : WaitsFor(q, p)

\* What a query of r sees.
Visible(r) == rows \cup own[r]

HasFeed(S, f)      == FeedRow(f) \in S
HasSub(S, f)       == \E x \in S : x.kind = "sub" /\ x.feed = f
HasFolder(S, n, p) == \E x \in S : x.kind = "folder" /\ x.name = n /\ x.parent = p

(***************************************************************************)
(* Requests begin and end.                                                 *)
(***************************************************************************)

\* The session of r is closed; what it did not commit is gone.
EndRequest(r) ==
  /\ op' = [op EXCEPT ![r] = "idle"]
  /\ todo' = [todo EXCEPT ![r] = {}]
  /\ place' = [place EXCEPT ![r] = 1]
  /\ made' = [made EXCEPT ![r] = [i \in 0..Len(Document) |-> NoFolder]]
  /\ want' = [want EXCEPT ![r] = NoRow]
  /\ own' = [own EXCEPT ![r] = {}]
  /\ seen' = [seen EXCEPT ![r] = {}]
  /\ broken' = broken \ {r}
  /\ added' = [added EXCEPT ![r] = {}]
  /\ failed' = [failed EXCEPT ![r] = {}]

Abort(r) == EndRequest(r) /\ UNCHANGED <<rows, jobs, fetched, used>>

BeginSubscribe(r, F) ==
  /\ op[r] = "idle"
  /\ op' = [op EXCEPT ![r] = "subscribe"]
  /\ todo' = [todo EXCEPT ![r] = F]
  /\ UNCHANGED <<rows, jobs, fetched, used, place, made, want, own, seen, broken, added, failed>>

BeginImport(r) ==
  /\ op[r] = "idle"
  /\ op' = [op EXCEPT ![r] = "import"]
  /\ UNCHANGED <<rows, jobs, fetched, used, todo, place, made, want, own, seen, broken,
                 added, failed>>

\* A service read what it needs and has decided to write x.
Decide(r, kind, x) ==
  /\ op[r] = "idle"
  /\ op' = [op EXCEPT ![r] = kind]
  /\ want' = [want EXCEPT ![r] = x]
  /\ UNCHANGED <<rows, jobs, fetched, todo, place, made, own, seen, broken, added, failed>>

\* create_folder makes folders at the root only; a known name is refused.
BeginCreate(r, n) ==
  /\ ~HasFolder(rows, n, NoFolder)
  /\ \E d \in Folders \ used :
       Decide(r, "create", FolderRow(d, n, NoFolder)) /\ used' = used \cup {d}

BeginRename(r, x, n) ==
  /\ x \in rows /\ x.kind = "folder"
  /\ x.name # n /\ ~HasFolder(rows, n, x.parent)
  /\ Decide(r, "rename", FolderRow(x.id, n, x.parent)) /\ UNCHANGED used

\* update_subscription: the body's folder_id is written, given or not.
BeginMove(r, x, d) ==
  /\ x \in rows /\ x.kind = "sub"
  /\ \/ d = NoFolder
     \/ \E y \in rows : y.kind = "folder" /\ y.id = d
  /\ Decide(r, "move", SubRow(x.feed, d)) /\ UNCHANGED used

\* delete_folder and the query of clear_folder.
BeginDelete(r, x) ==
  /\ x \in rows /\ x.kind = "folder"
  /\ op[r] = "idle"
  /\ op' = [op EXCEPT ![r] = "delete"]
  /\ want' = [want EXCEPT ![r] = x]
  /\ seen' = [seen EXCEPT ![r] = {y.feed : y \in {s \in rows : s.kind = "sub" /\ s.folder = x.id}}]
  /\ UNCHANGED <<rows, jobs, fetched, used, todo, place, made, own, broken, added, failed>>

(***************************************************************************)
(* Inserts.                                                                *)
(***************************************************************************)

\* subscribe_to_feeds comes to url f: what has no row yet is inserted next.
LookUp(r, f) ==
  /\ op[r] = "subscribe" /\ want[r] = NoRow /\ f \in todo[r]
  /\ want' = [want EXCEPT ![r] =
                CASE ~HasFeed(Visible(r), f) -> FeedRow(f)
                  [] HasFeed(Visible(r), f) /\ ~HasSub(Visible(r), f) -> SubRow(f, NoFolder)
                  [] OTHER -> NoRow]
  /\ todo' = [todo EXCEPT ![r] = IF HasSub(Visible(r), f) THEN @ \ {f} ELSE @]
  /\ UNCHANGED <<rows, jobs, fetched, used, op, place, made, own, seen, broken, added, failed>>

Importing(r) == op[r] = "import" /\ want[r] = NoRow /\ place[r] <= Len(Document)

\* _import_feed on an outline: skipped when subscribed; when its session is
\* broken every query raises, and the feed counts as failed.
WalkFeed(r) ==
  LET x == Document[place[r]] IN
  /\ Importing(r) /\ x.kind = "feed"
  /\ IF r \in broken \/ HasSub(Visible(r), x.feed)
       THEN /\ place' = [place EXCEPT ![r] = @ + 1]
            /\ failed' = [failed EXCEPT ![r] = IF r \in broken THEN @ \cup {x.feed} ELSE @]
            /\ want' = want
       ELSE /\ want' = [want EXCEPT ![r] = IF HasFeed(Visible(r), x.feed)
                                             THEN SubRow(x.feed, made[r][x.within])
                                             ELSE FeedRow(x.feed)]
            /\ UNCHANGED <<place, failed>>
  /\ UNCHANGED <<rows, jobs, fetched, used, op, todo, made, own, seen, broken, added>>

\* _get_or_create_folder; nothing catches its exceptions.
WalkFolder(r) ==
  LET x == Document[place[r]]
      p == made[r][x.within]
  IN
  /\ Importing(r) /\ x.kind = "folder" /\ r \notin broken
  /\ \/ \E y \in Visible(r) :
          /\ y.kind = "folder" /\ y.name = x.name /\ y.parent = p
          /\ made' = [made EXCEPT ![r][place[r]] = y.id]
          /\ place' = [place EXCEPT ![r] = @ + 1]
          /\ UNCHANGED <<want, used>>
     \/ /\ ~HasFolder(Visible(r), x.name, p)
        /\ \E d \in Folders \ used :
             /\ want' = [want EXCEPT ![r] = FolderRow(d, x.name, p)]
             /\ used' = used \cup {d}
        /\ UNCHANGED <<made, place>>
  /\ UNCHANGED <<rows, jobs, fetched, op, todo, own, seen, broken, added, failed>>

WalkFolderBroken(r) ==
  /\ Importing(r) /\ Document[place[r]].kind = "folder" /\ r \in broken
  /\ Abort(r)

Inserting(r) == op[r] \in {"subscribe", "import", "create"} /\ want[r] # NoRow

Refused(r) == \/ Key(want[r]) \in Keys(Visible(r))
              \/ ~Resolved(want[r], Visible(r))
              \/ Deadlocked(r)

\* Mutant of Counted: a feed counts as added when it is created.
CountedEarly(r, x) == IF op[r] = "import" /\ x.kind # "folder" THEN {x.feed} ELSE {}

\* What the importer counts as added when x is inserted.
Counted(r, x) == IF op[r] = "import" /\ x.kind = "sub" THEN {x.feed} ELSE {}

\* The insert succeeds.  A new feed of a subscription is subscribed to next; a
\* new feed of an import ends in with_session, which raises after the job is in
\* the queue, and counts as failed.
Insert(r) ==
  LET x == want[r] IN
  /\ Inserting(r) /\ ~Refused(r)
  /\ \A q \in Requests : ~WaitsFor(r, q)
  /\ own' = [own EXCEPT ![r] = @ \cup {x}]
  /\ want' = [want EXCEPT ![r] = IF op[r] = "subscribe" /\ x.kind = "feed"
                                   THEN SubRow(x.feed, NoFolder) ELSE NoRow]
  /\ todo' = [todo EXCEPT ![r] = IF x.kind = "sub" THEN @ \ {x.feed} ELSE @]
  /\ jobs' = IF \/ op[r] = "subscribe" /\ x.kind = "sub"
                \/ op[r] = "import" /\ x.kind = "feed" THEN jobs \cup ({x.feed} \cap Watched) ELSE jobs
  /\ place' = [place EXCEPT ![r] = IF op[r] = "import" THEN @ + 1 ELSE @]
  /\ made' = [made EXCEPT ![r][place[r]] =
                IF op[r] = "import" /\ x.kind = "folder" THEN x.id ELSE @]
  /\ added' = [added EXCEPT ![r] = @ \cup Counted(r, x)]
  /\ failed' = [failed EXCEPT ![r] =
                IF op[r] = "import" /\ x.kind = "feed" THEN @ \cup {x.feed} ELSE @]
  /\ UNCHANGED <<rows, fetched, used, op, seen, broken>>

\* The database refuses the insert of a feed or a subscription to the importer,
\* which goes on with a session that needs a rollback.
InsertRefusedImport(r) ==
  /\ Inserting(r) /\ Refused(r) /\ op[r] = "import" /\ want[r].kind # "folder"
  /\ broken' = broken \cup {r}
  /\ own' = [own EXCEPT ![r] = {}]
  /\ want' = [want EXCEPT ![r] = NoRow]
  /\ failed' = [failed EXCEPT ![r] = @ \cup {want[r].feed}]
  /\ place' = [place EXCEPT ![r] = @ + 1]
  /\ UNCHANGED <<rows, jobs, fetched, used, op, todo, made, seen, added>>

\* Any other insert that is refused ends the request with an error.
InsertRefused(r) ==
  /\ Inserting(r) /\ Refused(r)
  /\ op[r] # "import" \/ want[r].kind = "folder"
  /\ Abort(r)

(***************************************************************************)
(* Commits.                                                                *)
(***************************************************************************)

Done(r) ==
  /\ want[r] = NoRow
  /\ \/ op[r] = "subscribe" /\ todo[r] = {}
     \/ op[r] = "import" /\ place[r] > Len(Document) /\ r \notin broken
     \/ op[r] = "create" /\ own[r] # {}

\* Transaction.__aexit__ and the answer.
Commit(r) ==
  /\ Done(r)
  /\ rows' = rows \cup own[r]
  /\ EndRequest(r)
  /\ UNCHANGED <<jobs, fetched, used>>

\* The commit of a broken session raises, and the import is rolled back.
CommitBroken(r) ==
  /\ op[r] = "import" /\ place[r] > Len(Document) /\ r \in broken
  /\ Abort(r)

HeldElsewhere(r, k) == \E q \in Requests \ {r} : k \in Keys(own[q])

\* The flush of a rename, and its commit: name alone is written.
Rename(r) ==
  /\ op[r] = "rename"
  /\ \E x \in rows :
       LET y == FolderRow(x.id, want[r].name, x.parent) IN
       /\ x.kind = "folder" /\ x.id = want[r].id
       /\ ~HeldElsewhere(r, Key(y))
       /\ Key(y) \notin Keys(rows \ {x})
       /\ rows' = (rows \ {x}) \cup {y}
  /\ EndRequest(r)
  /\ UNCHANGED <<jobs, fetched, used>>

\* The folder is gone, or its new name is taken: StaleDataError, IntegrityError.
RenameRefused(r) ==
  /\ op[r] = "rename"
  /\ \A x \in rows :
       x.kind = "folder" /\ x.id = want[r].id
         => Key(FolderRow(x.id, want[r].name, x.parent)) \in Keys(rows \ {x})
  /\ Abort(r)

Move(r) ==
  /\ op[r] = "move"
  /\ Resolved(want[r], rows)
  /\ \E x \in rows :
       /\ x.kind = "sub" /\ x.feed = want[r].feed
       /\ rows' = (rows \ {x}) \cup {want[r]}
  /\ EndRequest(r)
  /\ UNCHANGED <<jobs, fetched, used>>

\* The subscription or the folder is gone.
MoveRefused(r) ==
  /\ op[r] = "move"
  /\ ~HasSub(rows, want[r].feed) \/ ~Resolved(want[r], rows)
  /\ Abort(r)

\* Mutants of WithoutFolder: subscriptions are deleted with their folder; those
\* that clear_folder did not find keep the id of the deleted folder.
WithoutFolderCascade(S, d, F) ==
  {IF x.kind = "folder" /\ x.parent = d THEN FolderRow(x.id, x.name, NoFolder) ELSE x :
     x \in {y \in S : /\ ~(y.kind = "folder" /\ y.id = d)
                      /\ ~(y.kind = "sub" /\ (y.folder = d \/ y.feed \in F))}}

WithoutFolderKept(S, d, F) ==
  {IF x.kind = "sub" /\ x.feed \in F THEN SubRow(x.feed, NoFolder)
   ELSE IF x.kind = "folder" /\ x.parent = d THEN FolderRow(x.id, x.name, NoFolder)
   ELSE x : x \in {y \in S : ~(y.kind = "folder" /\ y.id = d)}}

\* S after clear_folder's updates of the subscriptions in F and the deletion of
\* folder d: ON DELETE SET NULL for what still refers to it.
WithoutFolder(S, d, F) ==
  {IF x.kind = "sub" /\ (x.folder = d \/ x.feed \in F) THEN SubRow(x.feed, NoFolder)
   ELSE IF x.kind = "folder" /\ x.parent = d THEN FolderRow(x.id, x.name, NoFolder)
   ELSE x : x \in {y \in S : ~(y.kind = "folder" /\ y.id = d)}}

\* The subfolders of d, as they are when d is deleted.
Orphans(d) == {FolderRow(x.id, x.name, NoFolder) :
                 x \in {y \in rows : y.kind = "folder" /\ y.parent = d}}

OrphansCollide(d) == Keys(Orphans(d)) \cap Keys(rows) # {}

\* The rest of delete_folder: it waits for open transactions that refer to the
\* folder, or that hold the name one of its subfolders gets.
Delete(r) ==
  LET d == want[r].id IN
  /\ op[r] = "delete"
  /\ \A q \in Requests \ {r} : \A x \in own[q] : ~RefersTo(x, d)
  /\ \A k \in Keys(Orphans(d)) : ~HeldElsewhere(r, k)
  /\ ~OrphansCollide(d)
  /\ rows' = WithoutFolder(rows, d, seen[r])
  /\ EndRequest(r)
  /\ UNCHANGED <<jobs, fetched, used>>

\* A subfolder cannot become a root folder: there is one of its name.
DeleteRefused(r) ==
  /\ op[r] = "delete" /\ OrphansCollide(want[r].id)
  /\ Abort(r)

\* unsubscribe_from_feed: the row loaded, deleted and committed.  Its id is no
\* longer that of a subscription.
Unsubscribe(r, f) ==
  /\ op[r] = "idle" /\ HasSub(rows, f)
  /\ rows' = {x \in rows : ~(x.kind = "sub" /\ x.feed = f)}
  /\ seen' = [q \in Requests |-> seen[q] \ {f}]
  /\ UNCHANGED <<jobs, fetched, used, op, todo, place, made, want, own, broken, added, failed>>

(***************************************************************************)
(* The queue, the poller and other users.                                  *)
(***************************************************************************)

\* FetchFeedJob: a feed that has no row yet is logged and the job is OK.
RunFetchJob(f) ==
  /\ f \in jobs
  /\ jobs' = jobs \ {f}
  /\ fetched' = IF HasFeed(rows, f) THEN fetched \cup {f} ELSE fetched
  /\ UNCHANGED <<rows, used, subsSession>>

\* Mutant of PollFeed: a feed that was never fetched is not due.
PollFeedStale(f) ==
  /\ HasFeed(rows, f) /\ f \in fetched
  /\ fetched' = fetched \cup {f}
  /\ UNCHANGED <<rows, jobs, used, subsSession>>

\* The recurring poll finds every feed that was never fetched.
PollFeed(f) ==
  /\ HasFeed(rows, f) /\ f \notin fetched
  /\ fetched' = fetched \cup {f}
  /\ UNCHANGED <<rows, jobs, used, subsSession>>

\* Another user subscribes to a new feed.
OthersSubscribe(f) ==
  /\ ~HasFeed(rows, f)
  /\ \A q \in Requests : FeedRow(f) \notin own[q]
  /\ rows' = rows \cup {FeedRow(f)}
  /\ UNCHANGED <<jobs, fetched, used, subsSession>>

Starts(r) ==
  \/ \E F \in (SUBSET Feeds) \ {{}} : BeginSubscribe(r, F)
  \/ BeginImport(r)
  \/ \E n \in Names : BeginCreate(r, n)
  \/ \E x \in rows : BeginDelete(r, x) \/ \E n \in Names : BeginRename(r, x, n)
  \/ \E x \in rows, d \in FolderRef : BeginMove(r, x, d)
  \/ \E f \in Feeds : Unsubscribe(r, f)

Step(r) ==
  \/ \E f \in Feeds : LookUp(r, f)
  \/ WalkFeed(r) \/ WalkFolder(r) \/ WalkFolderBroken(r)
  \/ Insert(r) \/ InsertRefusedImport(r) \/ InsertRefused(r)
  \/ Commit(r) \/ CommitBroken(r)
  \/ Rename(r) \/ RenameRefused(r) \/ Move(r) \/ MoveRefused(r)
  \/ Delete(r) \/ DeleteRefused(r)

SubsNext ==
  \/ \E r \in Requests : Starts(r) \/ Step(r)
  \/ \E f \in Watched : RunFetchJob(f) \/ PollFeed(f)
  \/ \E f \in Feeds : OthersSubscribe(f)

SubsSpec == SubsInit /\ [][SubsNext]_subsVars

(***************************************************************************)
(* Properties.                                                             *)
(***************************************************************************)

\* The race of two requests that both found no subscription, or no folder of a
\* name, ends with one row: a user has one subscription to a feed, and no two
\* folders with the same parent have the same name, whoever created, renamed,
\* imported or orphaned them.
UniqueKeys ==
  \A x, y \in rows :
    (\/ x.kind = "sub" /\ y.kind = "sub" /\ x.feed = y.feed
     \/ /\ x.kind = "folder" /\ y.kind = "folder"
        /\ (x.id = y.id \/ (x.name = y.name /\ x.parent = y.parent)))
      => x = y

\* A committed subscription or folder never refers to a feed or folder that is
\* gone, also when that is deleted while the row that refers to it is written.
NoDangling == \A x \in rows : Resolved(x, rows)

\* A subscription ends when the user unsubscribes and in no other way: deleting
\* the folder it is in, or importing it again, keeps it.
OnlyUnsubscribeRemoves ==
  [][\A f \in Feeds : HasSub(rows, f) /\ ~HasSub(rows', f)
       => \E r \in Requests : Unsubscribe(r, f)]_subsVars

\* What an import that succeeds reports as added is subscribed to, and what it
\* reports as failed is not a subscription it made.
ReportIsTrue ==
  [][\A r \in Requests : op[r] = "import" /\ op'[r] = "idle" /\ Commit(r)
       => /\ \A f \in added[r] : HasSub(rows', f)
          /\ \A f \in failed[r] \ added[r] : HasSub(rows', f) => HasSub(rows, f)]_subsVars

\* A feed somebody subscribed to is fetched at some time, also when its
\* FetchFeedJob ran before the subscription was committed.
SubscribedIsFetched ==
  \A f \in Watched : HasSub(rows, f) ~> f \in fetched

\* tests/services/test_opml_importer_service.py: importing three feeds that are
\* new answers added == 3 and failed == 0.
ImportSubscribes ==
  [][\A r \in Requests : op[r] = "import" /\ op'[r] = "idle" /\ Commit(r)
       => failed[r] = {}]_subsVars
================================================================================
