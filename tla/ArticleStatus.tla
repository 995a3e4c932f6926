------------------------------- MODULE ArticleStatus -------------------------------
(***************************************************************************)
(* Which articles one user has read, starred and bookmarked, written by    *)
(* the web application (ArticleService.update_article_status), by Fever    *)
(* clients (FeverService._handle_mark) and swept by SweepArticleJob.       *)
(*                                                                         *)
(* A client looks at the status row of an article in one statement and     *)
(* writes it in another; SQLAlchemy writes the columns whose value differs *)
(* from the one loaded.  A date is modelled by whether it is set.          *)
(***************************************************************************)
EXTENDS Naturals, FiniteSets

CONSTANTS
  Articles,   \* articles in the database
  Clients,    \* requests of the user that can run at once
  Old,        \* articles published before the retention period
  Columns,    \* bound: the columns that requests set
  Subscribed, \* articles of feeds the user subscribes to
  NoStatus,   \* no status row
  NotLoaded   \* the row was not queried

Row == [read : BOOLEAN, starred : BOOLEAN, bookmarked : BOOLEAN,
        readAt : BOOLEAN, bookmarkedAt : BOOLEAN]

ASSUME ArticleStatusAssumption ==
  /\ Subscribed \subseteq Articles /\ Old \subseteq Articles
  /\ Columns \subseteq {"read", "starred", "bookmarked"} /\ "read" \in Columns
  /\ NoStatus # NotLoaded /\ NoStatus \notin Row

VARIABLES
  articles, \* committed articles
  status,   \* status[a]: the committed status row of a
  act,      \* act[c]: what client c does
  body,     \* body[c]: the column c sets, and its value
  left,     \* left[c]: articles c has not come to
  loaded,   \* loaded[c]: the row it loaded for the article it works on
  own,      \* own[c]: articles with a status row c inserted, not committed
  doomed    \* articles SweepArticleJob deleted and has not committed

client     == <<act, body, left, loaded, own>>
statusVars == <<articles, status, client, doomed>>

Bodies == [column : Columns, value : BOOLEAN]
NoBody == [column |-> "read", value |-> FALSE]

\* A row is a Row or absent: a type for every variable.
StatusTypeOK ==
  /\ articles \subseteq Articles /\ doomed \subseteq Articles
  /\ status \in [Articles -> Row \cup {NoStatus}]
  /\ act \in [Clients -> {"idle", "web", "item", "feed", "group"}]
  /\ body \in [Clients -> Bodies]
  /\ left \in [Clients -> SUBSET Articles]
  /\ loaded \in [Clients -> {NotLoaded} \cup
                   [article : Articles, row : Row \cup {NoStatus}]]
  /\ own \in [Clients -> SUBSET Articles]

StatusInit ==
  /\ articles = Articles /\ doomed = {}
  /\ status = [a \in Articles |-> NoStatus]
  /\ act = [c \in Clients |-> "idle"]
  /\ body = [c \in Clients |-> NoBody]
  /\ left = [c \in Clients |-> {}]
  /\ loaded = [c \in Clients |-> NotLoaded]
  /\ own = [c \in Clients |-> {}]

BlankRow == [read |-> FALSE, starred |-> FALSE, bookmarked |-> FALSE,
             readAt |-> FALSE, bookmarkedAt |-> FALSE]

(***************************************************************************)
(* Requests begin.                                                         *)
(***************************************************************************)

BeginClient(c, kind, b, S) ==
  /\ act[c] = "idle"
  /\ act' = [act EXCEPT ![c] = kind]
  /\ body' = [body EXCEPT ![c] = b]
  /\ left' = [left EXCEPT ![c] = S]
  /\ UNCHANGED <<articles, status, loaded, own, doomed>>

BeginWeb(c, a, b) == a \in articles /\ BeginClient(c, "web", b, {a})

\* mark=item: the article must be of a feed of the user.
BeginItem(c, a, b) ==
  /\ a \in articles \cap Subscribed /\ b.column \in {"read", "starred"}
  /\ BeginClient(c, "item", b, {a})

\* mark=feed and mark=group with as=read: the articles S up to a date.
BeginMany(c, kind, S) ==
  /\ kind \in {"feed", "group"} /\ S \subseteq articles /\ S # {}
  /\ BeginClient(c, kind, [column |-> "read", value |-> TRUE], S)

(***************************************************************************)
(* One article of a request: the query, then the write.                    *)
(***************************************************************************)

LookStatus(c, a) ==
  /\ act[c] # "idle" /\ loaded[c] = NotLoaded /\ a \in left[c]
  /\ loaded' = [loaded EXCEPT ![c] = [article |-> a, row |-> status[a]]]
  /\ UNCHANGED <<articles, status, act, body, left, own, doomed>>

\* Mutant of Dated: a bookmark is dated whichever way it changes.
DatedAlways(r, l, b) ==
  IF b.value = l[b.column] THEN r
  ELSE CASE b.column = "read" -> [r EXCEPT !.readAt = b.value]
         [] b.column = "bookmarked" -> [r EXCEPT !.bookmarkedAt = TRUE]
         [] OTHER -> r

\* The web application dates a column when its value differs from the loaded one.
Dated(r, l, b) ==
  IF b.value = l[b.column] THEN r
  ELSE CASE b.column = "read" -> [r EXCEPT !.readAt = b.value]
         [] b.column = "bookmarked" -> [r EXCEPT !.bookmarkedAt = b.value]
         [] OTHER -> r

\* Mutant of Written: the row is written as it was loaded, all its columns.
WrittenWhole(r, l, b) == [l EXCEPT ![b.column] = b.value]

\* The row r when b is written through an object that was loaded as l.
Written(r, l, b) == IF b.value = l[b.column] THEN r ELSE [r EXCEPT ![b.column] = b.value]

NewStatus(c) ==
  IF act[c] = "web" THEN Dated(Written(BlankRow, BlankRow, body[c]), BlankRow, body[c])
  ELSE Written(BlankRow, BlankRow, body[c])

ChangedStatus(c, r) ==
  LET l == loaded[c].row IN
  IF act[c] = "web" THEN Dated(Written(r, l, body[c]), l, body[c])
  ELSE Written(r, l, body[c])

\* A commit makes the rows c inserted visible.
WithOwn(c) == [a \in Articles |->
                 IF a \in own[c] THEN Written(BlankRow, BlankRow, body[c]) ELSE status[a]]

\* c has finished with article a; a request without articles left is answered.
NextArticle(c, a) ==
  /\ loaded' = [loaded EXCEPT ![c] = NotLoaded]
  /\ left' = [left EXCEPT ![c] = @ \ {a}]
  /\ act' = [act EXCEPT ![c] = IF left[c] = {a} THEN "idle" ELSE @]
  /\ body' = [body EXCEPT ![c] = IF left[c] = {a} THEN NoBody ELSE @]

\* The deletes of the sweep and the inserts of others hold locks.
Blocked(c, a) == a \in doomed \/ \E q \in Clients \ {c} : a \in own[q]

\* No row was found: it is inserted, and committed but for mark=group, where it
\* waits for the update of another article or is dropped with the session.
CreateStatus(c) ==
  LET a == loaded[c].article IN
  /\ loaded[c] # NotLoaded /\ loaded[c].row = NoStatus
  /\ status[a] = NoStatus /\ ~Blocked(c, a)
  /\ IF act[c] = "group"
       THEN /\ status' = status
            /\ own' = [own EXCEPT ![c] = IF left[c] = {a} THEN {} ELSE @ \cup {a}]
       ELSE /\ status' = [WithOwn(c) EXCEPT ![a] = NewStatus(c)]
            /\ own' = [own EXCEPT ![c] = {}]
  /\ NextArticle(c, a)
  /\ UNCHANGED <<articles, doomed>>

\* uq_article_status_article_user: another client created the row meanwhile.  The
\* request ends; Fever logs the exception and answers as if nothing happened.
CreateRefused(c) ==
  LET a == loaded[c].article IN
  /\ loaded[c] # NotLoaded /\ loaded[c].row = NoStatus /\ status[a] # NoStatus
  /\ own' = [own EXCEPT ![c] = {}]
  /\ loaded' = [loaded EXCEPT ![c] = NotLoaded]
  /\ left' = [left EXCEPT ![c] = {}]
  /\ act' = [act EXCEPT ![c] = "idle"]
  /\ body' = [body EXCEPT ![c] = NoBody]
  /\ UNCHANGED <<articles, status, doomed>>

UpdateStatus(c) ==
  LET a == loaded[c].article IN
  /\ loaded[c] # NotLoaded /\ loaded[c].row # NoStatus /\ ~Blocked(c, a)
  /\ status' = [WithOwn(c) EXCEPT ![a] = ChangedStatus(c, status[a])]
  /\ own' = [own EXCEPT ![c] = {}]
  /\ NextArticle(c, a)
  /\ UNCHANGED <<articles, doomed>>

(***************************************************************************)
(* SweepArticleJob.                                                        *)
(***************************************************************************)

\* Mutant of Deletable: bookmarks are forgotten.
DeletableBookmarked(a) == status[a] # NoStatus => status[a].read /\ ~status[a].starred

\* The subquery of delete_old_unstarred_unbookmarked_articles: no status row is
\* unread, starred or bookmarked.
Deletable(a) ==
  status[a] # NoStatus
    => status[a].read /\ ~status[a].starred /\ ~status[a].bookmarked

SweepDelete ==
  /\ doomed = {}
  /\ doomed' = {a \in Old \cap articles : Deletable(a)}
  /\ doomed' # {}
  /\ UNCHANGED <<articles, status, client>>

\* The session is closed, and was not committed.
SweepEnd ==
  /\ doomed # {} /\ doomed' = {}
  /\ UNCHANGED <<articles, status, client>>

StatusNext ==
  \/ \E c \in Clients :
       \/ \E a \in Articles, b \in Bodies : BeginWeb(c, a, b) \/ BeginItem(c, a, b)
       \/ \E kind \in {"feed", "group"}, S \in SUBSET Articles : BeginMany(c, kind, S)
       \/ \E a \in Articles : LookStatus(c, a)
       \/ CreateStatus(c) \/ CreateRefused(c) \/ UpdateStatus(c)
  \/ SweepDelete \/ SweepEnd

StatusSpec == StatusInit /\ [][StatusNext]_statusVars

(***************************************************************************)
(* Properties.                                                             *)
(***************************************************************************)

\* An article has a bookmark date exactly when it is bookmarked, however the
\* requests of the user overlap: the list of bookmarks is ordered by that date.
BookmarkDated ==
  \A a \in Articles :
    status[a] # NoStatus => (status[a].bookmarked <=> status[a].bookmarkedAt)

Value(s, a, k) == IF s[a] = NoStatus THEN FALSE ELSE s[a][k]

\* A column changes only to the value that a request, which writes now, was sent
\* with: marking as read from one client never undoes a star set in another.
OnlyAskedChanges ==
  [][\A a \in Articles, k \in Columns :
       Value(status, a, k) # Value(status', a, k)
         => \E c \in Clients : /\ act[c] # "idle" /\ loaded[c] # NotLoaded
                               /\ loaded'[c] = NotLoaded
                               /\ body[c] = [column |-> k, value |-> Value(status', a, k)]
    ]_statusVars

\* The sweep never deletes what the user starred or bookmarked.
SweepKeeps ==
  \A a \in doomed : status[a] # NoStatus => ~status[a].starred /\ ~status[a].bookmarked
================================================================================
