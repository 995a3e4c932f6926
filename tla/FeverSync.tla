------------------------------- MODULE FeverSync -------------------------------
(***************************************************************************)
(* A Fever client that copies the articles of its user page by page        *)
(* (FeverService.handle_request, ArticleRepository.get_fever_articles),    *)
(* while feeds are fetched, subscribed to and unsubscribed from, and       *)
(* articles are read.  A client pages backwards with max_id, forwards with *)
(* since_id, or asks for unread_item_ids and fetches those with with_ids.  *)
(*                                                                         *)
(* An article gets its uuid7 when it is built, long before the transaction *)
(* of its poll commits, so ids become visible in any order.                *)
(***************************************************************************)
EXTENDS Naturals, FiniteSets

CONSTANTS
  MaxItems, \* bound: articles that are built; they get 1, 2, ... for their uuid7
  PageLimit \* FEVER_ITEMS_PAGE_SIZE

ASSUME FeverAssumption == MaxItems \in Nat /\ PageLimit \in Nat \ {0}

VARIABLES
  last,     \* the id that was given last
  minting,  \* ids of articles that are built and not committed
  items,    \* ids of the committed articles of the user's feeds
  unread,   \* those of them without a status row that says is_read
  way,      \* how the client walks: "none", "max", "since" or "ids"
  ended,    \* whether the walk got all it asked for
  edge,     \* the max_id or since_id of its next request, in a set
  wanted,   \* the ids it still has to fetch with with_ids
  received, \* the items it received on this walk
  blank,    \* history: an error on this walk was answered with an empty page
  owed      \* history: what was there when the walk began, and still is

walker    == <<way, ended, edge, wanted, received>>
feverVars == <<last, minting, items, unread, walker, blank, owed>>

Minted == 1..last

\* A type for every variable.
FeverTypeOK ==
  /\ last \in 0..MaxItems
  /\ minting \subseteq Minted /\ items \subseteq Minted
  /\ unread \subseteq items /\ owed \subseteq items
  /\ way \in {"none", "max", "since", "ids"}
  /\ ended \in BOOLEAN /\ blank \in BOOLEAN
  /\ edge \in {{}} \cup {{i} : i \in 0..last}
  /\ wanted \subseteq Minted /\ received \subseteq Minted

FeverInit ==
  /\ last = 0
  /\ minting = {} /\ items = {} /\ unread = {}
  /\ way = "none" /\ ended = FALSE /\ blank = FALSE /\ edge = {}
  /\ wanted = {} /\ received = {} /\ owed = {}

(***************************************************************************)
(* The table.                                                              *)
(***************************************************************************)

\* A poll builds an article: its id is above all earlier ones.
Mint ==
  /\ last < MaxItems
  /\ last' = last + 1
  /\ minting' = minting \cup {last'}
  /\ UNCHANGED <<items, unread, walker, blank, owed>>

CommitItems(C) ==
  /\ C \subseteq minting /\ C # {}
  /\ minting' = minting \ C
  /\ items' = items \cup C
  /\ unread' = unread \cup C
  /\ UNCHANGED <<last, walker, blank, owed>>

\* The feed of the article is unsubscribed from.
Leave(i) ==
  /\ i \in items
  /\ items' = items \ {i} /\ unread' = unread \ {i} /\ owed' = owed \ {i}
  /\ UNCHANGED <<last, minting, walker, blank>>

\* It is subscribed to again; a status row that is left may say it was read.
Return(i) ==
  /\ i \in Minted \ (minting \cup items)
  /\ items' = items \cup {i} /\ unread' \in {unread, unread \cup {i}}
  /\ UNCHANGED <<last, minting, walker, blank, owed>>

MarkOnWeb(i) ==
  /\ i \in items
  /\ unread' = IF i \in unread THEN unread \ {i} ELSE unread \cup {i}
  /\ UNCHANGED <<last, minting, items, walker, blank, owed>>

(***************************************************************************)
(* The requests.                                                           *)
(***************************************************************************)

\* Mutant of Page: ORDER BY id, without the desc().
PageOldest(M, P) ==
  /\ P \subseteq M
  /\ Cardinality(P) = PageLimit \/ (P = M /\ Cardinality(M) <= PageLimit)
  /\ \A i \in P, j \in M \ P : i < j

\* P is the answer when the articles in M match: the greatest ids, up to the limit.
Page(M, P) ==
  /\ P \subseteq M
  /\ Cardinality(P) = PageLimit \/ (P = M /\ Cardinality(M) <= PageLimit)
  /\ \A i \in P, j \in M \ P : j < i

\* The answer is the page, or empty: an exception is caught, and looks like the end.
Answered(M, P) ==
  \/ Page(M, P) /\ blank' = blank
  \/ P = {} /\ blank' = TRUE

Start(w, goal) ==
  /\ way' = w /\ ended' = FALSE /\ blank' = FALSE /\ received' = {}
  /\ owed' = goal
  /\ UNCHANGED <<last, minting, items, unread>>

WalkBack  == Start("max", items) /\ edge' = {} /\ wanted' = {}
\* The client had everything up to i.
WalkOn(i) == Start("since", {j \in items : i < j}) /\ edge' = {i} /\ wanted' = {}
\* unread_item_ids.
AskUnread == Start("ids", unread) /\ edge' = {} /\ wanted' = unread

\* items with max_id, but for the first request: all that is left is older.
PageBack ==
  /\ way = "max" /\ ~ended
  /\ \E P \in SUBSET items :
       /\ Answered({i \in items : \A e \in edge : i < e}, P)
       /\ received' = received \cup P
       /\ ended' = (P = {})
       /\ IF P = {} THEN edge' = edge
          ELSE \E i \in P : edge' = {i} /\ \A j \in P : i <= j
  /\ UNCHANGED <<last, minting, items, unread, way, wanted, owed>>

\* items with since_id, which becomes the greatest id of the page.
PageOn ==
  /\ way = "since" /\ ~ended
  /\ \E P \in SUBSET items :
       /\ Answered({i \in items : \A e \in edge : e < i}, P)
       /\ received' = received \cup P
       /\ ended' = (P = {})
       /\ IF P = {} THEN edge' = edge
          ELSE \E i \in P : edge' = {i} /\ \A j \in P : j <= i
  /\ UNCHANGED <<last, minting, items, unread, way, wanted, owed>>

\* items with with_ids: no more ids than fit on a page.
FetchIds(W) ==
  /\ way = "ids" /\ ~ended
  /\ W \subseteq wanted /\ (W = {} => wanted = {}) /\ Cardinality(W) <= PageLimit
  /\ \E P \in SUBSET items : Answered(items \cap W, P) /\ received' = received \cup P
  /\ wanted' = wanted \ W
  /\ ended' = (wanted = W)
  /\ UNCHANGED <<last, minting, items, unread, way, edge, owed>>

FeverNext ==
  \/ Mint
  \/ \E i \in Minted : Leave(i) \/ Return(i) \/ MarkOnWeb(i)
  \/ \E i \in 0..last : WalkOn(i)
  \/ \E C \in SUBSET minting : CommitItems(C)
  \/ WalkBack \/ AskUnread \/ PageBack \/ PageOn
  \/ \E W \in SUBSET wanted : FetchIds(W)

FeverSpec == FeverInit /\ [][FeverNext]_feverVars

-----------------------------------------------------------------------------
\* A client that pages backwards, or that fetches what it was told is unread, ends
\* up with every article that was there when it began and stayed, unless a request
\* failed: whatever is committed, read or unsubscribed from between its requests,
\* and in whichever order ids become visible.
PagedWhole == ended /\ ~ blank /\ way \in {"max", "ids"} => owed \subseteq received

\* The same of a client that pages forwards, which docs/FEVER.md offers.
ForwardPagedWhole == ended /\ ~ blank /\ way = "since" => owed \subseteq received

\* Before the end: what the walk owes and has not received is still asked for.
StillAsked == ~ blank =>
  /\ way = "max" => \A i \in owed : i \in received \/ \A e \in edge : i < e
  /\ way = "ids" => owed \subseteq received \cup wanted
=============================================================================
