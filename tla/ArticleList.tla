------------------------------- MODULE ArticleList -------------------------------
(***************************************************************************)
(* A client that walks through the articles page by page                   *)
(* (ArticleService.list_articles, Paginator.execute_cursor), while feeds   *)
(* are fetched, articles are read and swept.  Every page is a request and  *)
(* a query of its own; all that is left of the page before it is the       *)
(* cursor: the ordering columns of its last row, which Filter.sort         *)
(* completes with the id.                                                  *)
(*                                                                         *)
(* The values of the columns of order_by are modelled by their rank in the *)
(* chosen order, the ids by their rank in the direction sort adds them.    *)
(***************************************************************************)
EXTENDS Naturals, FiniteSets

CONSTANTS
  Ids,      \* ids of articles
  Ranks,    \* ranks of the values of the columns in order_by
  PageSize, \* the size of CursorParams
  Absent    \* not in the list: not stored, or filtered out

ASSUME ArticleListAssumption ==
  /\ Ids \subseteq Nat /\ Ranks \subseteq Nat
  /\ PageSize \in Nat \ {0} /\ Absent \notin Ranks

VARIABLES
  rank,   \* rank[i]: the rank of article i in the table, or Absent
  walk,   \* "idle", "walking", or "done" when a page had no next one
  cursor, \* the last row of the last page, in a set
  times,  \* times[i]: how often the walk listed article i, counted to 2
  steady  \* history: articles in the list, unchanged, since the walk began

listVars == <<rank, walk, cursor, times, steady>>

Cursors == [rank : Ranks, id : Ids]
InList  == {i \in Ids : rank[i] # Absent}

\* A type for every variable.
ListTypeOK ==
  /\ rank \in [Ids -> Ranks \cup {Absent}]
  /\ walk \in {"idle", "walking", "done"}
  /\ cursor \in {{}} \cup {{c} : c \in Cursors}
  /\ times \in [Ids -> 0..2]
  /\ steady \subseteq Ids

ListInit ==
  /\ rank \in [Ids -> Ranks \cup {Absent}]
  /\ walk = "idle" /\ cursor = {}
  /\ times = [i \in Ids |-> 0]
  /\ steady = {}

\* Mutant of Precedes: Filter.sort without the id, so that articles of one rank
\* are on the same side of the cursor.
PrecedesUntied(r, i, s, j) == r < s

\* The order of Filter.sort: the columns of order_by, then the id.
Precedes(r, i, s, j) == r < s \/ (r = s /\ i < j)

\* The rows that the condition of the cursor leaves.
Ahead == {i \in InList : \A c \in cursor : Precedes(c.rank, c.id, rank[i], i)}

\* P is the first rows of Ahead, one page of them.
IsPage(P) ==
  /\ P \subseteq Ahead
  /\ \/ Cardinality(P) = PageSize
     \/ P = Ahead /\ Cardinality(P) <= PageSize
  /\ \A i \in P, j \in Ahead \ P : ~Precedes(rank[j], j, rank[i], i)

IsLast(i, P) == i \in P /\ \A j \in P : ~Precedes(rank[i], i, rank[j], j)

StartWalk ==
  /\ walk # "walking"
  /\ walk' = "walking" /\ cursor' = {}
  /\ times' = [i \in Ids |-> 0]
  /\ steady' = InList
  /\ UNCHANGED rank

\* execute_cursor: a page, and the cursor of the next one if there is more.
NextPage ==
  /\ walk = "walking"
  /\ \E P \in SUBSET Ids :
       /\ IsPage(P)
       /\ times' = [i \in Ids |-> IF i \notin P \/ times[i] = 2 THEN times[i] ELSE times[i] + 1]
       /\ \/ /\ P # Ahead /\ walk' = walk
             /\ \E i \in P : IsLast(i, P) /\ cursor' = {[rank |-> rank[i], id |-> i]}
          \/ P = Ahead /\ walk' = "done" /\ cursor' = {}
  /\ UNCHANGED <<rank, steady>>

\* Another transaction: an article is stored or swept, it enters or leaves the
\* filter (the user reads it), or a column it is ordered by is written.
Change(i, r) ==
  /\ rank[i] # r
  /\ rank' = [rank EXCEPT ![i] = r]
  /\ steady' = steady \ {i}
  /\ UNCHANGED <<walk, cursor, times>>

ListNext ==
  \/ StartWalk \/ NextPage
  \/ \E i \in Ids, r \in Ranks \cup {Absent} : Change(i, r)

ListSpec == ListInit /\ [][ListNext]_listVars

-----------------------------------------------------------------------------
\* A walk lists every article that was in the list from its beginning to its end,
\* and was not changed, exactly once, whatever else is stored, read, rewritten or
\* swept between its pages, and however many articles share a date.
ListedOnce == walk = "done" => \A i \in steady : times[i] = 1

\* Before the end: what the walk listed is behind the cursor, what it did not list
\* is ahead of it.
CursorDivides ==
  walk = "walking" =>
    \A i \in steady : IF i \in Ahead THEN times[i] = 0 ELSE times[i] = 1
=============================================================================
