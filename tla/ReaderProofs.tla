------------------------------ MODULE ReaderProofs ------------------------------
(***************************************************************************)
(* Proofs about what readers are shown and what they mark: the article     *)
(* list (ArticleList), the pages of a Fever client (FeverSync), the slugs  *)
(* of new articles (Slugs), the daily digests (ArticleDigest) and the      *)
(* status of articles (ArticleStatus), for any articles, page sizes,       *)
(* candidates, sessions, users, runs and clients.                          *)
(***************************************************************************)
EXTENDS ArticleList, FeverSync, Slugs, ArticleDigest, ArticleStatus, FiniteSetTheorems, TLAPS

(***************************************************************************)
(* ArticleList: a walk through the pages lists every article that stays as *)
(* it is exactly once.                                                     *)
(*                                                                         *)
(* The argument: Precedes is a strict total order on the pairs of rank and *)
(* id, so the cursor, the last pair of a page, has all of that page and of *)
(* the pages before it behind it and everything else ahead of it.          *)
(***************************************************************************)

\* The pairs are ordered totally ...
LEMMA PrecedesTotal ==
  ASSUME NEW r \in Nat, NEW i \in Nat, NEW s \in Nat, NEW j \in Nat, i # j
  PROVE  Precedes(r, i, s, j) \/ Precedes(s, j, r, i)
BY DEF Precedes

\* ... and transitively.
LEMMA PrecedesTransitive ==
  ASSUME NEW r \in Nat, NEW i \in Nat, NEW s \in Nat, NEW j \in Nat,
         NEW t \in Nat, NEW k \in Nat,
         Precedes(r, i, s, j), Precedes(s, j, t, k)
  PROVE  Precedes(r, i, t, k)
BY DEF Precedes

-----------------------------------------------------------------------------
\* What is in the list has a rank.
LEMMA AheadRanked ==
  ASSUME ListTypeOK, NEW i \in Ahead
  PROVE  i \in Ids /\ i \in Nat /\ rank[i] \in Ranks /\ rank[i] \in Nat
BY ArticleListAssumption DEF ListTypeOK, Ahead, InList

\* The variables have their types: what a query of list_articles leaves for the
\* next one is at most one cursor.
THEOREM ListTypeCorrect == ListSpec => []ListTypeOK
<1>1. ListInit => ListTypeOK
  BY DEF ListInit, ListTypeOK
<1>2. ListTypeOK /\ [ListNext]_listVars => ListTypeOK'
  <2> SUFFICES ASSUME ListTypeOK, [ListNext]_listVars PROVE ListTypeOK'
    OBVIOUS
  <2>1. CASE StartWalk
    BY <2>1 DEF StartWalk, ListTypeOK, InList
  <2>2. CASE NextPage
    <3>1. PICK P \in SUBSET Ids :
            /\ IsPage(P)
            /\ times' = [i \in Ids |-> IF i \notin P \/ times[i] = 2 THEN times[i]
                                       ELSE times[i] + 1]
            /\ \/ /\ P # Ahead /\ walk' = walk
                  /\ \E i \in P : IsLast(i, P) /\ cursor' = {[rank |-> rank[i], id |-> i]}
               \/ P = Ahead /\ walk' = "done" /\ cursor' = {}
      BY <2>2 DEF NextPage
    <3>2. times' \in [Ids -> 0..2]
      BY <3>1 DEF ListTypeOK
    <3>3. cursor' \in {{}} \cup {{c} : c \in Cursors}
      BY <3>1, AheadRanked DEF IsPage, Cursors
    <3>4. walk' \in {"idle", "walking", "done"}
      BY <3>1 DEF ListTypeOK
    <3> QED
      BY <2>2, <3>2, <3>3, <3>4 DEF NextPage, ListTypeOK
  <2>3. ASSUME NEW i \in Ids, NEW r \in Ranks \cup {Absent}, Change(i, r)
        PROVE  ListTypeOK'
    BY <2>3 DEF Change, ListTypeOK
  <2>4. CASE UNCHANGED listVars
    BY <2>4 DEF listVars, ListTypeOK, Cursors
  <2> QED
    BY <2>1, <2>2, <2>3, <2>4 DEF ListNext
<1> QED
  BY <1>1, <1>2, PTL DEF ListSpec

-----------------------------------------------------------------------------
\* The inductive invariant: an article that counts as steady is in the list.
ListInv == steady \subseteq InList /\ CursorDivides /\ ListedOnce

\* One page of the walk: what was behind the cursor stays there, what was listed
\* falls behind it, and the rest stays ahead.
LEMMA PageDivides ==
  ASSUME ListTypeOK, ListTypeOK', ListInv, NextPage
  PROVE  ListInv'
<1>1. PICK P \in SUBSET Ids :
        /\ IsPage(P)
        /\ times' = [i \in Ids |-> IF i \notin P \/ times[i] = 2 THEN times[i]
                                   ELSE times[i] + 1]
        /\ \/ /\ P # Ahead /\ walk' = walk
              /\ \E i \in P : IsLast(i, P) /\ cursor' = {[rank |-> rank[i], id |-> i]}
           \/ P = Ahead /\ walk' = "done" /\ cursor' = {}
  BY DEF NextPage
<1>2. walk = "walking" /\ rank' = rank /\ steady' = steady
  BY DEF NextPage
<1>3. (steady \subseteq InList)'
  BY <1>2 DEF ListInv, InList
<1>4. \A i \in steady : i \in Ids /\ i \in InList /\ (IF i \in Ahead THEN times[i] = 0 ELSE times[i] = 1)
  BY <1>2 DEF ListInv, CursorDivides, ListTypeOK
<1>5. ASSUME NEW i \in steady, i \in P
      PROVE  times'[i] = 1
  <2>1. times[i] = 0
    BY <1>1, <1>4, <1>5 DEF IsPage
  <2> QED
    BY <1>1, <1>4, <1>5, <2>1
<1>6. ASSUME NEW i \in steady, i \notin P
      PROVE  times'[i] = times[i]
  BY <1>1, <1>4, <1>6
<1>7. CASE P = Ahead /\ walk' = "done"
  <2>1. ListedOnce'
    BY <1>2, <1>4, <1>5, <1>6, <1>7 DEF ListedOnce
  <2> QED
    BY <1>3, <1>7, <2>1 DEF ListInv, CursorDivides
<1>8. CASE walk' = walk /\ \E i \in P : IsLast(i, P) /\ cursor' = {[rank |-> rank[i], id |-> i]}
  <2>1. PICK k \in P : IsLast(k, P) /\ cursor' = {[rank |-> rank[k], id |-> k]}
    BY <1>8
  <2>2. k \in Ahead /\ k \in Ids /\ k \in Nat /\ rank[k] \in Nat
    BY <1>1, <2>1, AheadRanked DEF IsPage
  <2>3. Ahead' = {i \in InList : Precedes(rank[k], k, rank[i], i)}
    BY <1>2, <2>1 DEF Ahead, InList
  <2>4. ASSUME NEW i \in steady PROVE i \in Nat /\ rank[i] \in Nat
    BY <1>4, ArticleListAssumption DEF InList, ListTypeOK
  <2>5. ASSUME NEW i \in steady, i \in P
        PROVE  i \notin Ahead' /\ times'[i] = 1
    BY <1>5, <2>1, <2>3, <2>5 DEF IsLast
  <2>6. ASSUME NEW i \in steady, i \notin P, i \in Ahead
        PROVE  i \in Ahead' /\ times'[i] = 0
    <3>1. ~Precedes(rank[i], i, rank[k], k)
      BY <1>1, <2>1, <2>6 DEF IsPage
    <3>2. Precedes(rank[k], k, rank[i], i)
      BY <2>2, <2>4, <2>6, <3>1, PrecedesTotal
    <3> QED
      BY <1>4, <1>6, <2>3, <2>6, <3>2
  <2>7. ASSUME NEW i \in steady, i \notin P, i \notin Ahead
        PROVE  i \notin Ahead' /\ times'[i] = 1
    <3>1. PICK c \in cursor : ~Precedes(c.rank, c.id, rank[i], i)
      BY <1>4, <2>7 DEF Ahead
    <3>2. c.rank \in Nat /\ c.id \in Nat
      BY ArticleListAssumption DEF ListTypeOK, Cursors
    <3>3. Precedes(c.rank, c.id, rank[k], k)
      BY <2>2 DEF Ahead
    <3>4. ~Precedes(rank[k], k, rank[i], i)
      BY <2>2, <2>4, <3>1, <3>2, <3>3, PrecedesTransitive
    <3> QED
      BY <1>4, <1>6, <2>3, <2>7, <3>4
  <2>8. CursorDivides'
    BY <1>2, <2>5, <2>6, <2>7 DEF CursorDivides
  <2> QED
    BY <1>2, <1>3, <1>8, <2>8 DEF ListInv, ListedOnce
<1> QED
  BY <1>1, <1>7, <1>8

\* Filter.sort always ends in the id; so, whatever is stored, read, rewritten or
\* swept between two pages, execute_cursor lists each steady article once.
THEOREM ListedOnceHolds == ListSpec => [](CursorDivides /\ ListedOnce)
<1>1. ListInit => ListInv
  BY DEF ListInit, ListInv, CursorDivides, ListedOnce
<1>2. ListTypeOK /\ ListTypeOK' /\ ListInv /\ [ListNext]_listVars => ListInv'
  <2> SUFFICES ASSUME ListTypeOK, ListTypeOK', ListInv, [ListNext]_listVars PROVE ListInv'
    OBVIOUS
  <2>1. CASE StartWalk
    <3>1. Ahead' = InList' /\ InList' = InList
      BY <2>1 DEF StartWalk, Ahead, InList
    <3>2. InList \subseteq Ids
      BY DEF InList
    <3> QED
      BY <2>1, <3>1, <3>2 DEF StartWalk, ListInv, CursorDivides, ListedOnce
  <2>2. CASE NextPage
    BY <2>2, PageDivides
  <2>3. ASSUME NEW i \in Ids, NEW r \in Ranks \cup {Absent}, Change(i, r)
        PROVE  ListInv'
    <3>1. \A k \in steady' : k \in steady /\ k \in Ids /\ rank'[k] = rank[k]
      BY <2>3 DEF Change, ListTypeOK
    <3>2. \A k \in steady' : (k \in InList' <=> k \in InList) /\ (k \in Ahead' <=> k \in Ahead)
      BY <2>3, <3>1 DEF Change, InList, Ahead
    <3> QED
      BY <2>3, <3>1, <3>2 DEF Change, ListInv, CursorDivides, ListedOnce
  <2>4. CASE UNCHANGED listVars
    BY <2>4 DEF listVars, ListInv, InList, CursorDivides, ListedOnce, Ahead
  <2> QED
    BY <2>1, <2>2, <2>3, <2>4 DEF ListNext
<1>3. ListInv => CursorDivides /\ ListedOnce
  BY DEF ListInv
<1> QED
  BY <1>1, <1>2, <1>3, ListTypeCorrect, PTL DEF ListSpec

-----------------------------------------------------------------------------
(***************************************************************************)
(* FeverSync: a client that pages backwards, or fetches the ids it was     *)
(* told, misses nothing that was there and stayed.                         *)
(*                                                                         *)
(* The argument: StillAsked.  A page has the greatest ids that match, so   *)
(* what the walk owes is on it or below its least id, where the next page  *)
(* begins.  An article that is committed late is owed to no one.           *)
(***************************************************************************)

\* An answer is a page or nothing, of what is in the table.
LEMMA AnswerTyped ==
  ASSUME NEW M, NEW P \in SUBSET items, Answered(M, P)
  PROVE  blank' \in {TRUE, blank}
BY DEF Answered

\* The variables have their types: no request gives an id that is not in the table.
THEOREM FeverTypeCorrect == FeverSpec => []FeverTypeOK
<1>1. FeverInit => FeverTypeOK
  <2> SUFFICES ASSUME FeverInit PROVE FeverTypeOK
    OBVIOUS
  <2>1. edge \in {{}} \cup {{i} : i \in 0..last}
    BY DEF FeverInit
  <2>2. last \in 0..MaxItems
    BY FeverAssumption DEF FeverInit
  <2>3. minting = {} /\ items = {} /\ unread = {} /\ owed = {} /\ wanted = {} /\ received = {}
    BY DEF FeverInit
  <2>4. way \in {"none", "max", "since", "ids"} /\ ended \in BOOLEAN /\ blank \in BOOLEAN
    BY DEF FeverInit
  <2> QED
    BY <2>1, <2>2, <2>3, <2>4 DEF FeverTypeOK
<1>2. FeverTypeOK /\ [FeverNext]_feverVars => FeverTypeOK'
  <2> SUFFICES ASSUME FeverTypeOK, [FeverNext]_feverVars PROVE FeverTypeOK'
    OBVIOUS
  <2>1. CASE Mint
    <3>1. last' \in 0..MaxItems /\ Minted \subseteq Minted' /\ last' \in Minted' /\ 0..last \subseteq 0..last'
      BY <2>1, FeverAssumption DEF Mint, Minted, FeverTypeOK
    <3> QED
      BY <2>1, <3>1 DEF Mint, FeverTypeOK, walker
  <2>2. ASSUME NEW C \in SUBSET minting, CommitItems(C) PROVE FeverTypeOK'
    BY <2>2 DEF CommitItems, FeverTypeOK, Minted, walker
  <2>3. ASSUME NEW i \in Minted, Leave(i) PROVE FeverTypeOK'
    BY <2>3 DEF Leave, FeverTypeOK, Minted, walker
  <2>4. ASSUME NEW i \in Minted, Return(i) PROVE FeverTypeOK'
    BY <2>4 DEF Return, FeverTypeOK, Minted, walker
  <2>5. ASSUME NEW i \in Minted, MarkOnWeb(i) PROVE FeverTypeOK'
    BY <2>5 DEF MarkOnWeb, FeverTypeOK, Minted, walker
  <2>6. CASE WalkBack \/ AskUnread
    BY <2>6 DEF WalkBack, AskUnread, Start, FeverTypeOK, Minted
  <2>7. ASSUME NEW i \in 0..last, WalkOn(i) PROVE FeverTypeOK'
    BY <2>7 DEF WalkOn, Start, FeverTypeOK, Minted
  <2>8. CASE PageBack \/ PageOn
    <3>1. PICK P \in SUBSET items :
            /\ received' = received \cup P
            /\ ended' = (P = {})
            /\ blank' \in {TRUE, blank}
            /\ edge' = edge \/ \E i \in P : edge' = {i}
      BY <2>8, AnswerTyped DEF PageBack, PageOn
    <3>2. P \subseteq Minted /\ Minted \subseteq 0..last
      BY FeverAssumption DEF FeverTypeOK, Minted
    <3>3. edge' \in {{}} \cup {{i} : i \in 0..last}
      BY <3>1, <3>2 DEF FeverTypeOK
    <3>4. UNCHANGED <<last, minting, items, unread, way, wanted, owed>>
      BY <2>8 DEF PageBack, PageOn
    <3> QED
      BY <3>1, <3>2, <3>3, <3>4 DEF FeverTypeOK, Minted
  <2>9. ASSUME NEW W \in SUBSET wanted, FetchIds(W) PROVE FeverTypeOK'
    <3>1. PICK P \in SUBSET items :
            received' = received \cup P /\ blank' \in {TRUE, blank}
      BY <2>9, AnswerTyped DEF FetchIds
    <3> QED
      BY <2>9, <3>1 DEF FetchIds, FeverTypeOK, Minted
  <2>10. CASE UNCHANGED feverVars
    BY <2>10 DEF feverVars, walker, FeverTypeOK, Minted
  <2> QED
    BY <2>1, <2>2, <2>3, <2>4, <2>5, <2>6, <2>7, <2>8, <2>9, <2>10 DEF FeverNext
<1> QED
  BY <1>1, <1>2, PTL DEF FeverSpec

\* The inductive invariant.
FeverInv == StillAsked /\ PagedWhole

\* The next page, or the last: what is not on it is below it.
LEMMA PageBackKeeps ==
  ASSUME FeverTypeOK, FeverInv, PageBack
  PROVE  FeverInv'
<1>1. PICK P \in SUBSET items :
        /\ Answered({i \in items : \A e \in edge : i < e}, P)
        /\ received' = received \cup P
        /\ ended' = (P = {})
        /\ IF P = {} THEN edge' = edge
           ELSE \E i \in P : edge' = {i} /\ \A j \in P : i <= j
  BY DEF PageBack
<1>2. way = "max" /\ way' = way /\ owed' = owed
  BY DEF PageBack
<1>3. CASE blank'
  BY <1>3 DEF FeverInv, StillAsked, PagedWhole
<1>4. CASE ~ blank'
  <2>1. ~ blank /\ Page({i \in items : \A e \in edge : i < e}, P)
    BY <1>1, <1>4 DEF Answered, FeverTypeOK
  <2>2. \A i \in owed : i \in items /\ i \in Nat /\ (i \in received \/ \A e \in edge : i < e)
    BY <1>2, <2>1, FeverAssumption DEF FeverInv, StillAsked, FeverTypeOK, Minted
  <2>3. CASE P = {}
    <3>1. Cardinality(P) # PageLimit
      BY <2>3, FS_EmptySet, FeverAssumption
    <3>2. P = {i \in items : \A e \in edge : i < e}
      BY <2>1, <3>1 DEF Page
    <3> QED
      BY <1>1, <1>2, <2>2, <2>3, <3>2 DEF FeverInv, StillAsked, PagedWhole
  <2>4. CASE P # {}
    <3>1. PICK k \in P : edge' = {k} /\ \A j \in P : k <= j
      BY <1>1, <2>4
    <3>2. k \in Nat
      BY FeverAssumption DEF FeverTypeOK, Minted
    <3>3. ASSUME NEW i \in owed, i \notin received, i \notin P PROVE i < k
      BY <2>1, <2>2, <3>1, <3>3 DEF Page
    <3> QED
      BY <1>1, <1>2, <2>2, <2>4, <3>1, <3>3 DEF FeverInv, StillAsked, PagedWhole
  <2> QED
    BY <2>3, <2>4
<1> QED
  BY <1>3, <1>4

\* A request for ids that fit on a page is answered with all that are left of them.
LEMMA FetchKeeps ==
  ASSUME FeverTypeOK, FeverInv, NEW W \in SUBSET wanted, FetchIds(W)
  PROVE  FeverInv'
<1>1. PICK P \in SUBSET items : Answered(items \cap W, P) /\ received' = received \cup P
  BY DEF FetchIds
<1>2. way = "ids" /\ way' = way /\ owed' = owed /\ wanted' = wanted \ W /\ ended' = (wanted = W)
  BY DEF FetchIds
<1>3. CASE blank'
  BY <1>3 DEF FeverInv, StillAsked, PagedWhole
<1>4. CASE ~ blank'
  <2>1. ~ blank /\ Page(items \cap W, P)
    BY <1>1, <1>4 DEF Answered, FeverTypeOK
  <2>2. IsFiniteSet(W)
    <3>1. W \in SUBSET (1..last) /\ last \in Int
      BY FeverAssumption DEF FeverTypeOK, Minted
    <3>2. IsFiniteSet(1..last)
      BY <3>1, FS_Interval
    <3> QED
      BY <3>1, <3>2, FS_Subset
  <2>3. items \cap W \subseteq P
    <3>1. IsFiniteSet(items \cap W) /\ Cardinality(items \cap W) <= Cardinality(W)
      BY <2>2, FS_Subset
    <3>2. Cardinality(P) <= Cardinality(items \cap W)
          /\ (Cardinality(P) = Cardinality(items \cap W) => P = items \cap W)
      BY <2>1, <3>1, FS_Subset DEF Page
    <3>3. Cardinality(W) \in Nat /\ Cardinality(items \cap W) \in Nat /\ Cardinality(P) \in Nat
      BY <2>1, <2>2, <3>1, FS_CardinalityType, FS_Subset DEF Page
    <3> QED
      BY <2>1, <3>1, <3>2, <3>3, FeverAssumption DEF Page, FetchIds
  <2>4. owed \subseteq items /\ owed \subseteq received \cup wanted
    BY <1>2, <2>1 DEF FeverInv, StillAsked, FeverTypeOK
  <2> QED
    BY <1>1, <1>2, <2>3, <2>4 DEF FeverInv, StillAsked, PagedWhole
<1> QED
  BY <1>3, <1>4

\* get_fever_articles answers the greatest ids first, so a client that pages
\* backwards or asks for ids ends up with all that stayed, whatever the limit, and
\* in whichever order articles are committed.
THEOREM PagedWholeHolds == FeverSpec => []PagedWhole
<1>1. FeverInit => FeverInv
  BY DEF FeverInit, FeverInv, StillAsked, PagedWhole
<1>2. FeverTypeOK /\ FeverInv /\ [FeverNext]_feverVars => FeverInv'
  <2> SUFFICES ASSUME FeverTypeOK, FeverInv, [FeverNext]_feverVars PROVE FeverInv'
    OBVIOUS
  <2> USE DEF FeverInv, StillAsked, PagedWhole
  <2>1. CASE Mint
    BY <2>1 DEF Mint, walker
  <2>2. ASSUME NEW C \in SUBSET minting, CommitItems(C) PROVE FeverInv'
    BY <2>2 DEF CommitItems, walker
  <2>3. ASSUME NEW i \in Minted, Leave(i) PROVE FeverInv'
    BY <2>3 DEF Leave, walker
  <2>4. ASSUME NEW i \in Minted, Return(i) \/ MarkOnWeb(i) PROVE FeverInv'
    BY <2>4 DEF Return, MarkOnWeb, walker
  <2>5. CASE WalkBack \/ AskUnread \/ \E i \in 0..last : WalkOn(i)
    BY <2>5 DEF WalkBack, AskUnread, WalkOn, Start
  <2>6. CASE PageBack
    BY <2>6, PageBackKeeps
  <2>7. CASE PageOn
    BY <2>7 DEF PageOn
  <2>8. ASSUME NEW W \in SUBSET wanted, FetchIds(W) PROVE FeverInv'
    BY <2>8, FetchKeeps
  <2>9. CASE UNCHANGED feverVars
    BY <2>9 DEF feverVars, walker
  <2> QED
    BY <2>1, <2>2, <2>3, <2>4, <2>5, <2>6, <2>7, <2>8, <2>9 DEF FeverNext
<1>3. FeverInv => PagedWhole
  BY DEF FeverInv
<1> QED
  BY <1>1, <1>2, <1>3, FeverTypeCorrect, PTL DEF FeverSpec

-----------------------------------------------------------------------------
(***************************************************************************)
(* Slugs: the articles of one transaction, however many flushes it makes,  *)
(* never get the same slug, nor one that was committed before the flush    *)
(* began.                                                                  *)
(***************************************************************************)

\* The variables have their types: _on_before_flush gives an article a slug among
\* the variants of its candidate.
THEOREM SlugsTypeCorrect == SlugsSpec => []SlugsTypeOK
<1>1. SlugsInit => SlugsTypeOK
  BY DEF SlugsInit, SlugsTypeOK
<1>2. SlugsTypeOK /\ [SlugsNext]_slugVars => SlugsTypeOK'
  <2> SUFFICES ASSUME SlugsTypeOK, [SlugsNext]_slugVars PROVE SlugsTypeOK'
    OBVIOUS
  <2>1. ASSUME NEW s \in Sessions, NEW batch \in BoundedSeq(Candidates, MaxBatch),
               BeginFlush(s, batch)
        PROVE  SlugsTypeOK'
    <3>1. batch \in Seq(Candidates)
      BY SlugsAssumption DEF BoundedSeq, SeqOf
    <3> QED
      BY <2>1, <3>1 DEF BeginFlush, SlugsTypeOK
  <2>2. ASSUME NEW s \in Sessions, ChooseSlug(s) PROVE SlugsTypeOK'
    <3>1. fresh[s] \in Seq(Candidates) /\ fresh[s] # << >> /\ slugged[s] \in Seq(Slugs)
      BY <2>2 DEF ChooseSlug, SlugsTypeOK
    <3>2. Head(fresh[s]) \in Candidates /\ Tail(fresh[s]) \in Seq(Candidates)
      BY <3>1
    <3>3. \A i \in DOMAIN Variants[Head(fresh[s])] : Variants[Head(fresh[s])][i] \in Slugs
      BY <3>2, SlugsAssumption
    <3>4. fresh' \in [Sessions -> Seq(Candidates)]
      BY <2>2, <3>2 DEF ChooseSlug, SlugsTypeOK
    <3>5. slugged' \in [Sessions -> Seq(Slugs)] /\ claimed' \in [Sessions -> SUBSET Slugs]
      <4>1. CASE UNCHANGED <<slugged, claimed>>
        BY <4>1 DEF SlugsTypeOK
      <4>2. ASSUME NEW i \in DOMAIN Variants[Head(fresh[s])],
                   slugged' = [slugged EXCEPT ![s] = Append(@, Variants[Head(fresh[s])][i])],
                   claimed' = [claimed EXCEPT ![s] = @ \cup {Variants[Head(fresh[s])][i]}]
            PROVE  slugged' \in [Sessions -> Seq(Slugs)] /\ claimed' \in [Sessions -> SUBSET Slugs]
        <5>1. Append(slugged[s], Variants[Head(fresh[s])][i]) \in Seq(Slugs)
          BY <3>1, <3>3
        <5> QED
          BY <3>3, <4>2, <5>1 DEF SlugsTypeOK
      <4> QED
        BY <2>2, <4>1, <4>2 DEF ChooseSlug
    <3> QED
      BY <2>2, <3>4, <3>5 DEF ChooseSlug, SlugsTypeOK
  <2>3. ASSUME NEW s \in Sessions, InsertOne(s) PROVE SlugsTypeOK'
    <3>1. slugged[s] \in Seq(Slugs) /\ slugged[s] # << >>
      BY <2>3 DEF InsertOne, Inserting, SlugsTypeOK
    <3>2. Head(slugged[s]) \in Slugs /\ Tail(slugged[s]) \in Seq(Slugs)
      BY <3>1
    <3> QED
      BY <2>3, <3>2 DEF InsertOne, SlugsTypeOK
  <2>4. ASSUME NEW s \in Sessions, EndSession(s) PROVE SlugsTypeOK'
    BY <2>4 DEF EndSession, SlugsTypeOK
  <2>5. ASSUME NEW s \in Sessions, CommitSlugs(s) PROVE SlugsTypeOK'
    BY <2>5 DEF CommitSlugs, SlugsTypeOK
  <2>6. CASE UNCHANGED slugVars
    BY <2>6 DEF slugVars, SlugsTypeOK
  <2> QED
    BY <2>1, <2>2, <2>3, <2>4, <2>5, <2>6 DEF SlugsNext, InsertRefused, Deadlocked, Abandon
<1> QED
  BY <1>1, <1>2, PTL DEF SlugsSpec

-----------------------------------------------------------------------------
\* The slugs s has chosen and not inserted are different, are claimed, and are
\* none of those it inserted; one that is committed was committed since.
Apart(s) ==
  /\ \A i, k \in DOMAIN slugged[s] : i # k => slugged[s][i] # slugged[s][k]
  /\ \A i \in DOMAIN slugged[s] : slugged[s][i] \in claimed[s] \ inserted[s]
  /\ claimed[s] \cap rows \subseteq since[s]

SlugsInv == \A s \in Sessions : Apart(s)

\* A session that another one does not touch keeps its slugs apart.
LEMMA ApartFramed ==
  ASSUME NEW t, Apart(t), UNCHANGED <<slugged[t], claimed[t], inserted[t]>>,
         claimed[t] \cap rows' \subseteq since'[t]
  PROVE  Apart(t)'
BY DEF Apart

\* A flush is refused a slug only when another session committed it since the
\* flush began: not because of its own articles, nor of those its transaction
\* flushed earlier, nor of what was there before.
THEOREM RefusalsAreLate == SlugsSpec => []RefusedOnlyByOthers
<1>1. SlugsInit => SlugsInv
  BY DEF SlugsInit, SlugsInv, Apart
<1>2. SlugsTypeOK /\ SlugsInv /\ [SlugsNext]_slugVars => SlugsInv'
  <2> SUFFICES ASSUME SlugsTypeOK, SlugsInv, [SlugsNext]_slugVars, NEW t \in Sessions
               PROVE  Apart(t)'
    BY DEF SlugsInv
  <2>1. Apart(t) /\ claimed[t] \cap rows \subseteq since[t]
    BY DEF SlugsInv, Apart
  <2>2. ASSUME NEW s \in Sessions, NEW batch, BeginFlush(s, batch) PROVE Apart(t)'
    <3>1. CASE t = s
      BY <2>2, <3>1 DEF BeginFlush, Flushing, Apart, SlugsTypeOK
    <3>2. CASE t # s
      BY <2>1, <2>2, <3>2, ApartFramed DEF BeginFlush, SlugsTypeOK
    <3> QED
      BY <3>1, <3>2
  <2>3. ASSUME NEW s \in Sessions, ChooseSlug(s) PROVE Apart(t)'
    <3>1. CASE t = s
      <4>1. CASE UNCHANGED <<slugged, claimed>>
        BY <2>1, <2>3, <4>1, ApartFramed DEF ChooseSlug
      <4>2. ASSUME NEW i, FirstFree(s, Head(fresh[s]), i),
                   slugged' = [slugged EXCEPT ![s] = Append(@, Variants[Head(fresh[s])][i])],
                   claimed' = [claimed EXCEPT ![s] = @ \cup {Variants[Head(fresh[s])][i]}]
            PROVE  Apart(t)'
        <5> DEFINE x == Variants[Head(fresh[s])][i]
        <5>1. x \notin claimed[s] /\ x \notin rows /\ x \notin inserted[s]
          BY <4>2 DEF FirstFree, Taken
        <5>2. slugged'[s] = Append(slugged[s], x) /\ claimed'[s] = claimed[s] \cup {x}
          BY <4>2 DEF SlugsTypeOK
        <5>3. slugged[s] \in Seq(Slugs)
          BY DEF SlugsTypeOK
        <5> HIDE DEF x
        <5>4. /\ DOMAIN slugged'[s] = 1..(Len(slugged[s]) + 1)
              /\ \A k \in DOMAIN slugged[s] : slugged'[s][k] = slugged[s][k]
              /\ slugged'[s][Len(slugged[s]) + 1] = x
              /\ DOMAIN slugged[s] = 1..Len(slugged[s])
              /\ Len(slugged[s]) \in Nat
          BY <5>2, <5>3
        <5>5. \A k \in DOMAIN slugged'[s] : k \in DOMAIN slugged[s] \/ k = Len(slugged[s]) + 1
          BY <5>4
        <5>6. \A k \in DOMAIN slugged[s] : slugged[s][k] # x
          BY <2>1, <3>1, <5>1 DEF Apart
        <5>7. UNCHANGED <<rows, inserted, since>>
          BY <2>3 DEF ChooseSlug
        <5>8. \A k, l \in DOMAIN slugged'[s] : k # l => slugged'[s][k] # slugged'[s][l]
          BY <2>1, <3>1, <5>4, <5>5, <5>6 DEF Apart
        <5>9. \A k \in DOMAIN slugged'[s] : slugged'[s][k] \in claimed'[s] \ inserted[s]
          BY <2>1, <3>1, <5>1, <5>2, <5>4, <5>5 DEF Apart
        <5>10. claimed'[s] \cap rows \subseteq since[s]
          BY <2>1, <3>1, <5>1, <5>2
        <5> QED
          BY <3>1, <5>7, <5>8, <5>9, <5>10 DEF Apart
      <4> QED
        BY <2>3, <4>1, <4>2 DEF ChooseSlug
    <3>2. CASE t # s
      BY <2>1, <2>3, <3>2, ApartFramed DEF ChooseSlug, SlugsTypeOK
    <3> QED
      BY <3>1, <3>2
  <2>4. ASSUME NEW s \in Sessions, InsertOne(s) PROVE Apart(t)'
    <3>1. CASE t = s
      <4>1. slugged[s] \in Seq(Slugs) /\ slugged[s] # << >>
        BY <2>4 DEF InsertOne, Inserting, SlugsTypeOK
      <4>2. /\ slugged'[s] = Tail(slugged[s])
            /\ inserted'[s] = inserted[s] \cup {Head(slugged[s])}
        BY <2>4 DEF InsertOne, SlugsTypeOK
      <4>3. /\ \A k \in DOMAIN slugged'[s] :
                 /\ k \in Nat /\ k + 1 \in DOMAIN slugged[s] /\ k + 1 # 1
                 /\ slugged'[s][k] = slugged[s][k + 1]
            /\ Head(slugged[s]) = slugged[s][1] /\ 1 \in DOMAIN slugged[s]
        BY <4>1, <4>2
      <4>4. UNCHANGED <<rows, claimed, since>>
        BY <2>4 DEF InsertOne
      <4>5. \A k, l \in DOMAIN slugged'[s] : k # l => slugged'[s][k] # slugged'[s][l]
        <5> SUFFICES ASSUME NEW k \in DOMAIN slugged'[s], NEW l \in DOMAIN slugged'[s], k # l
                     PROVE  slugged'[s][k] # slugged'[s][l]
          OBVIOUS
        <5>1. k + 1 # l + 1
          BY <4>3
        <5> QED
          BY <2>1, <3>1, <4>3, <5>1 DEF Apart
      <4>6. \A k \in DOMAIN slugged'[s] : slugged'[s][k] \in claimed[s] \ inserted'[s]
        BY <2>1, <3>1, <4>2, <4>3 DEF Apart
      <4> QED
        BY <2>1, <3>1, <4>4, <4>5, <4>6 DEF Apart
    <3>2. CASE t # s
      BY <2>1, <2>4, <3>2, ApartFramed DEF InsertOne, SlugsTypeOK
    <3> QED
      BY <3>1, <3>2
  <2>5. ASSUME NEW s \in Sessions, EndSession(s) PROVE Apart(t)'
    <3>1. CASE t = s
      BY <2>5, <3>1 DEF EndSession, Apart, SlugsTypeOK
    <3>2. CASE t # s
      BY <2>1, <2>5, <3>2, ApartFramed DEF EndSession, SlugsTypeOK
    <3> QED
      BY <3>1, <3>2
  <2>6. ASSUME NEW s \in Sessions, CommitSlugs(s) PROVE Apart(t)'
    <3>1. CASE t = s
      BY <2>6, <3>1 DEF CommitSlugs, Flushing, Apart, SlugsTypeOK
    <3>2. CASE t # s
      <4>1. UNCHANGED <<slugged[t], claimed[t], inserted[t]>>
        BY <2>6, <3>2 DEF CommitSlugs, SlugsTypeOK
      <4>2. rows' = rows \cup inserted[s] /\ since'[t] = since[t] \cup inserted[s]
        BY <2>6, <3>2 DEF CommitSlugs
      <4> QED
        BY <2>1, <4>1, <4>2, ApartFramed
    <3> QED
      BY <3>1, <3>2
  <2>7. CASE UNCHANGED slugVars
    BY <2>1, <2>7, ApartFramed DEF slugVars
  <2> QED
    BY <2>2, <2>3, <2>4, <2>5, <2>6, <2>7 DEF SlugsNext, InsertRefused, Deadlocked, Abandon
<1>3. SlugsTypeOK /\ SlugsInv => RefusedOnlyByOthers
  <2> SUFFICES ASSUME SlugsTypeOK, SlugsInv, NEW s \in Sessions, Inserting(s),
                      Head(slugged[s]) \in rows \cup inserted[s]
               PROVE  Head(slugged[s]) \in since[s]
    BY DEF RefusedOnlyByOthers
  <2>1. slugged[s] \in Seq(Slugs) /\ slugged[s] # << >>
    BY DEF Inserting, SlugsTypeOK
  <2>2. Head(slugged[s]) = slugged[s][1] /\ 1 \in DOMAIN slugged[s]
    BY <2>1
  <2> QED
    BY <2>2 DEF SlugsInv, Apart
<1> QED
  BY <1>1, <1>2, <1>3, SlugsTypeCorrect, PTL DEF SlugsSpec
(***************************************************************************)
(* ArticleDigest: a second digest on one day takes a failure or an overlap.*)
(*                                                                         *)
(* The argument: once a user got a digest, a run is on its way to commit   *)
(* the date, or the date is committed and in every copy somebody holds.    *)
(***************************************************************************)

\* A run has not come to the users it mailed, and its copies of them are dated.
RunsWell ==
  \A j \in Runs :
    /\ run[j] = "idle" => queue[j] = {} /\ sending[j] = {} /\ mailed[j] = {}
    /\ \A u \in sending[j] \cup mailed[j] : u \notin queue[j] /\ copy[j][u].sent = day

DigestWell == DigestTypeOK /\ RunsWell

LEMMA CopyDated ==
  ASSUME DigestTypeOK, NEW j \in Runs, NEW u \in Users, MailUser(j, u)
  PROVE  /\ copy' \in [Runs -> [Users -> Prefs]]
         /\ copy'[j][u].sent = day
         /\ \A i \in Runs, v \in Users : i # j \/ v # u => copy'[i][v] = copy[i][v]
<1>1. copy[j][u] \in Prefs /\ copy[j] \in [Users -> Prefs] /\ day \in 0..MaxDay
  BY DigestAssumption DEF DigestTypeOK
<1> DEFINE p == [copy[j][u] EXCEPT !.sent = day]
<1>2. p \in Prefs /\ p.sent = day
  BY <1>1 DEF Prefs
<1>3. copy' = [copy EXCEPT ![j] = [copy[j] EXCEPT ![u] = p]]
  BY DEF MailUser
<1> HIDE DEF p
<1> QED
  BY <1>1, <1>2, <1>3 DEF DigestTypeOK

LEMMA EndRunWell ==
  ASSUME DigestWell, NEW j \in Runs, EndRun(j), prefs' \in [Users -> Prefs], upset' \subseteq Users,
         crashes' \in 0..MaxCrash
  PROVE  DigestWell'
<1>1. NewPref \in Prefs
  BY DigestAssumption DEF NewPref, Prefs
<1>2. copy' \in [Runs -> [Users -> Prefs]]
  BY <1>1 DEF EndRun, DigestWell, DigestTypeOK
<1>3. DigestTypeOK'
  BY <1>2 DEF EndRun, DigestWell, DigestTypeOK
<1>4. \A i \in Runs :
        IF i = j THEN queue'[i] = {} /\ sending'[i] = {} /\ mailed'[i] = {}
        ELSE /\ run'[i] = run[i] /\ copy'[i] = copy[i]
             /\ queue'[i] = queue[i] /\ sending'[i] = sending[i] /\ mailed'[i] = mailed[i]
  BY DEF EndRun, DigestWell, DigestTypeOK
<1>5. RunsWell'
  BY <1>4 DEF EndRun, DigestWell, RunsWell
<1> QED
  BY <1>3, <1>5 DEF DigestWell

LEMMA DigestStepWell ==
  ASSUME DigestWell, [DigestNext]_digestVars
  PROVE  DigestWell'
<1> USE DigestAssumption
<1>1. ASSUME NEW j \in Runs, BeginRun(j) PROVE DigestWell'
  <2>1. NewPref \in Prefs
    BY DEF NewPref, Prefs
  <2>2. \A u \in Users : prefs[u] \in Prefs
    BY DEF DigestWell, DigestTypeOK
  <2>3. PICK S \in SUBSET Users, f \in [Users -> Prefs] :
          /\ run' = [run EXCEPT ![j] = "users"] /\ queue' = [queue EXCEPT ![j] = S]
          /\ copy' = [copy EXCEPT ![j] = f]
    BY <1>1, <2>1, <2>2 DEF BeginRun
  <2>4. DigestTypeOK'
    BY <1>1, <2>3 DEF BeginRun, DigestWell, DigestTypeOK
  <2>5. sending[j] = {} /\ mailed[j] = {}
    BY <1>1 DEF BeginRun, DigestWell, RunsWell
  <2>6. RunsWell'
    BY <1>1, <2>3, <2>5 DEF BeginRun, DigestWell, DigestTypeOK, RunsWell
  <2> QED
    BY <2>4, <2>6 DEF DigestWell
<1>2. ASSUME NEW j \in Runs, FlushUser(j) PROVE DigestWell'
  <2>1. DigestTypeOK'
    BY <1>2 DEF FlushUser, DigestWell, DigestTypeOK
  <2>2. RunsWell'
    BY <1>2 DEF FlushUser, DigestWell, DigestTypeOK, RunsWell
  <2> QED
    BY <2>1, <2>2 DEF DigestWell
<1>3. ASSUME NEW j \in Runs, CommitRun(j) PROVE DigestWell'
  <2>1. prefs' \in [Users -> Prefs]
    BY <1>3 DEF CommitRun, DigestWell, DigestTypeOK
  <2>2. upset' \subseteq Users
    BY <1>3 DEF CommitRun, HeldOld, DigestWell, DigestTypeOK
  <2> QED
    BY <1>3, <2>1, <2>2, EndRunWell DEF CommitRun, DigestWell, DigestTypeOK
<1>4. ASSUME NEW j \in Runs, FailRun(j) PROVE DigestWell'
  <2>1. upset' \subseteq Users /\ crashes' \in 0..MaxCrash
    BY <1>4 DEF FailRun, DigestWell, DigestTypeOK
  <2> QED
    BY <1>4, <2>1, EndRunWell DEF FailRun, DigestWell, DigestTypeOK
<1>5. ASSUME NEW j \in Runs, NEW u \in Users, SkipUser(j, u) PROVE DigestWell'
  BY <1>5 DEF SkipUser, DigestWell, DigestTypeOK, RunsWell
<1>6. ASSUME NEW j \in Runs, NEW u \in Users, MailUser(j, u) PROVE DigestWell'
  <2>1. /\ copy' \in [Runs -> [Users -> Prefs]]
        /\ copy'[j][u].sent = day
        /\ \A i \in Runs, v \in Users : i # j \/ v # u => copy'[i][v] = copy[i][v]
    <3>1. DigestTypeOK
      BY DEF DigestWell
    <3> QED
      BY <1>6, <3>1, CopyDated
  <2>2. mails' \in [Users -> 0..2]
    <3>1. \A v \in Users : mails[v] \in 0..2 /\ (mails[v] # 2 => mails[v] + 1 \in 0..2)
      BY DEF DigestWell, DigestTypeOK
    <3> QED
      BY <1>6, <3>1 DEF MailUser, DigestWell, DigestTypeOK
  <2>3. DigestTypeOK'
    BY <1>6, <2>1, <2>2 DEF MailUser, DigestWell, DigestTypeOK
  <2>4. /\ run[j] = "users" /\ day' = day /\ run' = run /\ mailed' = mailed
        /\ \A i \in Runs : /\ queue'[i] = IF i = j THEN queue[i] \ {u} ELSE queue[i]
                           /\ sending'[i] = IF i = j THEN {u} ELSE sending[i]
    BY <1>6 DEF MailUser, DigestWell, DigestTypeOK
  <2>5. \A i \in Runs : sending[i] \subseteq Users /\ mailed[i] \subseteq Users
    BY DEF DigestWell, DigestTypeOK
  <2>6. RunsWell'
    <3>1. ASSUME NEW i \in Runs, run'[i] = "idle"
          PROVE  queue'[i] = {} /\ sending'[i] = {} /\ mailed'[i] = {}
      <4>1. i # j
        BY <3>1, <2>4
      <4> QED
        BY <3>1, <4>1, <2>4 DEF DigestWell, RunsWell
    <3>2. ASSUME NEW i \in Runs, NEW v \in sending'[i] \cup mailed'[i]
          PROVE  v \notin queue'[i] /\ copy'[i][v].sent = day'
      <4>1. v \in Users
        BY <2>4, <2>5
      <4>2. CASE i = j /\ v = u
        BY <4>2, <2>1, <2>4
      <4>3. CASE i # j \/ v # u
        <5>1. v \in sending[i] \cup mailed[i]
          BY <3>2, <4>3, <2>4
        <5>2. v \notin queue[i] /\ copy[i][v].sent = day
          BY <5>1 DEF DigestWell, RunsWell
        <5>3. copy'[i][v] = copy[i][v]
          BY <4>1, <4>3, <2>1
        <5> QED
          BY <5>2, <5>3, <2>4
      <4> QED
        BY <4>2, <4>3
    <3> QED
      BY <3>1, <3>2 DEF RunsWell
  <2> QED
    BY <2>3, <2>6 DEF DigestWell
<1>7. ASSUME NEW t \in Tabs, NEW u \in Users, LoadPrefs(t, u) PROVE DigestWell'
  BY <1>7 DEF LoadPrefs, DigestWell, DigestTypeOK, RunsWell
<1>8. ASSUME NEW t \in Tabs, NEW u \in Users, NEW b \in BOOLEAN, SavePrefs(t, u, b) PROVE DigestWell'
  <2>1. [shown[t] EXCEPT !.digest = b] \in Prefs /\ NewPref \in Prefs
    BY DEF DigestWell, DigestTypeOK, Prefs, NewPref
  <2>2. DigestTypeOK'
    BY <1>8, <2>1 DEF SavePrefs, DigestWell, DigestTypeOK
  <2> QED
    BY <1>8, <2>2 DEF SavePrefs, DigestWell, RunsWell
<1>9. CASE NextDay
  <2>1. DigestTypeOK'
    BY <1>9 DEF NextDay, DigestWell, DigestTypeOK
  <2> QED
    BY <1>9, <2>1 DEF NextDay, DigestWell, RunsWell
<1>10. CASE UNCHANGED digestVars
  BY <1>10 DEF digestVars, DigestWell, DigestTypeOK, RunsWell
<1> QED
  BY <1>1, <1>2, <1>3, <1>4, <1>5, <1>6, <1>7, <1>8, <1>9, <1>10 DEF DigestNext

LEMMA DigestWellHolds == DigestSpec => []DigestWell
<1>1. DigestInit => DigestWell
  <2>1. NewPref \in Prefs
    BY DigestAssumption DEF NewPref, Prefs
  <2> QED
    BY <2>1, DigestAssumption DEF DigestInit, DigestWell, DigestTypeOK, RunsWell
<1>2. DigestWell /\ [DigestNext]_digestVars => DigestWell'
  BY DigestStepWell
<1> QED
  BY <1>1, <1>2, PTL DEF DigestSpec

\* ArticleDigest's variables keep their types, for any users, runs and forms.
THEOREM DigestTypeCorrect == DigestSpec => []DigestTypeOK
<1>1. DigestWell => DigestTypeOK
  BY DEF DigestWell
<1> QED
  BY <1>1, DigestWellHolds, PTL

\* A run sent u a digest, and has not committed the date.
Underway(u) == \E i \in Runs : u \in sending[i] \cup mailed[i]

\* The date is committed, and whoever may act on the preferences of u has it.
Recorded(u) ==
  /\ prefs[u].sent = day
  /\ \A i \in Runs : u \in queue[i] => copy[i][u].sent = day
  /\ \A t \in Tabs : u \in tab[t] => shown[t].sent = day

Settled(u) == mails[u] <= 1 /\ (mails[u] >= 1 => Underway(u) \/ Recorded(u))

DigestInv == \A u \in Users : u \notin upset => Settled(u)

LEMMA MailUserSettles ==
  ASSUME DigestWell, DigestInv, NEW j \in Runs, NEW u \in Users, MailUser(j, u)
  PROVE  DigestInv'
<1> SUFFICES ASSUME NEW v \in Users, v \notin upset' PROVE Settled(v)'
  BY DEF DigestInv
<1>1. /\ copy' = [copy EXCEPT ![j][u].sent = day] /\ prefs' = prefs /\ day' = day
      /\ mailed' = mailed /\ tab' = tab /\ shown' = shown
      /\ v \notin upset /\ Settled(v) /\ mails[v] \in 0..2
      /\ v \in sending'[j] <=> v = u
      /\ \A i \in Runs : /\ v \in queue'[i] => v \in queue[i]
                         /\ i # j => (v \in sending'[i] <=> v \in sending[i])
      /\ sending[j] = {}
  BY DEF MailUser, DigestWell, DigestTypeOK, DigestInv
<1>2. CASE v = u
  <2>1. ~Underway(u)
    <3> SUFFICES ASSUME NEW i \in Runs, u \in sending[i] \cup mailed[i] PROVE FALSE
      BY DEF Underway
    <3>1. i # j
      BY DEF MailUser, DigestWell, RunsWell
    <3> QED
      BY <1>2, <3>1 DEF MailUser, InFlight
  <2>2. ~Recorded(u)
    BY DEF MailUser, Due, Recorded
  <2>3. mails[u] = 0
    BY <1>1, <1>2, <2>1, <2>2 DEF Settled
  <2>4. mails'[u] = 1
    BY <2>3 DEF MailUser, DigestWell, DigestTypeOK
  <2> QED
    BY <1>1, <1>2, <2>4 DEF Settled, Underway
<1>3. CASE v # u
  <2>1. mails'[v] = mails[v]
    BY <1>3 DEF MailUser, DigestWell, DigestTypeOK
  <2>2. Underway(v) => Underway(v)'
    BY <1>1 DEF Underway
  <2>3. \A i \in Runs : copy'[i][v] = copy[i][v]
    BY <1>3, CopyDated DEF DigestWell
  <2>4. Recorded(v) => Recorded(v)'
    BY <1>1, <2>3 DEF Recorded
  <2> QED
    BY <1>1, <2>1, <2>2, <2>4 DEF Settled
<1> QED
  BY <1>2, <1>3

LEMMA CommitRunSettles ==
  ASSUME DigestWell, DigestInv, NEW j \in Runs, CommitRun(j)
  PROVE  DigestInv'
<1> SUFFICES ASSUME NEW v \in Users, v \notin upset' PROVE Settled(v)'
  BY DEF DigestInv
<1>1. /\ mails' = mails /\ day' = day /\ tab' = tab /\ shown' = shown /\ sending[j] = {}
      /\ v \notin upset /\ v \notin HeldOld(j) /\ Settled(v)
      /\ prefs'[v] = (IF v \in mailed[j] THEN copy[j][v] ELSE prefs[v])
      /\ queue'[j] = {}
      /\ \A i \in Runs \ {j} : /\ queue'[i] = queue[i] /\ copy'[i] = copy[i]
                               /\ sending'[i] = sending[i] /\ mailed'[i] = mailed[i]
  BY DEF CommitRun, EndRun, DigestWell, DigestTypeOK, DigestInv
<1>2. v \in mailed[j] => prefs'[v].sent = day
  BY <1>1 DEF DigestWell, RunsWell
<1>3. ASSUME v \in mailed[j] PROVE Recorded(v)'
  <2>1. \A i \in Runs \ {j} : v \notin queue[i]
    BY <1>1, <1>3 DEF HeldOld
  <2>2. \A t \in Tabs : v \notin tab[t]
    BY <1>1, <1>3 DEF HeldOld
  <2>3. \A i \in Runs : v \notin queue'[i]
    BY <1>1, <2>1
  <2>4. \A t \in Tabs : v \notin tab'[t]
    BY <1>1, <2>2
  <2>5. prefs'[v].sent = day'
    BY <1>1, <1>2, <1>3
  <2> QED
    BY <2>3, <2>4, <2>5 DEF Recorded
<1>4. Underway(v) /\ v \notin mailed[j] => Underway(v)'
  BY <1>1 DEF Underway
<1>5. Recorded(v) => Recorded(v)'
  <2> SUFFICES ASSUME Recorded(v) PROVE Recorded(v)'
    OBVIOUS
  <2>1. prefs'[v].sent = day
    BY <1>1, <1>2 DEF Recorded
  <2>2. ASSUME NEW i \in Runs, v \in queue'[i] PROVE copy'[i][v].sent = day
    <3>1. i # j
      BY <1>1, <2>2
    <3> QED
      BY <1>1, <2>2, <3>1 DEF Recorded
  <2> QED
    BY <1>1, <2>1, <2>2 DEF Recorded
<1> QED
  BY <1>1, <1>3, <1>4, <1>5 DEF Settled

LEMMA FailRunSettles ==
  ASSUME DigestWell, DigestInv, NEW j \in Runs, FailRun(j)
  PROVE  DigestInv'
<1> SUFFICES ASSUME NEW v \in Users, v \notin upset' PROVE Settled(v)'
  BY DEF DigestInv
<1>1. /\ mails' = mails /\ day' = day /\ tab' = tab /\ shown' = shown /\ prefs' = prefs
      /\ v \notin upset /\ v \notin sending[j] \cup mailed[j] /\ Settled(v)
      /\ queue'[j] = {}
      /\ \A i \in Runs \ {j} : /\ queue'[i] = queue[i] /\ copy'[i] = copy[i]
                               /\ sending'[i] = sending[i] /\ mailed'[i] = mailed[i]
  BY DEF FailRun, EndRun, DigestWell, DigestTypeOK, DigestInv
<1>2. Underway(v) => Underway(v)'
  BY <1>1 DEF Underway
<1>3. Recorded(v) => Recorded(v)'
  BY <1>1 DEF Recorded
<1> QED
  BY <1>1, <1>2, <1>3 DEF Settled

LEMMA OthersSettle ==
  ASSUME DigestWell, DigestInv,
         \/ \E j \in Runs : BeginRun(j) \/ FlushUser(j) \/ \E u \in Users : SkipUser(j, u)
         \/ \E t \in Tabs, u \in Users :
              LoadPrefs(t, u) \/ \E b \in BOOLEAN : SavePrefs(t, u, b)
  PROVE  DigestInv'
<1> SUFFICES ASSUME NEW v \in Users, v \notin upset' PROVE Settled(v)'
  BY DEF DigestInv
<1>1. /\ mails' = mails /\ day' = day /\ upset' = upset /\ Settled(v)
  BY DEF BeginRun, FlushUser, SkipUser, LoadPrefs, SavePrefs, DigestInv
<1>2. Underway(v) => Underway(v)'
  <2>1. ASSUME NEW j \in Runs, FlushUser(j)
        PROVE  \A i \in Runs : sending[i] \cup mailed[i] \subseteq sending'[i] \cup mailed'[i]
    BY <2>1 DEF FlushUser, DigestWell, DigestTypeOK
  <2>2. (\E j \in Runs : FlushUser(j)) \/ UNCHANGED <<sending, mailed>>
    BY DEF BeginRun, SkipUser, LoadPrefs, SavePrefs
  <2> QED
    BY <2>1, <2>2 DEF Underway
<1>3. Recorded(v) => Recorded(v)'
  <2> SUFFICES ASSUME Recorded(v) PROVE Recorded(v)'
    OBVIOUS
  <2>1. ASSUME NEW j \in Runs, BeginRun(j) PROVE Recorded(v)'
    <3>1. /\ prefs' = prefs /\ tab' = tab /\ shown' = shown
          /\ v \in queue'[j] => copy'[j][v] = prefs[v]
          /\ \A i \in Runs \ {j} : queue'[i] = queue[i] /\ copy'[i] = copy[i]
      BY <2>1 DEF BeginRun, DigestWell, DigestTypeOK
    <3> QED
      BY <1>1, <3>1 DEF Recorded
  <2>2. ASSUME NEW j \in Runs, FlushUser(j) PROVE Recorded(v)'
    BY <1>1, <2>2 DEF FlushUser, Recorded
  <2>3. ASSUME NEW j \in Runs, NEW u \in Users, SkipUser(j, u) PROVE Recorded(v)'
    BY <1>1, <2>3 DEF SkipUser, Recorded, DigestWell, DigestTypeOK
  <2>4. ASSUME NEW t \in Tabs, NEW u \in Users, LoadPrefs(t, u) PROVE Recorded(v)'
    BY <1>1, <2>4 DEF LoadPrefs, Recorded, DigestWell, DigestTypeOK
  <2>5. ASSUME NEW t \in Tabs, NEW u \in Users, NEW b \in BOOLEAN, SavePrefs(t, u, b)
        PROVE  Recorded(v)'
    <3>1. /\ queue' = queue /\ copy' = copy
          /\ prefs'[v].sent = IF v = u THEN shown[t].sent ELSE prefs[v].sent
          /\ \A s \in Tabs : /\ v \in tab'[s] => s # t /\ v \in tab[s]
                             /\ s # t => shown'[s] = shown[s]
          /\ u \in tab[t]
      BY <2>5 DEF SavePrefs, DigestWell, DigestTypeOK, Prefs
    <3> QED
      BY <1>1, <3>1 DEF Recorded
  <2> QED
    BY <2>1, <2>2, <2>3, <2>4, <2>5
<1> QED
  BY <1>1, <1>2, <1>3 DEF Settled

\* A user gets a second digest on one day only when a run failed after the first
\* mail, or when somebody held the preferences of the time before it: for any
\* users, overlapping runs, open forms and number of days.
THEOREM OneDigestADayHolds == DigestSpec => []OneDigestADay
<1>1. DigestInit => DigestInv
  BY DEF DigestInit, DigestInv, Settled
<1>2. DigestWell /\ DigestInv /\ [DigestNext]_digestVars => DigestInv'
  <2> SUFFICES ASSUME DigestWell, DigestInv, [DigestNext]_digestVars PROVE DigestInv'
    OBVIOUS
  <2>1. CASE NextDay
    BY <2>1 DEF NextDay, DigestInv, Settled
  <2>2. CASE UNCHANGED digestVars
    BY <2>2 DEF digestVars, DigestInv, Settled, Underway, Recorded
  <2> QED
    BY <2>1, <2>2, MailUserSettles, CommitRunSettles, FailRunSettles, OthersSettle DEF DigestNext
<1>3. DigestWell /\ DigestInv => OneDigestADay
  BY DEF DigestInv, Settled, OneDigestADay, DigestWell, DigestTypeOK
<1> QED
  BY <1>1, <1>2, <1>3, DigestWellHolds, PTL DEF DigestSpec

-----------------------------------------------------------------------------
(***************************************************************************)
(* ArticleStatus: what the user marks, and what the sweep deletes.         *)
(*                                                                         *)
(* The argument: a column and its date are written together, by the same   *)
(* comparison with the row that was loaded, or neither is.  Fever writes   *)
(* no dates, and no bookmarks; and the rows that a request for a group     *)
(* inserts without a commit are of that kind too.  Nobody else has a row   *)
(* for what such a request has inserted, so that its commit overwrites     *)
(* nothing.                                                                *)
(***************************************************************************)

\* A column of a row is set, whichever it is.
LEMMA SetColumn ==
  ASSUME NEW r \in Row, NEW k \in {"read", "starred", "bookmarked"}, NEW v \in BOOLEAN
  PROVE  /\ [r EXCEPT ![k] = v] \in Row
         /\ [r EXCEPT ![k] = v].bookmarkedAt = r.bookmarkedAt
         /\ k = "bookmarked" => [r EXCEPT ![k] = v].bookmarked = v
         /\ k # "bookmarked" => [r EXCEPT ![k] = v].bookmarked = r.bookmarked
         /\ k = "read" => [r EXCEPT ![k] = v].starred = r.starred
<1>1. CASE k = "read"
  <2>1. [r EXCEPT ![k] = v] = [r EXCEPT !.read = v]
    BY <1>1
  <2>2. [r EXCEPT !.read = v] \in Row
    BY DEF Row
  <2>3. /\ [r EXCEPT !.read = v].bookmarkedAt = r.bookmarkedAt
        /\ [r EXCEPT !.read = v].bookmarked = r.bookmarked
        /\ [r EXCEPT !.read = v].starred = r.starred
    BY DEF Row
  <2> QED
    BY <1>1, <2>1, <2>2, <2>3
<1>2. CASE k = "starred"
  <2>1. [r EXCEPT ![k] = v] = [r EXCEPT !.starred = v]
    BY <1>2
  <2>2. [r EXCEPT !.starred = v] \in Row
    BY DEF Row
  <2>3. /\ [r EXCEPT !.starred = v].bookmarkedAt = r.bookmarkedAt
        /\ [r EXCEPT !.starred = v].bookmarked = r.bookmarked
    BY DEF Row
  <2> QED
    BY <1>2, <2>1, <2>2, <2>3
<1>3. CASE k = "bookmarked"
  <2>1. [r EXCEPT ![k] = v] = [r EXCEPT !.bookmarked = v]
    BY <1>3
  <2>2. [r EXCEPT !.bookmarked = v] \in Row
    BY DEF Row
  <2>3. /\ [r EXCEPT !.bookmarked = v].bookmarkedAt = r.bookmarkedAt
        /\ [r EXCEPT !.bookmarked = v].bookmarked = v
    BY DEF Row
  <2> QED
    BY <1>3, <2>1, <2>2, <2>3
<1> QED
  BY <1>1, <1>2, <1>3

\* A row with a bookmark and a date for it, or neither.
DatedRow(r) == r.bookmarked = r.bookmarkedAt

\* What requests set.
LEMMA BodyTyped ==
  ASSUME NEW b \in Bodies
  PROVE  b.column \in {"read", "starred", "bookmarked"} /\ b.value \in BOOLEAN
BY ArticleStatusAssumption DEF Bodies

\* A write without dates, as Fever's.
LEMMA WrittenRow ==
  ASSUME NEW r \in Row, NEW l \in Row, NEW b \in Bodies
  PROVE  /\ Written(r, l, b) \in Row
         /\ b.column # "bookmarked" /\ DatedRow(r) => DatedRow(Written(r, l, b))
BY SetColumn, BodyTyped DEF Written, DatedRow

\* A write of the web application.
LEMMA WebRow ==
  ASSUME NEW r \in Row, NEW l \in Row, NEW b \in Bodies
  PROVE  /\ Dated(Written(r, l, b), l, b) \in Row
         /\ DatedRow(r) => DatedRow(Dated(Written(r, l, b), l, b))
<1>1. CASE b.value = l[b.column]
  BY <1>1 DEF Dated, Written
<1>2. CASE b.value # l[b.column]
  <2> DEFINE w == [r EXCEPT ![b.column] = b.value]
  <2>1. /\ w \in Row /\ w.bookmarkedAt = r.bookmarkedAt
        /\ b.column = "bookmarked" => w.bookmarked = b.value
        /\ b.column # "bookmarked" => w.bookmarked = r.bookmarked
    BY SetColumn, BodyTyped
  <2>2. Written(r, l, b) = w
    BY <1>2 DEF Written
  <2>3. Dated(w, l, b) = CASE b.column = "read" -> [w EXCEPT !.readAt = b.value]
                           [] b.column = "bookmarked" -> [w EXCEPT !.bookmarkedAt = b.value]
                           [] OTHER -> w
    BY <1>2 DEF Dated
  <2> HIDE DEF w
  <2>4. CASE b.column = "read"
    <3>1. Dated(w, l, b) = [w EXCEPT !.readAt = b.value]
      BY <2>3, <2>4
    <3>2. b.value \in BOOLEAN
      BY BodyTyped
    <3>3. /\ [w EXCEPT !.readAt = b.value] \in Row
          /\ [w EXCEPT !.readAt = b.value].bookmarkedAt = w.bookmarkedAt
          /\ [w EXCEPT !.readAt = b.value].bookmarked = w.bookmarked
      BY <2>1, <3>2 DEF Row
    <3>4. /\ Dated(w, l, b) \in Row /\ Dated(w, l, b).bookmarkedAt = w.bookmarkedAt
          /\ Dated(w, l, b).bookmarked = w.bookmarked
      BY <3>1, <3>3
    <3> QED
      BY <2>1, <2>2, <2>4, <3>4 DEF DatedRow
  <2>5. CASE b.column = "bookmarked"
    <3>1. Dated(w, l, b) = [w EXCEPT !.bookmarkedAt = b.value]
      BY <2>3, <2>5
    <3>2. b.value \in BOOLEAN
      BY BodyTyped
    <3>3. /\ [w EXCEPT !.bookmarkedAt = b.value] \in Row
          /\ [w EXCEPT !.bookmarkedAt = b.value].bookmarkedAt = b.value
          /\ [w EXCEPT !.bookmarkedAt = b.value].bookmarked = w.bookmarked
      BY <2>1, <3>2 DEF Row
    <3>4. /\ Dated(w, l, b) \in Row /\ Dated(w, l, b).bookmarkedAt = b.value
          /\ Dated(w, l, b).bookmarked = w.bookmarked
      BY <3>1, <3>3
    <3> QED
      BY <2>1, <2>2, <2>5, <3>4 DEF DatedRow
  <2>6. CASE b.column = "starred"
    BY <2>1, <2>3, <2>6, <2>2 DEF DatedRow
  <2> QED
    BY <2>4, <2>5, <2>6, BodyTyped
<1> QED
  BY <1>1, <1>2

\* A new row.
LEMMA BlankIsDated == BlankRow \in Row /\ DatedRow(BlankRow)
BY DEF BlankRow, Row, DatedRow

\* An idle client.
LEMMA NoBodyTyped == NoBody \in Bodies
BY ArticleStatusAssumption DEF NoBody, Bodies

Loaded == {NotLoaded} \cup [article : Articles, row : Row \cup {NoStatus}]

\* Fever sets no bookmarks; a request that inserts without a commit marks a group
\* as read; a row that was loaded is still there.
ClientsWell ==
  /\ \A c \in Clients : act[c] = "item" => body[c].column # "bookmarked"
  /\ \A c \in Clients : act[c] \in {"feed", "group"} => body[c].column = "read"
  /\ \A c \in Clients : own[c] # {} => act[c] = "group"
  /\ \A c \in Clients : loaded[c] # NotLoaded =>
       /\ act[c] # "idle"
       /\ loaded[c].row # NoStatus => status[loaded[c].article] # NoStatus

\* The row of an article, if it has one, is dated; one that is being swept is not
\* starred or bookmarked.
StatusInv == StatusTypeOK /\ ClientsWell /\ BookmarkDated /\ SweepKeeps

Good(x) == x # NoStatus => x \in Row /\ DatedRow(x)

LEMMA RowsGood ==
  ASSUME StatusInv, NEW a \in Articles
  PROVE  Good(status[a])
BY DEF StatusInv, StatusTypeOK, BookmarkDated, Good, DatedRow, Row

\* Without the dates of the web application, a client that is marking as read.
LEMMA WithOwnGood ==
  ASSUME StatusInv, NEW c \in Clients, NEW a \in Articles
  PROVE  /\ Good(WithOwn(c)[a])
         /\ WithOwn(c)[a] = NoStatus => status[a] = NoStatus
         /\ a \in doomed /\ WithOwn(c)[a] # NoStatus =>
              ~WithOwn(c)[a].starred /\ ~WithOwn(c)[a].bookmarked
<1>0. status \in [Articles -> Row \cup {NoStatus}]
  BY DEF StatusInv, StatusTypeOK
<1>1. CASE a \in own[c]
  <2>1. body[c] \in Bodies /\ body[c].column = "read"
    BY <1>1 DEF StatusInv, StatusTypeOK, ClientsWell
  <2>2. WithOwn(c)[a] = Written(BlankRow, BlankRow, body[c])
    BY <1>1 DEF WithOwn
  <2>3. Written(BlankRow, BlankRow, body[c]) \in Row /\ DatedRow(Written(BlankRow, BlankRow, body[c]))
    BY <2>1, BlankIsDated, WrittenRow
  <2>4. /\ Written(BlankRow, BlankRow, body[c]).bookmarked = FALSE
        /\ Written(BlankRow, BlankRow, body[c]).starred = FALSE
    <3>1. BlankRow.bookmarked = FALSE /\ BlankRow.starred = FALSE
      BY DEF BlankRow
    <3>2. \/ Written(BlankRow, BlankRow, body[c]) = BlankRow
          \/ Written(BlankRow, BlankRow, body[c]) = [BlankRow EXCEPT !["read"] = body[c].value]
      BY <2>1 DEF Written
    <3> QED
      BY <2>1, <3>1, <3>2 DEF BlankRow
  <2> QED
    BY <2>2, <2>3, <2>4, ArticleStatusAssumption DEF Good
<1>2. CASE a \notin own[c]
  <2>1. WithOwn(c)[a] = status[a]
    BY <1>2 DEF WithOwn
  <2> QED
    BY <2>1, RowsGood DEF StatusInv, SweepKeeps
<1> QED
  BY <1>1, <1>2

\* Good rows, of articles that are not starred or bookmarked while they are swept,
\* are what the properties ask for.
LEMMA GoodRows ==
  ASSUME NEW s \in [Articles -> Row \cup {NoStatus}], \A a \in Articles : Good(s[a])
  PROVE  \A a \in Articles : s[a] # NoStatus => (s[a].bookmarked <=> s[a].bookmarkedAt)
BY DEF Good, DatedRow, Row

\* A step that writes no status row, whatever the clients do.
LEMMA RowsKept ==
  ASSUME StatusInv, UNCHANGED <<articles, status, doomed>>, StatusTypeOK', ClientsWell'
  PROVE  StatusInv'
BY DEF StatusInv, BookmarkDated, SweepKeeps

\* What a write makes of the row of its article.
LEMMA NewStatusGood ==
  ASSUME StatusInv, NEW c \in Clients, act[c] # "idle"
  PROVE  NewStatus(c) \in Row /\ DatedRow(NewStatus(c))
<1>1. body[c] \in Bodies /\ act[c] \in {"web", "item", "feed", "group"}
  BY DEF StatusInv, StatusTypeOK
<1>2. act[c] # "web" => body[c].column # "bookmarked"
  BY <1>1 DEF StatusInv, ClientsWell
<1> QED
  BY <1>1, <1>2, BlankIsDated, WrittenRow, WebRow DEF NewStatus

LEMMA ChangedStatusGood ==
  ASSUME StatusInv, NEW c \in Clients, act[c] # "idle", NEW r \in Row, DatedRow(r),
         loaded[c] # NotLoaded, loaded[c].row # NoStatus
  PROVE  ChangedStatus(c, r) \in Row /\ DatedRow(ChangedStatus(c, r))
<1>1. body[c] \in Bodies /\ act[c] \in {"web", "item", "feed", "group"} /\ loaded[c].row \in Row
  BY DEF StatusInv, StatusTypeOK
<1>2. act[c] # "web" => body[c].column # "bookmarked"
  BY <1>1 DEF StatusInv, ClientsWell
<1> QED
  BY <1>1, <1>2, WrittenRow, WebRow DEF ChangedStatus

\* The commit of a row x for article a, with the rows the client had inserted.
LEMMA RowWritten ==
  ASSUME StatusInv, NEW c \in Clients, NEW a \in Articles, a \notin doomed,
         NEW x \in Row, DatedRow(x), status' = [WithOwn(c) EXCEPT ![a] = x],
         UNCHANGED doomed
  PROVE  /\ status' \in [Articles -> Row \cup {NoStatus}] /\ BookmarkDated' /\ SweepKeeps'
         /\ \A b \in Articles : status[b] # NoStatus => status'[b] # NoStatus
<1>1. WithOwn(c) \in [Articles -> Row \cup {NoStatus}]
  <2>1. \A b \in Articles : WithOwn(c)[b] \in Row \cup {NoStatus}
    BY WithOwnGood DEF Good
  <2> QED
    BY <2>1 DEF WithOwn
<1>2. status' \in [Articles -> Row \cup {NoStatus}]
  BY <1>1
<1>3. \A b \in Articles : status'[b] = IF b = a THEN x ELSE WithOwn(c)[b]
  BY <1>1
<1>4. \A b \in Articles : Good(status'[b])
  BY <1>3, WithOwnGood DEF Good
<1>5. BookmarkDated'
  BY <1>2, <1>4, GoodRows DEF BookmarkDated
<1>6. SweepKeeps'
  <2>1. doomed \subseteq Articles
    BY DEF StatusInv, StatusTypeOK
  <2> QED
    BY <1>3, <2>1, WithOwnGood DEF SweepKeeps
<1>7. \A b \in Articles : status[b] # NoStatus => status'[b] # NoStatus
  BY <1>3, WithOwnGood, ArticleStatusAssumption
<1> QED
  BY <1>2, <1>5, <1>6, <1>7
-----------------------------------------------------------------------------
\* The bookkeeping of a request that has finished with an article.
LEMMA NextArticleWell ==
  ASSUME StatusInv, NEW c \in Clients, NEW a \in Articles, NextArticle(c, a),
         own' \in [Clients -> SUBSET Articles],
         \A q \in Clients : own'[q] # {} =>
           /\ act[q] = "group"
           /\ q = c => left[c] # {a},
         status' \in [Articles -> Row \cup {NoStatus}],
         \A b \in Articles : status[b] # NoStatus => status'[b] # NoStatus,
         UNCHANGED <<articles, doomed>>
  PROVE  StatusTypeOK' /\ ClientsWell'
<1>1. StatusTypeOK'
  BY NoBodyTyped DEF NextArticle, StatusInv, StatusTypeOK
<1>2. \A q \in Clients : loaded'[q] # NotLoaded =>
        /\ q # c /\ loaded'[q] = loaded[q] /\ act'[q] = act[q] /\ loaded[q].article \in Articles
  BY DEF NextArticle, StatusInv, StatusTypeOK
<1>3. \A q \in Clients :
        \/ act'[q] = act[q] /\ body'[q] = body[q]
        \/ act'[q] = "idle" /\ q = c /\ left[c] = {a}
  BY DEF NextArticle, StatusInv, StatusTypeOK
<1>4. ClientsWell'
  BY <1>2, <1>3 DEF StatusInv, ClientsWell
<1> QED
  BY <1>1, <1>4

LEMMA StatusInvariance == StatusSpec => []StatusInv
<1> USE ArticleStatusAssumption
<1>1. StatusInit => StatusInv
  BY NoBodyTyped DEF StatusInit, StatusInv, StatusTypeOK, ClientsWell, BookmarkDated, SweepKeeps
<1>2. StatusInv /\ [StatusNext]_statusVars => StatusInv'
  <2> SUFFICES ASSUME StatusInv, [StatusNext]_statusVars PROVE StatusInv'
    OBVIOUS
  <2>1. ASSUME NEW c \in Clients, NEW kind \in {"web", "item", "feed", "group"}, NEW b \in Bodies,
               NEW S \in SUBSET Articles, BeginClient(c, kind, b, S),
               kind = "item" => b.column # "bookmarked",
               kind \in {"feed", "group"} => b.column = "read"
        PROVE  StatusInv'
    <3>1. StatusTypeOK'
      BY <2>1 DEF BeginClient, StatusInv, StatusTypeOK
    <3>2. ClientsWell'
      BY <2>1 DEF BeginClient, StatusInv, StatusTypeOK, ClientsWell
    <3> QED
      BY <2>1, <3>1, <3>2, RowsKept DEF BeginClient
  <2>2. ASSUME NEW c \in Clients, NEW a \in Articles, NEW b \in Bodies, BeginWeb(c, a, b)
        PROVE  StatusInv'
    BY <2>1, <2>2 DEF BeginWeb
  <2>3. ASSUME NEW c \in Clients, NEW a \in Articles, NEW b \in Bodies, BeginItem(c, a, b)
        PROVE  StatusInv'
    BY <2>1, <2>3 DEF BeginItem
  <2>4. ASSUME NEW c \in Clients, NEW kind \in {"feed", "group"}, NEW S \in SUBSET Articles,
               BeginMany(c, kind, S)
        PROVE  StatusInv'
    <3>1. [column |-> "read", value |-> TRUE] \in Bodies
      BY DEF Bodies
    <3> QED
      BY <2>1, <2>4, <3>1 DEF BeginMany
  <2>5. ASSUME NEW c \in Clients, NEW a \in Articles, LookStatus(c, a) PROVE StatusInv'
    <3>1. StatusTypeOK'
      BY <2>5 DEF LookStatus, StatusInv, StatusTypeOK
    <3>2. ClientsWell'
      BY <2>5 DEF LookStatus, StatusInv, StatusTypeOK, ClientsWell
    <3> QED
      BY <2>5, <3>1, <3>2, RowsKept DEF LookStatus
  <2>6. ASSUME NEW c \in Clients, CreateStatus(c) PROVE StatusInv'
    <3> DEFINE a == loaded[c].article
    <3>1. a \in Articles /\ a \notin doomed /\ act[c] # "idle" /\ NextArticle(c, a)
      BY <2>6 DEF CreateStatus, Blocked, StatusInv, StatusTypeOK, ClientsWell
    <3>2. CASE act[c] = "group"
      <4>1. UNCHANGED <<articles, status, doomed>>
        BY <2>6, <3>2 DEF CreateStatus
      <4>2. own' = [own EXCEPT ![c] = IF left[c] = {a} THEN {} ELSE @ \cup {a}]
        BY <2>6, <3>2 DEF CreateStatus
      <4>3. /\ own' \in [Clients -> SUBSET Articles]
            /\ \A q \in Clients : own'[q] # {} => act[q] = "group" /\ (q = c => left[c] # {a})
        BY <3>1, <3>2, <4>2 DEF StatusInv, StatusTypeOK, ClientsWell
      <4>4. StatusTypeOK' /\ ClientsWell'
        BY <3>1, <4>1, <4>3, NextArticleWell DEF StatusInv, StatusTypeOK
      <4> QED
        BY <4>1, <4>4, RowsKept
    <3>3. CASE act[c] # "group"
      <4>1. /\ status' = [WithOwn(c) EXCEPT ![a] = NewStatus(c)]
            /\ own' = [own EXCEPT ![c] = {}] /\ UNCHANGED <<articles, doomed>>
        BY <2>6, <3>3 DEF CreateStatus
      <4>2. NewStatus(c) \in Row /\ DatedRow(NewStatus(c))
        BY <3>1, NewStatusGood
      <4>3. /\ status' \in [Articles -> Row \cup {NoStatus}] /\ BookmarkDated' /\ SweepKeeps'
            /\ \A b \in Articles : status[b] # NoStatus => status'[b] # NoStatus
        BY <3>1, <4>1, <4>2, RowWritten
      <4>4. /\ own' \in [Clients -> SUBSET Articles]
            /\ \A q \in Clients : own'[q] # {} => act[q] = "group" /\ (q = c => left[c] # {a})
        BY <4>1 DEF StatusInv, StatusTypeOK, ClientsWell
      <4>5. StatusTypeOK' /\ ClientsWell'
        BY <3>1, <4>1, <4>3, <4>4, NextArticleWell
      <4> QED
        BY <4>3, <4>5 DEF StatusInv
    <3> QED
      BY <3>2, <3>3
  <2>7. ASSUME NEW c \in Clients, CreateRefused(c) PROVE StatusInv'
    <3>1. StatusTypeOK'
      BY <2>7, NoBodyTyped DEF CreateRefused, StatusInv, StatusTypeOK
    <3>2. ClientsWell'
      BY <2>7 DEF CreateRefused, StatusInv, StatusTypeOK, ClientsWell
    <3> QED
      BY <2>7, <3>1, <3>2, RowsKept DEF CreateRefused
  <2>8. ASSUME NEW c \in Clients, UpdateStatus(c) PROVE StatusInv'
    <3> DEFINE a == loaded[c].article
    <3>1. /\ a \in Articles /\ a \notin doomed /\ act[c] # "idle" /\ NextArticle(c, a)
          /\ loaded[c] # NotLoaded /\ loaded[c].row # NoStatus /\ status[a] # NoStatus
      BY <2>8 DEF UpdateStatus, Blocked, StatusInv, StatusTypeOK, ClientsWell
    <3>2. /\ status' = [WithOwn(c) EXCEPT ![a] = ChangedStatus(c, status[a])]
          /\ own' = [own EXCEPT ![c] = {}] /\ UNCHANGED <<articles, doomed>>
      BY <2>8 DEF UpdateStatus
    <3>3. ChangedStatus(c, status[a]) \in Row /\ DatedRow(ChangedStatus(c, status[a]))
      BY <3>1, RowsGood, ChangedStatusGood DEF Good
    <3>4. /\ status' \in [Articles -> Row \cup {NoStatus}] /\ BookmarkDated' /\ SweepKeeps'
          /\ \A b \in Articles : status[b] # NoStatus => status'[b] # NoStatus
      BY <3>1, <3>2, <3>3, RowWritten
    <3>5. /\ own' \in [Clients -> SUBSET Articles]
          /\ \A q \in Clients : own'[q] # {} => act[q] = "group" /\ (q = c => left[c] # {a})
      BY <3>2 DEF StatusInv, StatusTypeOK, ClientsWell
    <3>6. StatusTypeOK' /\ ClientsWell'
      BY <3>1, <3>2, <3>4, <3>5, NextArticleWell
    <3> QED
      BY <3>4, <3>6 DEF StatusInv
  <2>9. CASE SweepDelete
    <3>1. StatusTypeOK' /\ ClientsWell' /\ BookmarkDated'
      BY <2>9 DEF SweepDelete, client, StatusInv, StatusTypeOK, ClientsWell, BookmarkDated
    <3>2. SweepKeeps'
      BY <2>9 DEF SweepDelete, Deletable, SweepKeeps
    <3> QED
      BY <3>1, <3>2 DEF StatusInv
  <2>10. CASE SweepEnd
    BY <2>10 DEF SweepEnd, client, StatusInv, StatusTypeOK, ClientsWell, BookmarkDated, SweepKeeps
  <2>11. CASE UNCHANGED statusVars
    BY <2>11 DEF statusVars, client, StatusInv, StatusTypeOK, ClientsWell, BookmarkDated, SweepKeeps
  <2> QED
    BY <2>2, <2>3, <2>4, <2>5, <2>6, <2>7, <2>8, <2>9, <2>10, <2>11 DEF StatusNext
<1> QED
  BY <1>1, <1>2, PTL DEF StatusSpec

\* Status rows have their type: a client works on at most one row at a time, and
\* goes on with articles it was asked about.
THEOREM StatusTypeCorrect == StatusSpec => []StatusTypeOK
<1>1. StatusInv => StatusTypeOK
  BY DEF StatusInv
<1> QED
  BY <1>1, StatusInvariance, PTL

\* However the requests of the user overlap with each other and the sweep, a row has
\* a bookmark date exactly when it is a bookmark.
THEOREM BookmarkDatedHolds == StatusSpec => []BookmarkDated
<1>1. StatusInv => BookmarkDated
  BY DEF StatusInv
<1> QED
  BY <1>1, StatusInvariance, PTL

\* No article that SweepArticleJob deleted, and has not committed, has been starred or
\* bookmarked since: a write to its row waits for the sweep, and a request that has
\* inserted a row without a commit only marks as read.
THEOREM SweepKeepsHolds == StatusSpec => []SweepKeeps
<1>1. StatusInv => SweepKeeps
  BY DEF StatusInv
<1> QED
  BY <1>1, StatusInvariance, PTL

-----------------------------------------------------------------------------
\* The column k of a row in which column i was set ...
LEMMA ColumnSet ==
  ASSUME NEW r \in Row, NEW i \in {"read", "starred", "bookmarked"},
         NEW k \in {"read", "starred", "bookmarked"}, NEW v \in BOOLEAN
  PROVE  [r EXCEPT ![i] = v][k] = IF k = i THEN v ELSE r[k]
<1>1. DOMAIN r = {"read", "starred", "bookmarked", "readAt", "bookmarkedAt"}
  BY DEF Row
<1> QED
  BY <1>1

\* ... or a date.
LEMMA DateSet ==
  ASSUME NEW r \in Row, NEW k \in {"read", "starred", "bookmarked"}, NEW v \in BOOLEAN
  PROVE  /\ [r EXCEPT !.readAt = v][k] = r[k]
         /\ [r EXCEPT !.bookmarkedAt = v][k] = r[k]
<1>1. DOMAIN r = {"read", "starred", "bookmarked", "readAt", "bookmarkedAt"}
  BY DEF Row
<1> QED
  BY <1>1

\* A column keeps its value or gets the one a request was sent with.
LEMMA OnlyColumn ==
  ASSUME NEW r \in Row, NEW l \in Row, NEW b \in Bodies, NEW k \in Columns
  PROVE  LET w == Written(r, l, b)
             d == Dated(w, l, b)
         IN  /\ w[k] = r[k] \/ (k = b.column /\ w[k] = b.value)
             /\ d[k] = r[k] \/ (k = b.column /\ d[k] = b.value)
<1>1. /\ k \in {"read", "starred", "bookmarked"}
      /\ b.column \in {"read", "starred", "bookmarked"} /\ b.value \in BOOLEAN
  BY ArticleStatusAssumption, BodyTyped
<1>2. PICK w \in Row : w = Written(r, l, b)
  BY WrittenRow
<1>3. w[k] = r[k] \/ (k = b.column /\ w[k] = b.value)
  BY <1>1, <1>2, ColumnSet DEF Written
<1>4. PICK d : d = Dated(w, l, b)
  OBVIOUS
<1>5. PICK v \in BOOLEAN : \/ d = w
                          \/ d = [w EXCEPT !.readAt = v]
                          \/ d = [w EXCEPT !.bookmarkedAt = v]
  BY <1>1, <1>4 DEF Dated
<1>6. d[k] = w[k]
  <2>1. /\ [w EXCEPT !.readAt = v][k] = w[k]
        /\ [w EXCEPT !.bookmarkedAt = v][k] = w[k]
    BY <1>1, DateSet
  <2> QED
    BY <1>5, <2>1
<1> QED
  BY <1>2, <1>3, <1>4, <1>6
\* What a request has inserted and not committed has no row that others see, and
\* nobody else inserts it.
OwnApart ==
  \A c \in Clients : \A a \in own[c] :
    status[a] = NoStatus /\ \A q \in Clients \ {c} : a \notin own[q]

\* The write that ends c's work on an article: its own column, to what it was sent.
Asked(c, a, k) ==
  Value(status, a, k) = Value(status', a, k)
    \/ body[c] = [column |-> k, value |-> Value(status', a, k)]

LEMMA BodyIs ==
  ASSUME NEW b \in Bodies, NEW k \in Columns, NEW v, k = b.column, v = b.value
  PROVE  b = [column |-> k, value |-> v]
BY DEF Bodies

LEMMA BlankColumns == \A k \in Columns : BlankRow[k] = FALSE
<1>1. \A k \in {"read", "starred", "bookmarked"} : BlankRow[k] = FALSE
  BY DEF BlankRow
<1> QED
  BY <1>1, ArticleStatusAssumption

\* A commit writes the article c works on and those it inserted before.
LEMMA CommitAsked ==
  ASSUME StatusInv, OwnApart, NEW c \in Clients, NEW a \in Articles, act[c] # "idle", NEW x \in Row,
         status' = [WithOwn(c) EXCEPT ![a] = x],
         \A k \in Columns : x[k] = Value(status, a, k) \/ (k = body[c].column /\ x[k] = body[c].value)
  PROVE  \A b \in Articles, k \in Columns : Asked(c, b, k)
<1> SUFFICES ASSUME NEW b \in Articles, NEW k \in Columns PROVE Asked(c, b, k)
  OBVIOUS
<1>1. body[c] \in Bodies /\ NoStatus \notin Row
  BY ArticleStatusAssumption DEF StatusInv, StatusTypeOK
<1>2. status'[b] = IF b = a THEN x ELSE WithOwn(c)[b]
  BY DEF WithOwn
<1>3. CASE b = a
  <2>1. Value(status', b, k) = x[k]
    BY <1>1, <1>2, <1>3 DEF Value
  <2>2. CASE x[k] = Value(status, b, k)
    BY <2>1, <2>2 DEF Asked
  <2>3. CASE k = body[c].column /\ x[k] = body[c].value
    BY <1>1, <2>1, <2>3, BodyIs DEF Asked
  <2> QED
    BY <1>3, <2>2, <2>3
<1>4. CASE b # a /\ b \in own[c]
  <2>1. PICK w \in Row : w = Written(BlankRow, BlankRow, body[c])
    BY <1>1, BlankIsDated, WrittenRow
  <2>2. status'[b] = w /\ status[b] = NoStatus
    BY <1>2, <1>4, <2>1 DEF WithOwn, OwnApart
  <2>3. Value(status', b, k) = w[k] /\ Value(status, b, k) = FALSE
    BY <1>1, <2>2 DEF Value
  <2>4. w[k] = FALSE \/ (k = body[c].column /\ w[k] = body[c].value)
    BY <1>1, <2>1, BlankIsDated, BlankColumns, OnlyColumn
  <2>5. CASE w[k] = FALSE
    BY <2>3, <2>5 DEF Asked
  <2>6. CASE k = body[c].column /\ w[k] = body[c].value
    <3>1. body[c] = [column |-> k, value |-> w[k]]
      BY <1>1, <2>6, BodyIs
    <3> QED
      BY <2>3, <3>1 DEF Asked
  <2> QED
    BY <2>4, <2>5, <2>6
<1>5. CASE b # a /\ b \notin own[c]
  BY <1>2, <1>5 DEF WithOwn, Asked, Value
<1> QED
  BY <1>3, <1>4, <1>5

\* The invariant, and that the rows keep to what was asked.
LEMMA OwnStep ==
  ASSUME StatusInv, OwnApart, [StatusNext]_statusVars
  PROVE  /\ OwnApart'
         /\ \/ status' = status
            \/ \E c \in Clients :
                 /\ act[c] # "idle" /\ loaded[c] # NotLoaded /\ loaded'[c] = NotLoaded
                 /\ \A a \in Articles, k \in Columns : Asked(c, a, k)
<1>1. CASE status' = status /\ own' = own
  BY <1>1 DEF OwnApart
<1>2. ASSUME NEW c \in Clients, status' = status, own' = [own EXCEPT ![c] = {}]
      PROVE  OwnApart'
  BY <1>2 DEF OwnApart, StatusInv, StatusTypeOK
<1>3. ASSUME NEW c \in Clients, NEW a \in Articles, NEW x, ~Blocked(c, a),
             status' = [WithOwn(c) EXCEPT ![a] = x], own' = [own EXCEPT ![c] = {}]
      PROVE  OwnApart'
  <2>1. \A q \in Clients : own'[q] = IF q = c THEN {} ELSE own[q]
    BY <1>3 DEF StatusInv, StatusTypeOK
  <2>2. \A q \in Clients \ {c} : \A b \in own[q] : b \in Articles /\ b # a /\ b \notin own[c]
    BY <1>3 DEF Blocked, OwnApart, StatusInv, StatusTypeOK
  <2>3. \A b \in Articles : b # a /\ b \notin own[c] => status'[b] = status[b]
    BY <1>3 DEF WithOwn
  <2> QED
    BY <2>1, <2>2, <2>3 DEF OwnApart
<1>4. ASSUME NEW c \in Clients, CreateStatus(c)
      PROVE  /\ OwnApart'
             /\ \/ status' = status
                \/ /\ act[c] # "idle" /\ loaded[c] # NotLoaded /\ loaded'[c] = NotLoaded
                   /\ \A b \in Articles, k \in Columns : Asked(c, b, k)
  <2>1. PICK a \in Articles : a = loaded[c].article
    BY <1>4 DEF CreateStatus, StatusInv, StatusTypeOK
  <2>2. /\ loaded[c] # NotLoaded /\ status[a] = NoStatus /\ ~Blocked(c, a) /\ NextArticle(c, a)
        /\ act[c] # "idle"
    BY <1>4, <2>1 DEF CreateStatus, StatusInv, ClientsWell
  <2>3. CASE act[c] = "group"
    <3>1. status' = status
      BY <1>4, <2>3 DEF CreateStatus
    <3>2. own' = [own EXCEPT ![c] = {}] \/ own' = [own EXCEPT ![c] = @ \cup {a}]
      BY <1>4, <2>1, <2>3 DEF CreateStatus
    <3>3. ASSUME own' = [own EXCEPT ![c] = @ \cup {a}] PROVE OwnApart'
      <4>1. \A q \in Clients : own'[q] = IF q = c THEN own[q] \cup {a} ELSE own[q]
        BY <3>3 DEF StatusInv, StatusTypeOK
      <4>2. \A q \in Clients \ {c} : a \notin own[q]
        BY <2>2 DEF Blocked
      <4>3. ASSUME NEW q \in Clients, NEW b \in own'[q]
            PROVE  status[b] = NoStatus /\ \A p \in Clients \ {q} : b \notin own'[p]
        <5>1. CASE b = a
          <6>1. q = c
            BY <4>1, <4>2, <5>1
          <6> QED
            BY <2>2, <4>1, <4>2, <5>1, <6>1
        <5>2. CASE b # a
          <6>1. \A p \in Clients : b \in own'[p] => b \in own[p]
            BY <4>1, <5>2
          <6>2. b \in own[q]
            BY <6>1
          <6> QED
            BY <6>1, <6>2 DEF OwnApart
        <5> QED
          BY <5>1, <5>2
      <4> QED
        BY <3>1, <4>3 DEF OwnApart
    <3> QED
      BY <1>2, <3>1, <3>2, <3>3
  <2>4. CASE act[c] # "group"
    <3>1. status' = [WithOwn(c) EXCEPT ![a] = NewStatus(c)] /\ own' = [own EXCEPT ![c] = {}]
      BY <1>4, <2>1, <2>4 DEF CreateStatus
    <3>2. NewStatus(c) \in Row /\ body[c] \in Bodies
      BY <2>2, NewStatusGood DEF StatusInv, StatusTypeOK
    <3>3. \A k \in Columns : NewStatus(c)[k] = FALSE \/ (k = body[c].column /\ NewStatus(c)[k] = body[c].value)
      BY <3>2, BlankIsDated, BlankColumns, OnlyColumn DEF NewStatus
    <3>4. \A k \in Columns : Value(status, a, k) = FALSE
      BY <2>2 DEF Value
    <3>5. loaded'[c] = NotLoaded
      BY <2>2 DEF NextArticle, StatusInv, StatusTypeOK
    <3> QED
      BY <1>3, <2>2, <3>1, <3>2, <3>3, <3>4, <3>5, CommitAsked
  <2> QED
    BY <2>3, <2>4
<1>5. ASSUME NEW c \in Clients, UpdateStatus(c)
      PROVE  /\ OwnApart'
             /\ act[c] # "idle" /\ loaded[c] # NotLoaded /\ loaded'[c] = NotLoaded
             /\ \A b \in Articles, k \in Columns : Asked(c, b, k)
  <2>1. PICK a \in Articles : a = loaded[c].article
    BY <1>5 DEF UpdateStatus, StatusInv, StatusTypeOK
  <2>2. /\ loaded[c] # NotLoaded /\ loaded[c].row # NoStatus /\ status[a] # NoStatus
        /\ ~Blocked(c, a) /\ NextArticle(c, a) /\ act[c] # "idle"
        /\ status' = [WithOwn(c) EXCEPT ![a] = ChangedStatus(c, status[a])]
        /\ own' = [own EXCEPT ![c] = {}]
    BY <1>5, <2>1 DEF UpdateStatus, StatusInv, ClientsWell
  <2>3. /\ status[a] \in Row /\ DatedRow(status[a])
        /\ loaded[c].row \in Row /\ body[c] \in Bodies
    BY <2>2, RowsGood DEF Good, StatusInv, StatusTypeOK
  <2>4. ChangedStatus(c, status[a]) \in Row
    BY <2>2, <2>3, ChangedStatusGood
  <2>5. \A k \in Columns :
          \/ ChangedStatus(c, status[a])[k] = status[a][k]
          \/ k = body[c].column /\ ChangedStatus(c, status[a])[k] = body[c].value
    BY <2>3, OnlyColumn DEF ChangedStatus
  <2>6. \A k \in Columns : Value(status, a, k) = status[a][k]
    BY <2>2 DEF Value
  <2>7. loaded'[c] = NotLoaded
    BY <2>2 DEF NextArticle, StatusInv, StatusTypeOK
  <2> QED
    BY <1>3, <2>2, <2>4, <2>5, <2>6, <2>7, CommitAsked
<1>6. ASSUME NEW c \in Clients, CreateRefused(c) PROVE OwnApart' /\ status' = status
  BY <1>2, <1>6 DEF CreateRefused
<1>7. CASE /\ \A c \in Clients : ~CreateStatus(c) /\ ~UpdateStatus(c) /\ ~CreateRefused(c)
  BY <1>1, <1>7
  DEF StatusNext, statusVars, client, BeginWeb, BeginItem, BeginMany, BeginClient, LookStatus,
      SweepDelete, SweepEnd
<1> QED
  BY <1>4, <1>5, <1>6, <1>7

\* A column changes only to the value that a request, which writes now, was sent
\* with, however the requests of the user overlap.
THEOREM OnlyAskedChangesHolds == StatusSpec => OnlyAskedChanges
<1>1. StatusInit => OwnApart
  BY DEF StatusInit, OwnApart
<1>2. StatusInv /\ OwnApart /\ [StatusNext]_statusVars => OwnApart'
  BY OwnStep
<1>3. StatusInv /\ OwnApart /\ [StatusNext]_statusVars =>
        [\A a \in Articles, k \in Columns :
           Value(status, a, k) # Value(status', a, k)
             => \E c \in Clients : /\ act[c] # "idle" /\ loaded[c] # NotLoaded
                                   /\ loaded'[c] = NotLoaded
                                   /\ body[c] = [column |-> k, value |-> Value(status', a, k)]
        ]_statusVars
  BY OwnStep DEF Asked
<1> QED
  BY <1>1, <1>2, <1>3, StatusInvariance, PTL DEF StatusSpec, OnlyAskedChanges
=============================================================================
