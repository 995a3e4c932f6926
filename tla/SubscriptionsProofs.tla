-------------------------- MODULE SubscriptionsProofs --------------------------
(***************************************************************************)
(* Proofs about Subscriptions, for any feeds, folders, names, documents    *)
(* and overlapping requests: the type of its state, that the keys of its   *)
(* rows stay unique, that no row refers to one that is gone, that only     *)
(* unsubscribing ends a subscription, and that an import's report is true. *)
(*                                                                         *)
(* The argument: the committed rows are not all that counts.  What open    *)
(* transactions inserted has keys apart from the committed ones and from   *)
(* one another's, and refers to what is committed or of the same           *)
(* transaction; a folder a request is about to insert has an id of its own.*)
(***************************************************************************)
EXTENDS Subscriptions, TLAPS

\* What a request is about to write, by what it does.
WantWell(r) ==
  /\ op[r] = "idle" => want[r] = NoRow
  /\ op[r] = "import" /\ want[r] # NoRow => place[r] <= Len(Document)
  /\ op[r] \in {"rename", "delete"} => want[r] \in FolderRows
  /\ op[r] = "move" => want[r] \in SubRows
  /\ op[r] = "create" /\ want[r] # NoRow => want[r] \in FolderRows
  /\ op[r] = "subscribe" /\ want[r] # NoRow => want[r] \in FeedRows \cup SubRows

Well == SubsTypeOK /\ \A r \in Requests : WantWell(r)

-----------------------------------------------------------------------------
\* The fields of a row follow from its kind.
LEMMA RowKinds ==
  ASSUME NEW x \in Rows
  PROVE  /\ x.kind \in {"feed", "sub", "folder"}
         /\ x.kind = "feed" => x \in FeedRows /\ x.feed \in Feeds /\ x = FeedRow(x.feed)
         /\ x.kind = "sub" => x \in SubRows /\ x.feed \in Feeds /\ x.folder \in FolderRef
                              /\ x = SubRow(x.feed, x.folder)
         /\ x.kind = "folder" => /\ x \in FolderRows /\ x.id \in Folders /\ x.name \in Names
                                 /\ x.parent \in FolderRef
                                 /\ x = FolderRow(x.id, x.name, x.parent)
<1>1. CASE x \in FeedRows
  BY <1>1 DEF FeedRows, FeedRow
<1>2. CASE x \in SubRows
  BY <1>2 DEF SubRows, SubRow
<1>3. CASE x \in FolderRows
  BY <1>3 DEF FolderRows, FolderRow
<1> QED
  BY <1>1, <1>2, <1>3 DEF Rows

LEMMA NewRows ==
  /\ \A f \in Feeds : FeedRow(f) \in FeedRows /\ FeedRow(f).kind = "feed" /\ FeedRow(f).feed = f
  /\ \A f \in Feeds, d \in FolderRef :
       /\ SubRow(f, d) \in SubRows /\ SubRow(f, d).kind = "sub"
       /\ SubRow(f, d).feed = f /\ SubRow(f, d).folder = d
  /\ \A d \in Folders, n \in Names, p \in FolderRef :
       /\ FolderRow(d, n, p) \in FolderRows /\ FolderRow(d, n, p).kind = "folder"
       /\ FolderRow(d, n, p).id = d /\ FolderRow(d, n, p).name = n
       /\ FolderRow(d, n, p).parent = p
BY DEF FeedRow, FeedRows, SubRow, SubRows, FolderRow, FolderRows

LEMMA KindsOfRows ==
  /\ \A x \in FeedRows : x \in Rows /\ x.kind = "feed"
  /\ \A x \in SubRows : x \in Rows /\ x.kind = "sub"
  /\ \A x \in FolderRows : x \in Rows /\ x.kind = "folder"
BY DEF FeedRow, FeedRows, SubRows, FolderRows, Rows

\* Rows with one key have one kind, and agree in what that key consists of.
LEMMA KeyFields ==
  ASSUME NEW x \in Rows, NEW y \in Rows
  PROVE  Key(x) = Key(y) <=>
           /\ x.kind = y.kind
           /\ x.kind # "folder" => x.feed = y.feed
           /\ x.kind = "folder" => x.name = y.name /\ x.parent = y.parent
<1>1. x.kind \in {"feed", "sub", "folder"} /\ y.kind \in {"feed", "sub", "folder"}
  BY RowKinds
<1>2. CASE x.kind = "folder" /\ y.kind = "folder"
  BY <1>2 DEF Key
<1>3. CASE x.kind # "folder" /\ y.kind # "folder"
  BY <1>3 DEF Key
<1>4. CASE x.kind = "folder" /\ y.kind # "folder"
  <2>1. Key(x)[1] = "folder" /\ Key(y)[1] = y.kind
    BY <1>4 DEF Key
  <2> QED
    BY <1>4, <2>1
<1>5. CASE x.kind # "folder" /\ y.kind = "folder"
  <2>1. Key(y)[1] = "folder" /\ Key(x)[1] = x.kind
    BY <1>5 DEF Key
  <2> QED
    BY <1>5, <2>1
<1> QED
  BY <1>2, <1>3, <1>4, <1>5
-----------------------------------------------------------------------------
\* A step of another request leaves q's alone.
Same(q) == op'[q] = op[q] /\ want'[q] = want[q] /\ place'[q] = place[q]

LEMMA WantStep ==
  ASSUME Well, NEW r \in Requests, WantWell(r)',
         \A q \in Requests \ {r} : Same(q)
  PROVE  \A q \in Requests : WantWell(q)'
<1> SUFFICES ASSUME NEW q \in Requests, q # r PROVE WantWell(q)'
  OBVIOUS
<1>1. WantWell(q) /\ Same(q)
  BY DEF Well
<1> QED
  BY <1>1 DEF WantWell, Same

\* A session that ends leaves nothing behind.
LEMMA EndTypes ==
  ASSUME Well, NEW r \in Requests, EndRequest(r),
         rows' \subseteq Rows, jobs' \subseteq Feeds, fetched' \subseteq Feeds, used' \subseteq Folders
  PROVE  Well'
<1> USE SubscriptionsAssumption
<1>1. op' \in [Requests -> Ops] /\ todo' \in [Requests -> SUBSET Feeds]
  BY DEF Well, SubsTypeOK, EndRequest, Ops
<1>2. place' \in [Requests -> 1..Len(Document) + 1]
  BY DEF Well, SubsTypeOK, EndRequest
<1>3. made' \in [Requests -> [0..Len(Document) -> FolderRef]]
  <2>1. [i \in 0..Len(Document) |-> NoFolder] \in [0..Len(Document) -> FolderRef]
    BY DEF FolderRef
  <2> QED
    BY <2>1 DEF Well, SubsTypeOK, EndRequest
<1>4. want' \in [Requests -> Rows \cup {NoRow}]
  BY DEF Well, SubsTypeOK, EndRequest
<1>5. own' \in [Requests -> SUBSET Rows] /\ seen' \in [Requests -> SUBSET Feeds]
  BY DEF Well, SubsTypeOK, EndRequest
<1>6. broken' \subseteq Requests
  BY DEF Well, SubsTypeOK, EndRequest
<1>7. added' \in [Requests -> SUBSET Feeds] /\ failed' \in [Requests -> SUBSET Feeds]
  BY DEF Well, SubsTypeOK, EndRequest
<1>8. \A q \in Requests : WantWell(q)'
  <2>1. op'[r] = "idle" /\ \A q \in Requests \ {r} : Same(q)
    BY DEF Same, Well, SubsTypeOK, EndRequest
  <2>2. WantWell(r)'
    BY <2>1 DEF WantWell, Well, SubsTypeOK, EndRequest
  <2> QED
    BY <2>1, <2>2, WantStep
<1> QED
  BY <1>1, <1>2, <1>3, <1>4, <1>5, <1>6, <1>7, <1>8 DEF Well, SubsTypeOK

\* The outline at which an import stands.
LEMMA Outlines ==
  ASSUME Well, NEW r \in Requests, Importing(r)
  PROVE  /\ place[r] \in 1..Len(Document)
         /\ Document[place[r]].kind = "feed" => Document[place[r]].feed \in Feeds
         /\ Document[place[r]].kind = "folder" => Document[place[r]].name \in Names
         /\ made[r][Document[place[r]].within] \in FolderRef
<1>1. place[r] \in 1..Len(Document)
  BY SubscriptionsAssumption DEF Well, SubsTypeOK, Importing
<1>2. DOMAIN Document = 1..Len(Document) /\ Document[place[r]] \in Outline
  BY <1>1, SubscriptionsAssumption
<1>3. Document[place[r]].within < place[r] /\ Document[place[r]].within \in Nat
  <2>1. Document[place[r]].within < place[r]
    BY <1>1, <1>2, SubscriptionsAssumption
  <2> QED
    BY <1>2, <2>1 DEF Outline
<1>4. Document[place[r]].within \in 0..Len(Document)
  BY <1>1, <1>3, SubscriptionsAssumption
<1>5. made[r] \in [0..Len(Document) -> FolderRef]
  BY DEF Well, SubsTypeOK
<1> QED
  BY <1>1, <1>2, <1>4, <1>5 DEF Outline

LEMMA StartsWell ==
  ASSUME Well, NEW r \in Requests, Starts(r)
  PROVE  Well'
<1>1. CASE \E F \in (SUBSET Feeds) \ {{}} : BeginSubscribe(r, F)
  <2>1. PICK F \in SUBSET Feeds : BeginSubscribe(r, F)
    BY <1>1
  <2>2. SubsTypeOK'
    BY <2>1 DEF Well, SubsTypeOK, BeginSubscribe, Ops
  <2>3. /\ op'[r] = "subscribe" /\ want'[r] = NoRow
        /\ \A q \in Requests \ {r} : Same(q)
    BY <2>1 DEF Same, Well, SubsTypeOK, WantWell, BeginSubscribe
  <2> QED
    BY <2>2, <2>3, WantStep DEF Well, WantWell
<1>2. CASE BeginImport(r)
  <2>2. SubsTypeOK'
    BY <1>2 DEF Well, SubsTypeOK, BeginImport, Ops
  <2>3. /\ op'[r] = "import" /\ want'[r] = NoRow
        /\ \A q \in Requests \ {r} : Same(q)
    BY <1>2 DEF Same, Well, SubsTypeOK, WantWell, BeginImport
  <2> QED
    BY <2>2, <2>3, WantStep DEF Well, WantWell
<1>3. ASSUME NEW kind \in {"create", "rename", "move"}, NEW x \in Rows, Decide(r, kind, x),
             used' \subseteq Folders,
             kind \in {"create", "rename"} => x \in FolderRows, kind = "move" => x \in SubRows
      PROVE  Well'
  <2>2. SubsTypeOK'
    BY <1>3 DEF Well, SubsTypeOK, Decide, Ops
  <2>3. /\ op'[r] = kind /\ want'[r] = x
        /\ \A q \in Requests \ {r} : Same(q)
    BY <1>3 DEF Same, Well, SubsTypeOK, Decide
  <2> QED
    BY <1>3, <2>2, <2>3, WantStep DEF Well, WantWell
<1>4. CASE \E n \in Names : BeginCreate(r, n)
  <2>1. PICK n \in Names, d \in Folders \ used :
          Decide(r, "create", FolderRow(d, n, NoFolder)) /\ used' = used \cup {d}
    BY <1>4 DEF BeginCreate
  <2>2. FolderRow(d, n, NoFolder) \in FolderRows
    BY NewRows DEF FolderRef
  <2> QED
    BY <1>3, <2>1, <2>2, KindsOfRows DEF Well, SubsTypeOK
<1>5. CASE \E x \in rows : BeginDelete(r, x)
  <2>1. PICK x \in rows : BeginDelete(r, x)
    BY <1>5
  <2>2. x \in FolderRows /\ x \in Rows
    BY <2>1, RowKinds DEF Well, SubsTypeOK, BeginDelete
  <2>3. {y.feed : y \in {s \in rows : s.kind = "sub" /\ s.folder = x.id}} \subseteq Feeds
    BY RowKinds DEF Well, SubsTypeOK
  <2>4. SubsTypeOK'
    BY <2>1, <2>2, <2>3 DEF Well, SubsTypeOK, BeginDelete, Ops
  <2>5. /\ op'[r] = "delete" /\ want'[r] = x
        /\ \A q \in Requests \ {r} : Same(q)
    BY <2>1 DEF Same, Well, SubsTypeOK, BeginDelete
  <2> QED
    BY <2>2, <2>4, <2>5, WantStep DEF Well, WantWell
<1>6. CASE \E x \in rows, n \in Names : BeginRename(r, x, n)
  <2>1. PICK x \in rows, n \in Names : BeginRename(r, x, n)
    BY <1>6
  <2>2. x.id \in Folders /\ x.parent \in FolderRef
    BY <2>1, RowKinds DEF Well, SubsTypeOK, BeginRename
  <2>3. FolderRow(x.id, n, x.parent) \in FolderRows
    BY <2>2, NewRows
  <2> QED
    BY <1>3, <2>1, <2>3, KindsOfRows DEF Well, SubsTypeOK, BeginRename
<1>7. CASE \E x \in rows, d \in FolderRef : BeginMove(r, x, d)
  <2>1. PICK x \in rows, d \in FolderRef : BeginMove(r, x, d)
    BY <1>7
  <2>2. x.feed \in Feeds
    BY <2>1, RowKinds DEF Well, SubsTypeOK, BeginMove
  <2>3. SubRow(x.feed, d) \in SubRows
    BY <2>2, NewRows
  <2> QED
    BY <1>3, <2>1, <2>3, KindsOfRows DEF Well, SubsTypeOK, BeginMove
<1>8. CASE \E f \in Feeds : Unsubscribe(r, f)
  <2>1. SubsTypeOK'
    BY <1>8 DEF Well, SubsTypeOK, Unsubscribe
  <2> QED
    BY <1>8, <2>1 DEF Well, WantWell, Unsubscribe
<1> QED
  BY <1>1, <1>2, <1>4, <1>5, <1>6, <1>7, <1>8 DEF Starts
LEMMA WalkWell ==
  ASSUME Well, NEW r \in Requests,
         (\E f \in Feeds : LookUp(r, f)) \/ WalkFeed(r) \/ WalkFolder(r)
  PROVE  Well'
<1> USE SubscriptionsAssumption
<1>0. op'[r] = op[r] /\ \A q \in Requests \ {r} : Same(q)
  BY DEF Same, Well, SubsTypeOK, LookUp, WalkFeed, WalkFolder
<1>1. CASE \E f \in Feeds : LookUp(r, f)
  <2>1. PICK f \in Feeds : LookUp(r, f)
    BY <1>1
  <2>2. FeedRow(f) \in FeedRows /\ SubRow(f, NoFolder) \in SubRows
    BY NewRows DEF FolderRef
  <2>3. op[r] = "subscribe" /\ (want'[r] = NoRow \/ want'[r] \in FeedRows \cup SubRows)
    BY <2>1, <2>2 DEF Well, SubsTypeOK, LookUp
  <2>4. want' \in [Requests -> Rows \cup {NoRow}]
    BY <1>0, <2>1, <2>3, KindsOfRows DEF Well, SubsTypeOK, LookUp
  <2>5. todo' \in [Requests -> SUBSET Feeds]
    BY <2>1 DEF Well, SubsTypeOK, LookUp
  <2>6. SubsTypeOK'
    BY <2>1, <2>4, <2>5 DEF Well, SubsTypeOK, LookUp
  <2>7. WantWell(r)'
    BY <1>0, <2>3 DEF WantWell
  <2> QED
    BY <1>0, <2>6, <2>7, WantStep DEF Well
<1>2. CASE WalkFeed(r)
  <2>1. op[r] = "import" /\ Document[place[r]].feed \in Feeds /\ place[r] \in 1..Len(Document)
        /\ made[r][Document[place[r]].within] \in FolderRef
    BY <1>2, Outlines DEF WalkFeed, Importing
  <2>2. \/ want' = want /\ place' = [place EXCEPT ![r] = @ + 1]
        \/ /\ place' = place
           /\ \E x \in FeedRows \cup SubRows : want' = [want EXCEPT ![r] = x]
    <3>1. FeedRow(Document[place[r]].feed) \in FeedRows
          /\ SubRow(Document[place[r]].feed, made[r][Document[place[r]].within]) \in SubRows
      BY <2>1, NewRows
    <3> QED
      BY <1>2, <3>1 DEF WalkFeed
  <2>3. \E F \in SUBSET Feeds : failed' = [failed EXCEPT ![r] = F]
    <3>1. failed[r] \subseteq Feeds /\ failed[r] \cup {Document[place[r]].feed} \subseteq Feeds
          /\ failed = [failed EXCEPT ![r] = failed[r]]
      BY <2>1 DEF Well, SubsTypeOK
    <3> QED
      BY <1>2, <3>1 DEF WalkFeed
  <2>4. want' \in [Requests -> Rows \cup {NoRow}] /\ place' \in [Requests -> 1..Len(Document) + 1]
    <3>1. want' \in [Requests -> Rows \cup {NoRow}]
      BY <2>2, KindsOfRows DEF Well, SubsTypeOK
    <3>2. place \in [Requests -> 1..Len(Document) + 1] /\ place[r] + 1 \in 1..Len(Document) + 1
      BY <2>1 DEF Well, SubsTypeOK
    <3>3. place' \in [Requests -> 1..Len(Document) + 1]
      BY <2>2, <3>2
    <3> QED
      BY <3>1, <3>3
  <2>5. failed' \in [Requests -> SUBSET Feeds]
    BY <2>1, <2>3 DEF Well, SubsTypeOK
  <2>6. SubsTypeOK'
    BY <1>2, <2>4, <2>5 DEF Well, SubsTypeOK, WalkFeed
  <2>7. WantWell(r)'
    <3>1. want[r] = NoRow
      BY <1>2 DEF WalkFeed, Importing
    <3> QED
      BY <1>0, <2>1, <2>2, <3>1 DEF Well, SubsTypeOK, WantWell
  <2> QED
    BY <1>0, <2>6, <2>7, WantStep DEF Well
<1>3. CASE WalkFolder(r)
  <2>1. op[r] = "import" /\ Document[place[r]].name \in Names /\ place[r] \in 1..Len(Document)
        /\ made[r][Document[place[r]].within] \in FolderRef
    BY <1>3, Outlines DEF WalkFolder, Importing
  <2>2. WantWell(r)'
    <3>1. want[r] = NoRow
      BY <1>3 DEF WalkFolder, Importing
    <3>2. want' = want \/ place' = place
      BY <1>3 DEF WalkFolder
    <3> QED
      BY <1>0, <2>1, <3>1, <3>2 DEF Well, SubsTypeOK, WantWell
  <2>3. SubsTypeOK'
    <3>1. CASE \E y \in Visible(r) :
                 /\ y.kind = "folder"
                 /\ made' = [made EXCEPT ![r][place[r]] = y.id]
                 /\ place' = [place EXCEPT ![r] = @ + 1]
                 /\ UNCHANGED <<want, used>>
      <4>1. PICK y \in Visible(r) :
              /\ y.kind = "folder"
              /\ made' = [made EXCEPT ![r][place[r]] = y.id]
              /\ place' = [place EXCEPT ![r] = @ + 1]
              /\ UNCHANGED <<want, used>>
        BY <3>1
      <4>2. y.id \in FolderRef
        BY <4>1, RowKinds DEF Well, SubsTypeOK, Visible, FolderRef
      <4>3. made' \in [Requests -> [0..Len(Document) -> FolderRef]]
        BY <4>1, <4>2, <2>1 DEF Well, SubsTypeOK
      <4>4. place' \in [Requests -> 1..Len(Document) + 1]
        BY <4>1, <2>1 DEF Well, SubsTypeOK
      <4> QED
        BY <1>3, <4>1, <4>3, <4>4 DEF Well, SubsTypeOK, WalkFolder
    <3>2. CASE \E d \in Folders \ used :
                 /\ want' = [want EXCEPT ![r] = FolderRow(d, Document[place[r]].name,
                                                          made[r][Document[place[r]].within])]
                 /\ used' = used \cup {d}
                 /\ UNCHANGED <<made, place>>
      <4>1. want' \in [Requests -> Rows \cup {NoRow}] /\ used' \subseteq Folders
        BY <2>1, <3>2, NewRows, KindsOfRows DEF Well, SubsTypeOK
      <4> QED
        BY <1>3, <3>2, <4>1 DEF Well, SubsTypeOK, WalkFolder
    <3> QED
      BY <1>3, <3>1, <3>2 DEF WalkFolder
  <2> QED
    BY <1>0, <2>2, <2>3, WantStep DEF Well
<1> QED
  BY <1>1, <1>2, <1>3

\* What an insert has to write.
LEMMA Wanted ==
  ASSUME Well, NEW r \in Requests, Inserting(r)
  PROVE  want[r] \in Rows /\ want[r] # NoRow /\ op[r] \in {"subscribe", "import", "create"}
BY DEF Well, SubsTypeOK, Inserting

LEMMA InsertsWell ==
  ASSUME Well, NEW r \in Requests, Insert(r) \/ InsertRefusedImport(r)
  PROVE  Well'
<1> USE SubscriptionsAssumption
<1>1. PICK x \in Rows : x = want[r] /\ x # NoRow /\ op[r] \in {"subscribe", "import", "create"}
  BY Wanted DEF Insert, InsertRefusedImport
<1>2. x.kind \in {"sub", "feed"} => x.feed \in Feeds
  BY RowKinds
<1>3. x.kind = "folder" => x.id \in FolderRef
  BY RowKinds DEF FolderRef
<1>4. x.kind \in {"sub", "feed", "folder"}
  BY RowKinds
<1>5. op' = op /\ \A q \in Requests \ {r} : Same(q)
  BY DEF Same, Well, SubsTypeOK, Insert, InsertRefusedImport
<1>6. CASE Insert(r)
  <2>1. want' = [want EXCEPT ![r] = IF op[r] = "subscribe" /\ x.kind = "feed"
                                      THEN SubRow(x.feed, NoFolder) ELSE NoRow]
    BY <1>1, <1>6 DEF Insert
  <2>2. x.kind = "feed" => SubRow(x.feed, NoFolder) \in SubRows
    BY <1>2, NewRows DEF FolderRef
  <2>3. want' \in [Requests -> Rows \cup {NoRow}]
    BY <2>1, <2>2, KindsOfRows DEF Well, SubsTypeOK
  <2>4. WantWell(r)'
    BY <1>1, <1>5, <2>1, <2>2 DEF Well, SubsTypeOK, WantWell
  <2>5. own' \in [Requests -> SUBSET Rows]
    BY <1>1, <1>6 DEF Well, SubsTypeOK, Insert
  <2>6. todo' \in [Requests -> SUBSET Feeds] /\ jobs' \subseteq Feeds
    BY <1>1, <1>2, <1>6 DEF Well, SubsTypeOK, Insert
  <2>7. op[r] = "import" => place[r] \in 1..Len(Document)
    BY <1>1 DEF Well, SubsTypeOK, WantWell
  <2>8. place' \in [Requests -> 1..Len(Document) + 1]
    BY <1>6, <2>7 DEF Well, SubsTypeOK, Insert
  <2>9. made' \in [Requests -> [0..Len(Document) -> FolderRef]]
    <3>1. CASE op[r] = "import" /\ x.kind = "folder"
      <4>1. made' = [made EXCEPT ![r][place[r]] = x.id]
        BY <1>1, <1>6, <3>1 DEF Insert
      <4> QED
        BY <1>3, <2>7, <3>1, <4>1 DEF Well, SubsTypeOK
    <3>2. CASE ~(op[r] = "import" /\ x.kind = "folder")
      <4>1. made' = [made EXCEPT ![r][place[r]] = @]
        BY <1>1, <1>6, <3>2 DEF Insert
      <4>2. made' = made
        BY <4>1 DEF Well, SubsTypeOK
      <4> QED
        BY <4>2 DEF Well, SubsTypeOK
    <3> QED
      BY <3>1, <3>2
  <2>10. Counted(r, x) \subseteq Feeds
    BY <1>2 DEF Counted
  <2>11. added' \in [Requests -> SUBSET Feeds] /\ failed' \in [Requests -> SUBSET Feeds]
    BY <1>1, <1>2, <1>6, <2>10 DEF Well, SubsTypeOK, Insert
  <2>12. SubsTypeOK'
    BY <1>6, <2>3, <2>5, <2>6, <2>8, <2>9, <2>11 DEF Well, SubsTypeOK, Insert
  <2> QED
    BY <1>5, <2>4, <2>12, WantStep DEF Well
<1>7. CASE InsertRefusedImport(r)
  <2>1. x.feed \in Feeds /\ op[r] = "import" /\ place[r] \in 1..Len(Document)
    BY <1>1, <1>2, <1>4, <1>7 DEF Well, SubsTypeOK, WantWell, InsertRefusedImport
  <2>2. SubsTypeOK'
    <3>1. failed' \in [Requests -> SUBSET Feeds]
      BY <1>1, <1>7, <2>1 DEF Well, SubsTypeOK, InsertRefusedImport
    <3>2. place' \in [Requests -> 1..Len(Document) + 1]
      BY <1>7, <2>1 DEF Well, SubsTypeOK, InsertRefusedImport
    <3> QED
      BY <1>7, <3>1, <3>2 DEF Well, SubsTypeOK, InsertRefusedImport
  <2>3. WantWell(r)'
    BY <1>7, <2>1 DEF Well, SubsTypeOK, WantWell, InsertRefusedImport
  <2> QED
    BY <1>5, <2>2, <2>3, WantStep DEF Well
<1> QED
  BY <1>6, <1>7

\* Folders and subscriptions as deleting a folder leaves them.
LEMMA WithoutRows ==
  ASSUME NEW S \in SUBSET Rows, NEW d, NEW F
  PROVE  WithoutFolder(S, d, F) \subseteq Rows
<1> SUFFICES ASSUME NEW x \in S
             PROVE  (IF x.kind = "sub" /\ (x.folder = d \/ x.feed \in F) THEN SubRow(x.feed, NoFolder)
                     ELSE IF x.kind = "folder" /\ x.parent = d THEN FolderRow(x.id, x.name, NoFolder)
                     ELSE x) \in Rows
  BY DEF WithoutFolder
<1>1. x.kind = "sub" => SubRow(x.feed, NoFolder) \in Rows
  BY RowKinds, NewRows, KindsOfRows DEF FolderRef
<1>2. x.kind = "folder" => FolderRow(x.id, x.name, NoFolder) \in Rows
  BY RowKinds, NewRows, KindsOfRows DEF FolderRef
<1> QED
  BY <1>1, <1>2

LEMMA StepsWell ==
  ASSUME Well, NEW r \in Requests, Step(r)
  PROVE  Well'
<1>1. CASE \/ \E f \in Feeds : LookUp(r, f)
           \/ WalkFeed(r) \/ WalkFolder(r)
  BY <1>1, WalkWell
<1>2. CASE Insert(r) \/ InsertRefusedImport(r)
  BY <1>2, InsertsWell
<1>3. CASE Abort(r)
  BY <1>3, EndTypes DEF Abort, Well, SubsTypeOK
<1>4. CASE Commit(r)
  <2>1. rows' \subseteq Rows
    BY <1>4 DEF Commit, Well, SubsTypeOK
  <2> QED
    BY <1>4, <2>1, EndTypes DEF Commit, Well, SubsTypeOK
<1>5. CASE Rename(r)
  <2>1. PICK x \in rows : /\ x.kind = "folder"
                          /\ rows' = (rows \ {x}) \cup {FolderRow(x.id, want[r].name, x.parent)}
    BY <1>5 DEF Rename
  <2>2. op[r] = "rename" /\ want[r] \in FolderRows /\ want[r] \in Rows
    BY <1>5, KindsOfRows DEF Rename, Well, WantWell
  <2>3. FolderRow(x.id, want[r].name, x.parent) \in Rows
    BY <2>1, <2>2, RowKinds, KindsOfRows, NewRows DEF Well, SubsTypeOK
  <2>4. rows' \subseteq Rows
    BY <2>1, <2>3 DEF Well, SubsTypeOK
  <2> QED
    BY <1>5, <2>4, EndTypes DEF Rename, Well, SubsTypeOK
<1>6. CASE Move(r)
  <2>1. want[r] \in Rows
    BY <1>6, KindsOfRows DEF Move, Well, WantWell
  <2>2. rows' \subseteq Rows
    BY <1>6, <2>1 DEF Move, Well, SubsTypeOK
  <2> QED
    BY <1>6, <2>2, EndTypes DEF Move, Well, SubsTypeOK
<1>7. CASE Delete(r)
  <2>1. rows' \subseteq Rows
    BY <1>7, WithoutRows DEF Delete, Well, SubsTypeOK
  <2> QED
    BY <1>7, <2>1, EndTypes DEF Delete, Well, SubsTypeOK
<1> QED
  BY <1>1, <1>2, <1>3, <1>4, <1>5, <1>6, <1>7
  DEF Step, WalkFolderBroken, InsertRefused, CommitBroken, RenameRefused, MoveRefused, DeleteRefused

LEMMA OthersWell ==
  ASSUME Well, NEW f \in Feeds, RunFetchJob(f) \/ PollFeed(f) \/ OthersSubscribe(f)
  PROVE  Well'
<1>1. rows' \subseteq Rows
  BY NewRows, KindsOfRows DEF Well, SubsTypeOK, RunFetchJob, PollFeed, OthersSubscribe
<1>2. SubsTypeOK'
  BY <1>1 DEF Well, SubsTypeOK, RunFetchJob, PollFeed, OthersSubscribe, subsSession
<1>3. \A q \in Requests : WantWell(q)'
  BY DEF Well, WantWell, RunFetchJob, PollFeed, OthersSubscribe, subsSession
<1> QED
  BY <1>2, <1>3 DEF Well

LEMMA AlwaysWell == SubsSpec => []Well
<1>1. SubsInit => Well
  <2> SUFFICES ASSUME SubsInit PROVE Well
    OBVIOUS
  <2>1. made \in [Requests -> [0..Len(Document) -> FolderRef]]
    BY DEF SubsInit, FolderRef
  <2>2. SubsTypeOK
    BY <2>1, SubscriptionsAssumption DEF SubsInit, SubsTypeOK, Ops
  <2> QED
    BY <2>2 DEF SubsInit, Well, WantWell
<1>2. Well /\ [SubsNext]_subsVars => Well'
  <2> SUFFICES ASSUME Well, [SubsNext]_subsVars PROVE Well'
    OBVIOUS
  <2>1. CASE UNCHANGED subsVars
    BY <2>1 DEF Well, SubsTypeOK, WantWell, subsVars, subsSession
  <2>2. CASE SubsNext
    BY <2>2, StartsWell, StepsWell, OthersWell, SubscriptionsAssumption DEF SubsNext
  <2> QED
    BY <2>1, <2>2
<1> QED
  BY <1>1, <1>2, PTL DEF SubsSpec

\* Every reachable state of the requests and the tables is well typed.
THEOREM SubsTypeCorrect == SubsSpec => []SubsTypeOK
<1>1. Well => SubsTypeOK
  BY DEF Well
<1> QED
  BY <1>1, AlwaysWell, PTL
-----------------------------------------------------------------------------
\* Rows that cannot both be there.
Clash(x, y) ==
  \/ Key(x) = Key(y)
  \/ x.kind = "folder" /\ y.kind = "folder" /\ x.id = y.id

Single(S)   == \A x, y \in S : Clash(x, y) => x = y
Apart(S, T) == \A x \in S, y \in T : ~Clash(x, y)
HasId(S, d) == \E y \in S : y.kind = "folder" /\ y.id = d

\* A folder with a new id is about to be inserted.
Pending(r) == op[r] \in {"create", "import"} /\ want[r] # NoRow /\ want[r].kind = "folder"

\* What r inserted clashes with nothing, and refers to what is committed or its own.
Fits(r) ==
  Apart(own[r], rows) /\ \A x \in own[r] : Resolved(x, rows \cup own[r])

OwnWell(r) ==
  /\ Single(own[r]) /\ Fits(r)
  /\ \A q \in Requests \ {r} : Apart(own[r], own[q])

\* The id of the folder r is about to insert is that of no other folder.
WantFresh(r) ==
  Pending(r) =>
    /\ want[r].id \in used
    /\ ~HasId(rows, want[r].id)
    /\ \A q \in Requests : ~HasId(own[q], want[r].id)
    /\ \A q \in Requests \ {r} : Pending(q) => want[q].id # want[r].id

IdsUsed ==
  \A d : (HasId(rows, d) \/ \E q \in Requests : HasId(own[q], d)) => d \in used

DataInv ==
  /\ Single(rows) /\ NoDangling /\ IdsUsed
  /\ \A r \in Requests : OwnWell(r) /\ WantFresh(r)

LEMMA ResolvedIs ==
  ASSUME NEW x \in Rows, NEW S
  PROVE  Resolved(x, S) <=>
           /\ x.kind = "sub" => FeedRow(x.feed) \in S
           /\ \A d : RefersTo(x, d) => d = NoFolder \/ HasId(S, d)
<1>1. CASE x.kind = "feed"
  BY <1>1 DEF Resolved, RefersTo
<1>2. CASE x.kind = "sub"
  BY <1>2 DEF Resolved, RefersTo, HasId
<1>3. CASE x.kind = "folder"
  BY <1>3 DEF Resolved, RefersTo, HasId
<1> QED
  BY <1>1, <1>2, <1>3, RowKinds

LEMMA ResolvedKept ==
  ASSUME NEW x \in Rows, NEW S, NEW T, Resolved(x, S),
         \A f : FeedRow(f) \in S => FeedRow(f) \in T,
         \A d : RefersTo(x, d) /\ HasId(S, d) => HasId(T, d)
  PROVE  Resolved(x, T)
BY ResolvedIs

LEMMA IdsGrow ==
  ASSUME NEW S, NEW T
  PROVE  \A d : HasId(S \cup T, d) <=> HasId(S, d) \/ HasId(T, d)
BY DEF HasId

\* What has to be shown of a step of r that inserts nothing.
LEMMA Assemble ==
  ASSUME Well, DataInv, NEW r \in Requests,
         own'[r] = own[r] \/ own'[r] = {},
         \A q \in Requests \ {r} : own'[q] = own[q] /\ Same(q),
         used \subseteq used',
         Pending(r)' => /\ want'[r].id \in used'
                        /\ want'[r].id \in used => Pending(r) /\ want'[r].id = want[r].id,
         Single(rows)', NoDangling',
         \A d : HasId(rows', d) => HasId(rows, d) \/ (HasId(own[r], d) /\ own'[r] = {} /\ ~Pending(r)'),
         \A q \in Requests : Fits(q)'
  PROVE  DataInv'
<1>1. \A q \in Requests : own'[q] = own[q] \/ own'[q] = {}
  OBVIOUS
<1>2. \A d : \A q \in Requests : HasId(own'[q], d) => HasId(own[q], d)
  BY <1>1 DEF HasId
<1>3. \A q \in Requests \ {r} : Pending(q)' <=> Pending(q) /\ want'[q] = want[q]
  BY DEF Pending, Same
<1>4. \A q \in Requests \ {r} : want'[q] = want[q]
  BY DEF Same
<1>5. IdsUsed'
  BY <1>2 DEF DataInv, IdsUsed
<1>6. ASSUME NEW q \in Requests PROVE OwnWell(q)'
  <2>1. Single(own[q])'
    BY <1>1 DEF DataInv, OwnWell, Single
  <2>2. \A p \in Requests \ {q} : Apart(own'[q], own'[p])
    BY <1>1 DEF DataInv, OwnWell, Apart
  <2> QED
    BY <2>1, <2>2 DEF OwnWell
<1>7. ASSUME NEW q \in Requests, Pending(q)'
      PROVE  /\ want'[q].id \in used'
             /\ ~HasId(rows', want'[q].id)
             /\ \A p \in Requests : ~HasId(own'[p], want'[q].id)
  <2>1. CASE Pending(q) /\ want'[q].id = want[q].id
    <3>1. /\ want[q].id \in used /\ ~HasId(rows, want[q].id)
          /\ \A p \in Requests : ~HasId(own[p], want[q].id)
      BY <2>1 DEF DataInv, WantFresh
    <3> QED
      BY <1>2, <2>1, <3>1
  <2>2. CASE q = r /\ want'[q].id \notin used /\ want'[q].id \in used'
    BY <1>2, <2>2 DEF DataInv, IdsUsed
  <2> QED
    BY <1>3, <1>4, <1>7, <2>1, <2>2
<1>8. ASSUME NEW q \in Requests, NEW p \in Requests \ {q}, Pending(q)', Pending(p)'
      PROVE  want'[p].id # want'[q].id
  <2>1. \A s \in Requests : Pending(s)' =>
          \/ Pending(s) /\ want'[s].id = want[s].id
          \/ s = r /\ want'[s].id \notin used
    BY <1>3, <1>4
  <2>2. \A s \in Requests : Pending(s) => want[s].id \in used
    BY DEF DataInv, WantFresh
  <2>3. Pending(q) /\ Pending(p) => want[p].id # want[q].id
    BY DEF DataInv, WantFresh
  <2> QED
    BY <1>8, <2>1, <2>2, <2>3
<1>9. \A q \in Requests : WantFresh(q)'
  BY <1>7, <1>8 DEF WantFresh
<1> QED
  BY <1>5, <1>6, <1>9 DEF DataInv

\* A step that leaves the tables alone.
LEMMA Quiet ==
  ASSUME Well, DataInv, NEW r \in Requests, rows' = rows,
         own'[r] = own[r] \/ own'[r] = {},
         \A q \in Requests \ {r} : own'[q] = own[q] /\ Same(q),
         used \subseteq used',
         Pending(r)' => /\ want'[r].id \in used'
                        /\ want'[r].id \in used => Pending(r) /\ want'[r].id = want[r].id
  PROVE  DataInv'
<1>1. Single(rows)' /\ NoDangling'
  BY DEF DataInv, NoDangling
<1>2. ASSUME NEW q \in Requests
      PROVE  Fits(q)'
  <2>1. CASE own'[q] = own[q]
    BY <2>1 DEF DataInv, OwnWell, Fits
  <2>2. CASE own'[q] = {}
    BY <2>2 DEF Apart, Fits
  <2> QED
    BY <2>1, <2>2
<1>3. \A d : HasId(rows', d) => HasId(rows, d)
  OBVIOUS
<1> QED
  BY <1>1, <1>2, <1>3, Assemble
\* What r starts, but for unsubscribing, and the steps that read or give up.
LEMMA QuietSteps ==
  ASSUME Well, DataInv, NEW r \in Requests,
         \/ \E F \in (SUBSET Feeds) \ {{}} : BeginSubscribe(r, F)
         \/ BeginImport(r)
         \/ \E n \in Names : BeginCreate(r, n)
         \/ \E x \in rows : BeginDelete(r, x) \/ \E n \in Names : BeginRename(r, x, n)
         \/ \E x \in rows, d \in FolderRef : BeginMove(r, x, d)
         \/ \E f \in Feeds : LookUp(r, f)
         \/ WalkFeed(r) \/ WalkFolder(r)
         \/ InsertRefusedImport(r) \/ Abort(r)
  PROVE  DataInv'
<1>1. ASSUME op' = [op EXCEPT ![r] = op'[r]], want' = [want EXCEPT ![r] = want'[r]],
             place' = [place EXCEPT ![r] = place'[r]],
             own' = own \/ own' = [own EXCEPT ![r] = {}],
             rows' = rows, used' = used, ~Pending(r)'
      PROVE  DataInv'
  <2>1. own'[r] = own[r] \/ own'[r] = {}
    BY <1>1 DEF Well, SubsTypeOK
  <2>2. \A q \in Requests \ {r} : own'[q] = own[q] /\ Same(q)
    BY <1>1 DEF Well, SubsTypeOK, Same
  <2> QED
    BY <1>1, <2>1, <2>2, Quiet
<1>2. ASSUME NEW d \in Folders \ used, NEW n, NEW p,
             op' = [op EXCEPT ![r] = op'[r]], want' = [want EXCEPT ![r] = FolderRow(d, n, p)],
             place' = place, own' = own, rows' = rows, used' = used \cup {d}
      PROVE  DataInv'
  <2>1. want'[r].id = d
    BY <1>2 DEF Well, SubsTypeOK, FolderRow
  <2>2. \A q \in Requests \ {r} : own'[q] = own[q] /\ Same(q)
    BY <1>2 DEF Well, SubsTypeOK, Same
  <2> QED
    BY <1>2, <2>1, <2>2, Quiet
<1>3. CASE \E F \in (SUBSET Feeds) \ {{}} : BeginSubscribe(r, F)
  <2>1. op'[r] = "subscribe"
    BY <1>3 DEF Well, SubsTypeOK, BeginSubscribe
  <2> QED
    BY <1>1, <1>3, <2>1 DEF Well, SubsTypeOK, BeginSubscribe, Pending
<1>4. CASE BeginImport(r)
  <2>1. want'[r] = NoRow
    BY <1>4 DEF Well, WantWell, BeginImport
  <2> QED
    BY <1>1, <1>4, <2>1 DEF Well, SubsTypeOK, BeginImport, Pending
<1>5. CASE \E n \in Names : BeginCreate(r, n)
  BY <1>2, <1>5 DEF Well, SubsTypeOK, BeginCreate, Decide
<1>6. ASSUME NEW kind \in {"rename", "move"}, NEW x, Decide(r, kind, x), used' = used
      PROVE  DataInv'
  <2>1. op'[r] = kind
    BY <1>6 DEF Well, SubsTypeOK, Decide
  <2> QED
    BY <1>1, <1>6, <2>1 DEF Well, SubsTypeOK, Decide, Pending
<1>7. CASE \E x \in rows : \E n \in Names : BeginRename(r, x, n)
  BY <1>6, <1>7 DEF BeginRename
<1>8. CASE \E x \in rows, d \in FolderRef : BeginMove(r, x, d)
  BY <1>6, <1>8 DEF BeginMove
<1>9. CASE \E x \in rows : BeginDelete(r, x)
  <2>1. op'[r] = "delete"
    BY <1>9 DEF Well, SubsTypeOK, BeginDelete
  <2> QED
    BY <1>1, <1>9, <2>1 DEF Well, SubsTypeOK, BeginDelete, Pending
<1>10. CASE \E f \in Feeds : LookUp(r, f)
  <2>1. op'[r] = "subscribe"
    BY <1>10 DEF Well, SubsTypeOK, LookUp
  <2>2. want' = [want EXCEPT ![r] = want'[r]]
    BY <1>10 DEF Well, SubsTypeOK, LookUp
  <2> QED
    BY <1>1, <1>10, <2>1, <2>2 DEF Well, SubsTypeOK, LookUp, Pending
<1>11. CASE WalkFeed(r)
  <2>1. want[r] = NoRow /\ r \in Requests
    BY <1>11 DEF WalkFeed, Importing
  <2>2. \/ want' = want
        \/ \E x : x.kind # "folder" /\ want' = [want EXCEPT ![r] = x]
    <3>1. \A f, d : FeedRow(f).kind # "folder" /\ SubRow(f, d).kind # "folder"
      BY DEF FeedRow, SubRow
    <3> QED
      BY <1>11, <3>1 DEF WalkFeed
  <2>3. want' = [want EXCEPT ![r] = want'[r]] /\ ~Pending(r)'
    BY <2>1, <2>2 DEF Well, SubsTypeOK, Pending
  <2>4. place' = [place EXCEPT ![r] = place'[r]]
    BY <1>11 DEF Well, SubsTypeOK, WalkFeed
  <2> QED
    BY <1>1, <1>11, <2>3, <2>4 DEF Well, SubsTypeOK, WalkFeed
<1>12. CASE WalkFolder(r)
  <2>1. CASE want' = want /\ used' = used /\ place' = [place EXCEPT ![r] = @ + 1]
    <3>1. want[r] = NoRow
      BY <1>12 DEF WalkFolder, Importing
    <3> QED
      BY <1>1, <1>12, <2>1, <3>1 DEF Well, SubsTypeOK, WalkFolder, Pending
  <2>2. CASE /\ place' = place
             /\ \E d \in Folders \ used : /\ used' = used \cup {d}
                                          /\ \E n, p : want' = [want EXCEPT ![r] = FolderRow(d, n, p)]
    <3>1. PICK d \in Folders \ used :
            used' = used \cup {d} /\ \E n, p : want' = [want EXCEPT ![r] = FolderRow(d, n, p)]
      BY <2>2
    <3>2. PICK n, p : want' = [want EXCEPT ![r] = FolderRow(d, n, p)]
      BY <3>1
    <3>3. op' = op /\ op' = [op EXCEPT ![r] = op'[r]] /\ own' = own /\ rows' = rows
      BY <1>12 DEF Well, SubsTypeOK, WalkFolder
    <3> QED
      BY <1>2, <2>2, <3>1, <3>2, <3>3
  <2> QED
    BY <1>12, <2>1, <2>2 DEF WalkFolder
<1>13. CASE InsertRefusedImport(r)
  <2>1. want'[r] = NoRow
    BY <1>13 DEF Well, SubsTypeOK, InsertRefusedImport
  <2> QED
    BY <1>1, <1>13, <2>1 DEF Well, SubsTypeOK, InsertRefusedImport, Pending
<1>14. CASE Abort(r)
  <2>1. want'[r] = NoRow
    BY <1>14 DEF Well, SubsTypeOK, Abort, EndRequest
  <2> QED
    BY <1>1, <1>14, <2>1 DEF Well, SubsTypeOK, Abort, EndRequest, Pending
<1> QED
  BY <1>3, <1>4, <1>5, <1>7, <1>8, <1>9, <1>10, <1>11, <1>12, <1>13, <1>14
LEMMA Keyed ==
  ASSUME NEW x, NEW S
  PROVE  Key(x) \in Keys(S) <=> \E y \in S : Key(y) = Key(x)
BY DEF Keys

LEMMA InsertData ==
  ASSUME Well, DataInv, NEW r \in Requests, Insert(r)
  PROVE  DataInv'
<1>1. PICK x \in Rows : x = want[r] /\ x # NoRow /\ op[r] \in {"subscribe", "import", "create"}
  BY Wanted DEF Insert
<1>2. x.kind = "folder" => Pending(r)
  BY <1>1, KindsOfRows DEF Well, WantWell, Pending
<1>3. /\ own'[r] = own[r] \cup {x} /\ rows' = rows /\ used' = used
      /\ \A q \in Requests \ {r} : own'[q] = own[q] /\ op'[q] = op[q] /\ want'[q] = want[q]
  BY <1>1 DEF Well, SubsTypeOK, Insert
<1>4. ~Pending(r)'
  <2>1. \/ want'[r] = NoRow
        \/ want'[r] = SubRow(x.feed, NoFolder)
    BY <1>1 DEF Well, SubsTypeOK, Insert
  <2> QED
    BY <2>1 DEF Pending, SubRow
<1>5. Key(x) \notin Keys(rows \cup own[r]) /\ Resolved(x, rows \cup own[r])
  BY <1>1 DEF Insert, Refused, Visible
<1>6. \A q \in Requests \ {r} : Key(x) \notin Keys(own[q])
  BY <1>1 DEF Insert, WaitsFor
<1>7. \A y \in rows : ~Clash(x, y) /\ ~Clash(y, x)
  BY <1>1, <1>2, <1>5, Keyed DEF Clash, DataInv, WantFresh, HasId
<1>8. \A q \in Requests : \A y \in own[q] : ~Clash(x, y) /\ ~Clash(y, x)
  BY <1>1, <1>2, <1>5, <1>6, Keyed DEF Clash, DataInv, WantFresh, HasId
<1>9. \A d : \A q \in Requests :
        HasId(own'[q], d) => \/ HasId(own[q], d)
                             \/ q = r /\ x.kind = "folder" /\ x.id = d
  BY <1>3 DEF HasId
<1>10. IdsUsed'
  BY <1>1, <1>2, <1>3, <1>9 DEF DataInv, IdsUsed, WantFresh
<1>11. Single(own'[r])
  BY <1>3, <1>8 DEF Single, DataInv, OwnWell
<1>12. \A q \in Requests : Fits(q)'
  <2>1. Apart(own'[r], rows')
    BY <1>3, <1>7 DEF Apart, DataInv, OwnWell, Fits
  <2>2. \A y \in own[r] \cup {x} : Resolved(y, rows \cup own[r])
    BY <1>5 DEF DataInv, OwnWell, Fits
  <2>3. ASSUME NEW y \in own[r] \cup {x} PROVE Resolved(y, rows \cup (own[r] \cup {x}))
    <3>1. y \in Rows
      BY DEF Well, SubsTypeOK
    <3>2. \A d : HasId(rows \cup own[r], d) => HasId(rows \cup (own[r] \cup {x}), d)
      BY DEF HasId
    <3> QED
      BY <2>2, <3>1, <3>2, ResolvedKept
  <2>4. Fits(r)'
    BY <1>3, <2>1, <2>3 DEF Fits
  <2> QED
    BY <1>3, <2>4 DEF DataInv, OwnWell, Fits
<1>13. ASSUME NEW q \in Requests PROVE OwnWell(q)'
  <2>1. Single(own'[q])
    BY <1>3, <1>11 DEF DataInv, OwnWell
  <2>2. \A p \in Requests \ {q} : Apart(own'[q], own'[p])
    BY <1>3, <1>8 DEF DataInv, OwnWell, Apart
  <2> QED
    BY <1>12, <2>1, <2>2 DEF OwnWell
<1>14. ASSUME NEW q \in Requests PROVE WantFresh(q)'
  <2> SUFFICES ASSUME Pending(q)' PROVE WantFresh(q)'
    BY DEF WantFresh
  <2>1. q # r /\ Pending(q) /\ want'[q] = want[q]
    BY <1>3, <1>4 DEF Pending
  <2>2. \A p \in Requests : ~HasId(own'[p], want[q].id)
    BY <1>1, <1>2, <1>9, <2>1 DEF DataInv, WantFresh
  <2>3. \A p \in Requests \ {q} : Pending(p)' => want'[p].id # want[q].id
    BY <1>3, <1>4, <2>1 DEF DataInv, WantFresh, Pending
  <2> QED
    BY <1>3, <2>1, <2>2, <2>3 DEF DataInv, WantFresh
<1>15. Single(rows)' /\ NoDangling'
  BY <1>3 DEF DataInv, NoDangling
<1> QED
  BY <1>10, <1>13, <1>14, <1>15 DEF DataInv

\* What is left of a request that ended.
LEMMA Ended ==
  ASSUME Well, NEW r \in Requests, EndRequest(r)
  PROVE  /\ own'[r] = {} /\ ~Pending(r)'
         /\ \A q \in Requests \ {r} : own'[q] = own[q] /\ Same(q)
BY DEF Well, SubsTypeOK, EndRequest, Pending, Same

LEMMA CommitData ==
  ASSUME Well, DataInv, NEW r \in Requests, Commit(r)
  PROVE  DataInv'
<1>1. rows' = rows \cup own[r] /\ EndRequest(r) /\ used' = used
  BY DEF Commit
<1>2. Single(rows)'
  <2>1. Single(rows) /\ Single(own[r]) /\ Apart(own[r], rows)
    BY DEF DataInv, OwnWell, Fits
  <2>2. \A x, y : Clash(x, y) => Clash(y, x)
    BY DEF Clash
  <2> QED
    BY <1>1, <2>1, <2>2 DEF Single, Apart
<1>3. ASSUME NEW q \in Requests, NEW y \in rows \cup own[r] \cup own[q],
             \/ Resolved(y, rows) \/ Resolved(y, rows \cup own[q]) \/ Resolved(y, rows \cup own[r])
      PROVE  Resolved(y, rows' \cup own[q])
  <2>1. y \in Rows
    BY DEF Well, SubsTypeOK
  <2>2. PICK S : S \subseteq rows' \cup own[q] /\ Resolved(y, S)
    BY <1>1, <1>3
  <2>3. \A d : HasId(S, d) => HasId(rows' \cup own[q], d)
    BY <2>2 DEF HasId
  <2> QED
    BY <2>1, <2>2, <2>3, ResolvedKept
<1>4. NoDangling'
  <2>1. rows' \cup own[r] = rows'
    BY <1>1
  <2>2. \A y \in rows' : Resolved(y, rows) \/ Resolved(y, rows \cup own[r])
    BY <1>1 DEF DataInv, NoDangling, OwnWell, Fits
  <2> QED
    BY <1>1, <1>3, <2>1, <2>2 DEF NoDangling
<1>5. ASSUME NEW q \in Requests PROVE Fits(q)'
  <2>1. CASE q = r
    BY <1>1, <2>1, Ended DEF Fits, Apart
  <2>2. CASE q # r
    <3>1. own'[q] = own[q]
      BY <1>1, <2>2, Ended
    <3>2. Apart(own[q], rows')
      BY <1>1, <2>2 DEF DataInv, OwnWell, Fits, Apart
    <3>3. \A y \in own[q] : Resolved(y, rows' \cup own[q])
      BY <1>3 DEF DataInv, OwnWell, Fits
    <3> QED
      BY <3>1, <3>2, <3>3 DEF Fits
  <2> QED
    BY <2>1, <2>2
<1>6. \A d : HasId(rows', d) => HasId(rows, d) \/ HasId(own[r], d)
  BY <1>1, IdsGrow
<1> QED
  BY <1>1, <1>2, <1>4, <1>5, <1>6, Ended, Assemble
\* A request that ends and rewrites rows without a new id, a new clash, or a
\* reference lost.
LEMMA Rewritten ==
  ASSUME Well, DataInv, NEW r \in Requests, EndRequest(r), used' = used,
         Single(rows'),
         \A d : HasId(rows', d) => HasId(rows, d),
         \A f : FeedRow(f) \in rows => FeedRow(f) \in rows',
         \A y \in rows' : Resolved(y, rows'),
         \A q \in Requests \ {r} : Apart(own[q], rows'),
         \A q \in Requests \ {r} : \A y \in own[q] : \A d :
           RefersTo(y, d) /\ HasId(rows, d) => HasId(rows', d)
  PROVE  DataInv'
<1>1. ASSUME NEW q \in Requests PROVE Fits(q)'
  <2>1. CASE q = r
    BY <2>1, Ended DEF Fits, Apart
  <2>2. CASE q # r
    <3>1. own'[q] = own[q]
      BY <2>2, Ended
    <3>2. ASSUME NEW y \in own[q] PROVE Resolved(y, rows' \cup own[q])
      <4>1. y \in Rows /\ Resolved(y, rows \cup own[q])
        BY DEF Well, SubsTypeOK, DataInv, OwnWell, Fits
      <4>2. \A f : FeedRow(f) \in rows \cup own[q] => FeedRow(f) \in rows' \cup own[q]
        OBVIOUS
      <4>3. \A d : RefersTo(y, d) /\ HasId(rows \cup own[q], d) => HasId(rows' \cup own[q], d)
        BY <2>2, IdsGrow
      <4> QED
        BY <4>1, <4>2, <4>3, ResolvedKept
    <3> QED
      BY <2>2, <3>1, <3>2 DEF Fits
  <2> QED
    BY <2>1, <2>2
<1>2. Single(rows)' /\ NoDangling'
  BY DEF NoDangling
<1> QED
  BY <1>1, <1>2, Ended, Assemble

LEMMA RenameData ==
  ASSUME Well, DataInv, NEW r \in Requests, Rename(r)
  PROVE  DataInv'
<1>1. PICK x \in rows :
        LET y == FolderRow(x.id, want[r].name, x.parent) IN
        /\ x.kind = "folder" /\ x.id = want[r].id
        /\ ~HeldElsewhere(r, Key(y))
        /\ Key(y) \notin Keys(rows \ {x})
        /\ rows' = (rows \ {x}) \cup {y}
  BY DEF Rename
<1>2. want[r].name \in Names /\ x.id \in Folders /\ x.parent \in FolderRef
  BY <1>1, RowKinds, KindsOfRows DEF Rename, Well, WantWell, SubsTypeOK
<1>3. PICK y \in FolderRows :
        /\ y.kind = "folder" /\ y.id = x.id /\ y.parent = x.parent
        /\ ~HeldElsewhere(r, Key(y))
        /\ Key(y) \notin Keys(rows \ {x})
        /\ rows' = (rows \ {x}) \cup {y}
  BY <1>1, <1>2, NewRows
<1>4. y \in Rows /\ x \in Rows
  BY KindsOfRows DEF Well, SubsTypeOK
<1>5. \A z \in rows \ {x} : ~Clash(y, z) /\ ~Clash(z, y)
  BY <1>1, <1>3, Keyed DEF Clash, DataInv, Single
<1>6. Single(rows')
  BY <1>3, <1>5 DEF DataInv, Single
<1>7. \A d : HasId(rows', d) <=> HasId(rows, d)
  BY <1>1, <1>3 DEF HasId
<1>8. \A f : FeedRow(f) \in rows => FeedRow(f) \in rows'
  BY <1>1, <1>3 DEF FeedRow
<1>9. ASSUME NEW z \in rows' PROVE Resolved(z, rows')
  <2>1. \A u \in rows : u \in Rows /\ Resolved(u, rows)
    BY DEF Well, SubsTypeOK, DataInv, NoDangling
  <2>2. \A u \in rows : Resolved(u, rows')
    BY <1>7, <1>8, <2>1, ResolvedKept
  <2>3. Resolved(x, rows') => Resolved(y, rows')
    BY <1>1, <1>3, <1>4, ResolvedIs DEF RefersTo
  <2> QED
    BY <1>3, <2>2, <2>3
<1>10. ASSUME NEW q \in Requests \ {r} PROVE Apart(own[q], rows')
  <2>1. Apart(own[q], rows) /\ Key(y) \notin Keys(own[q])
    BY <1>3 DEF HeldElsewhere, DataInv, OwnWell, Fits
  <2>2. \A z \in own[q] : ~Clash(z, y)
    BY <1>1, <1>3, <2>1, Keyed DEF Clash, Apart
  <2> QED
    BY <1>3, <2>1, <2>2 DEF Apart
<1>11. EndRequest(r) /\ used' = used
  BY DEF Rename
<1> QED
  BY <1>6, <1>7, <1>8, <1>9, <1>10, <1>11, Rewritten

LEMMA MoveData ==
  ASSUME Well, DataInv, NEW r \in Requests, Move(r)
  PROVE  DataInv'
<1>1. PICK x \in rows, w \in SubRows :
        /\ w = want[r] /\ x.kind = "sub" /\ x.feed = w.feed
        /\ rows' = (rows \ {x}) \cup {w} /\ Resolved(w, rows)
  BY DEF Move, Well, WantWell
<1>2. x \in Rows /\ w \in Rows /\ w.kind = "sub"
  BY KindsOfRows DEF Well, SubsTypeOK
<1>3. \A z : (Clash(z, w) <=> Clash(z, x)) /\ (Clash(w, z) <=> Clash(x, z))
  BY <1>1, <1>2 DEF Clash, Key
<1>4. Single(rows')
  BY <1>1, <1>3 DEF DataInv, Single
<1>5. \A d : HasId(rows', d) <=> HasId(rows, d)
  BY <1>1, <1>2 DEF HasId
<1>6. \A f : FeedRow(f) \in rows => FeedRow(f) \in rows'
  BY <1>1 DEF FeedRow
<1>7. ASSUME NEW z \in rows' PROVE Resolved(z, rows')
  <2>1. \A u \in rows : u \in Rows /\ Resolved(u, rows)
    BY DEF Well, SubsTypeOK, DataInv, NoDangling
  <2> QED
    BY <1>1, <1>2, <1>5, <1>6, <2>1, ResolvedKept
<1>8. \A q \in Requests \ {r} : Apart(own[q], rows')
  BY <1>1, <1>3 DEF DataInv, OwnWell, Fits, Apart
<1>9. EndRequest(r) /\ used' = used
  BY DEF Move
<1> QED
  BY <1>4, <1>5, <1>6, <1>7, <1>8, <1>9, Rewritten

\* A row as deleting folder d, after clear_folder's updates of F, leaves it.
Freed(x, d, F) ==
  IF x.kind = "sub" /\ (x.folder = d \/ x.feed \in F) THEN SubRow(x.feed, NoFolder)
  ELSE IF x.kind = "folder" /\ x.parent = d THEN FolderRow(x.id, x.name, NoFolder)
  ELSE x

LEMMA FreedFields ==
  ASSUME NEW x \in Rows, NEW d \in Folders, NEW F
  PROVE  LET z == Freed(x, d, F) IN
         /\ z \in Rows /\ z.kind = x.kind
         /\ x.kind # "folder" => z.feed = x.feed
         /\ x.kind = "folder" =>
              /\ z.id = x.id /\ z.name = x.name
              /\ \/ x.parent = d /\ z = FolderRow(x.id, x.name, NoFolder)
                 \/ x.parent # d /\ z = x
         /\ \A e : RefersTo(z, e) => e = NoFolder \/ (e # d /\ RefersTo(x, e))
<1> DEFINE z == Freed(x, d, F)
<1>1. d # NoFolder /\ NoFolder \in FolderRef
  BY SubscriptionsAssumption DEF FolderRef
<1>2. CASE x.kind = "sub" /\ (x.folder = d \/ x.feed \in F)
  <2>1. z = SubRow(x.feed, NoFolder) /\ x.feed \in Feeds
    BY <1>2, RowKinds DEF Freed
  <2>2. z \in Rows /\ z.kind = "sub" /\ z.feed = x.feed /\ z.folder = NoFolder
    BY <1>1, <2>1, NewRows, KindsOfRows
  <2> QED
    BY <1>2, <2>2 DEF RefersTo
<1>3. CASE x.kind = "folder" /\ x.parent = d
  <2>1. z = FolderRow(x.id, x.name, NoFolder) /\ x.id \in Folders /\ x.name \in Names
    BY <1>3, RowKinds DEF Freed
  <2>2. z \in Rows /\ z.kind = "folder" /\ z.id = x.id /\ z.name = x.name /\ z.parent = NoFolder
    BY <1>1, <2>1, NewRows, KindsOfRows
  <2> QED
    BY <1>3, <2>1, <2>2 DEF RefersTo
<1>4. CASE /\ ~(x.kind = "sub" /\ (x.folder = d \/ x.feed \in F))
           /\ ~(x.kind = "folder" /\ x.parent = d)
  <2>1. z = x
    BY <1>4 DEF Freed
  <2> QED
    BY <1>4, <2>1 DEF RefersTo
<1> QED
  BY <1>2, <1>3, <1>4
LEMMA DeleteData ==
  ASSUME Well, DataInv, NEW r \in Requests, Delete(r)
  PROVE  DataInv'
<1>1. PICK d \in Folders : d = want[r].id
  BY RowKinds, KindsOfRows DEF Delete, Well, WantWell
<1>2. PICK F : F = seen[r]
  OBVIOUS
<1>3. /\ \A q \in Requests \ {r} : \A x \in own[q] : ~RefersTo(x, d)
      /\ \A k \in Keys(Orphans(d)) : ~HeldElsewhere(r, k)
      /\ ~OrphansCollide(d)
      /\ rows' = WithoutFolder(rows, d, F)
      /\ EndRequest(r) /\ used' = used
  BY <1>1, <1>2 DEF Delete
<1>4. rows' = {Freed(x, d, F) : x \in {y \in rows : ~(y.kind = "folder" /\ y.id = d)}}
  BY <1>3 DEF WithoutFolder, Freed
<1>5. ASSUME NEW z \in rows'
      PROVE  \E x \in rows :
               /\ x \in Rows /\ ~(x.kind = "folder" /\ x.id = d)
               /\ z = Freed(x, d, F) /\ z \in Rows /\ z.kind = x.kind
               /\ x.kind # "folder" => z.feed = x.feed
               /\ x.kind = "folder" =>
                    /\ z.id = x.id /\ z.name = x.name
                    /\ \/ x.parent = d /\ z \in Orphans(d) /\ z.parent = NoFolder
                       \/ x.parent # d /\ z = x
               /\ \A e : RefersTo(z, e) => e = NoFolder \/ (e # d /\ RefersTo(x, e))
  <2>1. PICK x \in rows : z = Freed(x, d, F) /\ ~(x.kind = "folder" /\ x.id = d)
    BY <1>4
  <2>2. x \in Rows
    BY DEF Well, SubsTypeOK
  <2>3. x.kind = "folder" /\ x.parent = d /\ z = FolderRow(x.id, x.name, NoFolder)
          => z \in Orphans(d) /\ z.parent = NoFolder
    BY DEF Orphans, FolderRow
  <2> QED
    BY <2>1, <2>2, <2>3, FreedFields
<1>6. \A z \in Orphans(d), x \in rows : Key(z) # Key(x)
  BY <1>3 DEF OrphansCollide, Keys
<1>7. Single(rows')
  <2> SUFFICES ASSUME NEW z1 \in rows', NEW z2 \in rows', Clash(z1, z2) PROVE z1 = z2
    BY DEF Single
  <2>1. PICK x1 \in rows :
          /\ x1 \in Rows /\ z1 = Freed(x1, d, F) /\ z1 \in Rows /\ z1.kind = x1.kind
          /\ x1.kind # "folder" => z1.feed = x1.feed
          /\ x1.kind = "folder" =>
               /\ z1.id = x1.id /\ z1.name = x1.name
               /\ \/ x1.parent = d /\ z1 \in Orphans(d) /\ z1.parent = NoFolder
                  \/ x1.parent # d /\ z1 = x1
    BY <1>5
  <2>2. PICK x2 \in rows :
          /\ x2 \in Rows /\ z2 = Freed(x2, d, F) /\ z2 \in Rows /\ z2.kind = x2.kind
          /\ x2.kind # "folder" => z2.feed = x2.feed
          /\ x2.kind = "folder" =>
               /\ z2.id = x2.id /\ z2.name = x2.name
               /\ \/ x2.parent = d /\ z2 \in Orphans(d) /\ z2.parent = NoFolder
                  \/ x2.parent # d /\ z2 = x2
    BY <1>5
  <2>3. Clash(x1, x2)
    <3>1. CASE x1.kind = "folder" /\ x2.kind = "folder" /\ z1.id = z2.id
      BY <2>1, <2>2, <3>1 DEF Clash
    <3>2. CASE Key(z1) = Key(z2) /\ x1.kind = "folder"
      <4>1. x2.kind = "folder" /\ z1.name = z2.name /\ z1.parent = z2.parent
        BY <2>1, <2>2, <3>2, KeyFields
      <4>2. (x1.parent = d) <=> (x2.parent = d)
        BY <1>6, <2>1, <2>2, <3>2, <4>1
      <4>3. x1.name = x2.name /\ x1.parent = x2.parent
        BY <2>1, <2>2, <3>2, <4>1, <4>2
      <4> QED
        BY <2>1, <2>2, <3>2, <4>1, <4>3, KeyFields DEF Clash
    <3>3. CASE Key(z1) = Key(z2) /\ x1.kind # "folder"
      BY <2>1, <2>2, <3>3, KeyFields DEF Clash
    <3> QED
      BY <2>1, <2>2, <3>1, <3>2, <3>3 DEF Clash
  <2>4. x1 = x2
    BY <2>3 DEF DataInv, Single
  <2> QED
    BY <2>1, <2>2, <2>4
<1>8. ASSUME NEW e PROVE HasId(rows', e) <=> HasId(rows, e) /\ e # d
  <2>1. HasId(rows', e) => HasId(rows, e) /\ e # d
    BY <1>5 DEF HasId
  <2>2. ASSUME NEW x \in rows, x.kind = "folder", x.id = e, e # d
        PROVE  HasId(rows', e)
    <3>1. Freed(x, d, F) \in rows' /\ x \in Rows
      BY <1>4, <2>2 DEF Well, SubsTypeOK
    <3>2. Freed(x, d, F).kind = "folder" /\ Freed(x, d, F).id = e
      BY <2>2, <3>1, FreedFields
    <3> QED
      BY <3>1, <3>2 DEF HasId
  <2> QED
    BY <2>1, <2>2 DEF HasId
<1>9. ASSUME NEW f, FeedRow(f) \in rows PROVE FeedRow(f) \in rows'
  <2>1. FeedRow(f).kind = "feed"
    BY DEF FeedRow
  <2>2. Freed(FeedRow(f), d, F) = FeedRow(f)
    BY <2>1 DEF Freed
  <2> QED
    BY <1>4, <1>9, <2>1, <2>2
<1>10. ASSUME NEW z \in rows' PROVE Resolved(z, rows')
  <2>1. PICK x \in rows :
          /\ x \in Rows /\ z \in Rows /\ z.kind = x.kind
          /\ x.kind # "folder" => z.feed = x.feed
          /\ \A e : RefersTo(z, e) => e = NoFolder \/ (e # d /\ RefersTo(x, e))
    BY <1>5
  <2>2. Resolved(x, rows)
    BY DEF DataInv, NoDangling
  <2> QED
    BY <1>8, <1>9, <2>1, <2>2, ResolvedIs
<1>11. ASSUME NEW q \in Requests \ {r} PROVE Apart(own[q], rows')
  <2> SUFFICES ASSUME NEW y \in own[q], NEW z \in rows', Clash(y, z) PROVE FALSE
    BY DEF Apart
  <2>1. PICK x \in rows :
          /\ x \in Rows /\ z \in Rows /\ z.kind = x.kind
          /\ x.kind # "folder" => z.feed = x.feed
          /\ x.kind = "folder" =>
               /\ z.id = x.id
               /\ z \in Orphans(d) \/ z = x
    BY <1>5
  <2>2. y \in Rows /\ ~Clash(y, x)
    BY DEF Well, SubsTypeOK, DataInv, OwnWell, Fits, Apart
  <2>3. CASE z \in Orphans(d)
    <3>1. Key(z) \notin Keys(own[q])
      BY <1>3, <2>3 DEF HeldElsewhere, Keys
    <3> QED
      BY <2>1, <2>2, <3>1, KeyFields DEF Clash, Keys
  <2>4. CASE z \notin Orphans(d)
    BY <2>1, <2>2, <2>4, KeyFields DEF Clash
  <2> QED
    BY <2>3, <2>4
<1> QED
  BY <1>3, <1>7, <1>8, <1>9, <1>10, <1>11, Rewritten

LEMMA UnsubscribeData ==
  ASSUME Well, DataInv, NEW r \in Requests, NEW f \in Feeds, Unsubscribe(r, f)
  PROVE  DataInv'
<1>1. /\ rows' = {x \in rows : ~(x.kind = "sub" /\ x.feed = f)}
      /\ own' = own /\ op' = op /\ want' = want /\ place' = place /\ used' = used
  BY DEF Unsubscribe
<1>2. \A d : HasId(rows', d) <=> HasId(rows, d)
  BY <1>1 DEF HasId
<1>3. \A g : FeedRow(g) \in rows => FeedRow(g) \in rows'
  BY <1>1 DEF FeedRow
<1>4. Single(rows)'
  BY <1>1 DEF DataInv, Single
<1>5. ASSUME NEW y \in rows' PROVE Resolved(y, rows')
  BY <1>1, <1>2, <1>3, ResolvedKept DEF Well, SubsTypeOK, DataInv, NoDangling
<1>6. ASSUME NEW q \in Requests PROVE Fits(q)'
  <2>1. Apart(own[q], rows')
    BY <1>1 DEF DataInv, OwnWell, Fits, Apart
  <2>2. ASSUME NEW y \in own[q] PROVE Resolved(y, rows' \cup own[q])
    <3>1. y \in Rows /\ Resolved(y, rows \cup own[q])
      BY DEF Well, SubsTypeOK, DataInv, OwnWell, Fits
    <3>2. \A g : FeedRow(g) \in rows \cup own[q] => FeedRow(g) \in rows' \cup own[q]
      BY <1>3
    <3>3. \A d : HasId(rows \cup own[q], d) => HasId(rows' \cup own[q], d)
      BY <1>2, IdsGrow
    <3> QED
      BY <3>1, <3>2, <3>3, ResolvedKept
  <2> QED
    BY <1>1, <2>1, <2>2 DEF Fits
<1>7. NoDangling'
  BY <1>5 DEF NoDangling
<1>8. \A q \in Requests \ {r} : own'[q] = own[q] /\ Same(q)
  BY <1>1 DEF Same
<1>9. Pending(r)' => Pending(r) /\ want'[r].id \in used' /\ want'[r].id = want[r].id
  BY <1>1 DEF DataInv, WantFresh, Pending
<1>10. \A d : HasId(rows', d) => HasId(rows, d)
  BY <1>2
<1> QED
  BY <1>1, <1>4, <1>6, <1>7, <1>8, <1>9, <1>10, Assemble

\* The queue, the poller and other users.
LEMMA OthersData ==
  ASSUME Well, DataInv, NEW f \in Feeds, RunFetchJob(f) \/ PollFeed(f) \/ OthersSubscribe(f)
  PROVE  DataInv'
<1>1. own' = own /\ op' = op /\ want' = want /\ used' = used
  BY DEF RunFetchJob, PollFeed, OthersSubscribe, subsSession
<1>2. CASE rows' = rows
  BY <1>1, <1>2 DEF DataInv, NoDangling, IdsUsed, OwnWell, Fits, WantFresh, Pending
<1>3. CASE OthersSubscribe(f)
  <2>1. PICK x \in FeedRows : x = FeedRow(f) /\ x.kind = "feed" /\ x.feed = f
    BY NewRows
  <2>2. rows' = rows \cup {x} /\ x \notin rows /\ \A q \in Requests : x \notin own[q]
    BY <1>3, <2>1 DEF OthersSubscribe, HasFeed
  <2>3. \A y \in Rows : Clash(x, y) \/ Clash(y, x) => y = x
    BY <2>1, RowKinds, KindsOfRows, KeyFields DEF Clash
  <2>4. \A d : HasId(rows', d) <=> HasId(rows, d)
    BY <2>1, <2>2 DEF HasId
  <2>5. Single(rows)'
    BY <2>2, <2>3 DEF Well, SubsTypeOK, DataInv, Single
  <2>6. \A y \in Rows : \A S : Resolved(y, S) => Resolved(y, S \cup {x})
    BY ResolvedIs DEF HasId
  <2>7. NoDangling'
    <3>1. Resolved(x, rows')
      BY <2>1, <2>2 DEF Resolved
    <3> QED
      BY <2>2, <2>6, <3>1 DEF Well, SubsTypeOK, DataInv, NoDangling
  <2>8. ASSUME NEW q \in Requests PROVE Fits(q)'
    <3>1. Apart(own[q], rows')
      BY <2>2, <2>3 DEF Well, SubsTypeOK, DataInv, OwnWell, Fits, Apart
    <3>2. \A y \in own[q] : Resolved(y, rows' \cup own[q])
      <4>1. rows' \cup own[q] = (rows \cup own[q]) \cup {x}
        BY <2>2
      <4> QED
        BY <2>6, <4>1 DEF Well, SubsTypeOK, DataInv, OwnWell, Fits
    <3> QED
      BY <1>1, <3>1, <3>2 DEF Fits
  <2> QED
    BY <1>1, <2>4, <2>5, <2>7, <2>8 DEF DataInv, IdsUsed, OwnWell, WantFresh, Pending
<1> QED
  BY <1>2, <1>3 DEF RunFetchJob, PollFeed

LEMMA Data == SubsSpec => [](Well /\ DataInv)
<1>1. SubsInit => DataInv
  <2> SUFFICES ASSUME SubsInit PROVE DataInv
    OBVIOUS
  <2>1. \A r \in Requests : own[r] = {} /\ ~Pending(r)
    BY DEF SubsInit, Pending
  <2>2. \A r \in Requests : OwnWell(r) /\ WantFresh(r)
    BY <2>1 DEF OwnWell, WantFresh, Fits, Single, Apart
  <2>3. rows = {} /\ Single(rows) /\ NoDangling /\ IdsUsed
    BY <2>1 DEF SubsInit, Single, NoDangling, IdsUsed, HasId
  <2> QED
    BY <2>2, <2>3 DEF DataInv
<1>2. Well /\ DataInv /\ [SubsNext]_subsVars => DataInv'
  <2> SUFFICES ASSUME Well, DataInv, [SubsNext]_subsVars PROVE DataInv'
    OBVIOUS
  <2>1. CASE UNCHANGED subsVars
    BY <2>1 DEF DataInv, NoDangling, IdsUsed, OwnWell, Fits, WantFresh, Pending, subsVars, subsSession
  <2>2. ASSUME NEW r \in Requests, Starts(r) PROVE DataInv'
    BY <2>2, QuietSteps, UnsubscribeData DEF Starts
  <2>3. ASSUME NEW r \in Requests, Step(r) PROVE DataInv'
    BY <2>3, QuietSteps, InsertData, CommitData, RenameData, MoveData, DeleteData
    DEF Step, WalkFolderBroken, InsertRefused, CommitBroken, RenameRefused, MoveRefused, DeleteRefused
  <2>4. ASSUME NEW f \in Feeds, RunFetchJob(f) \/ PollFeed(f) \/ OthersSubscribe(f) PROVE DataInv'
    BY <2>4, OthersData
  <2> QED
    BY <2>1, <2>2, <2>3, <2>4, SubscriptionsAssumption DEF SubsNext
<1> QED
  BY <1>1, <1>2, AlwaysWell, PTL DEF SubsSpec

\* Two requests that both found no row of a key end with one row, whatever they
\* create, rename, import or orphan.
THEOREM UniqueKeysHolds == SubsSpec => []UniqueKeys
<1>1. Well /\ DataInv => UniqueKeys
  BY DEF UniqueKeys, DataInv, Single, Clash, Key
<1> QED
  BY <1>1, Data, PTL

\* No committed row refers to a feed or folder that is gone.
THEOREM NoDanglingHolds == SubsSpec => []NoDangling
<1>1. Well /\ DataInv => NoDangling
  BY DEF DataInv
<1> QED
  BY <1>1, Data, PTL
\* Whatever is done but unsubscribing, each subscription has a row afterwards.
LEMMA SubsKept ==
  ASSUME Well, DataInv, SubsNext, NEW f \in Feeds, HasSub(rows, f),
         \A r \in Requests : ~Unsubscribe(r, f)
  PROVE  HasSub(rows', f)
<1>1. CASE rows \subseteq rows'
  BY <1>1 DEF HasSub
<1>2. ASSUME NEW r \in Requests, Starts(r) PROVE HasSub(rows', f)
  <2>1. ASSUME NEW g \in Feeds, Unsubscribe(r, g) PROVE HasSub(rows', f)
    BY <2>1 DEF Unsubscribe, HasSub
  <2>2. CASE rows' = rows
    BY <1>1, <2>2
  <2> QED
    BY <1>2, <2>1, <2>2
    DEF Starts, BeginSubscribe, BeginImport, BeginCreate, BeginDelete, BeginRename, BeginMove, Decide
<1>3. ASSUME NEW r \in Requests, Rename(r) PROVE HasSub(rows', f)
  BY <1>3 DEF Rename, HasSub
<1>4. ASSUME NEW r \in Requests, Move(r) PROVE HasSub(rows', f)
  <2>1. PICK x \in rows : /\ x.kind = "sub" /\ x.feed = want[r].feed
                          /\ rows' = (rows \ {x}) \cup {want[r]}
    BY <1>4 DEF Move
  <2>2. want[r].kind = "sub"
    BY <1>4, KindsOfRows DEF Move, Well, WantWell
  <2> QED
    BY <2>1, <2>2 DEF HasSub
<1>5. ASSUME NEW r \in Requests, Delete(r) PROVE HasSub(rows', f)
  <2>1. PICK x \in rows : x.kind = "sub" /\ x.feed = f
    BY DEF HasSub
  <2>2. want[r].id \in Folders /\ x \in Rows
    BY <1>5, RowKinds, KindsOfRows DEF Delete, Well, WantWell, SubsTypeOK
  <2>3. Freed(x, want[r].id, seen[r]) \in rows'
    BY <1>5, <2>1 DEF Delete, WithoutFolder, Freed
  <2>4. /\ Freed(x, want[r].id, seen[r]).kind = "sub"
        /\ Freed(x, want[r].id, seen[r]).feed = f
    BY <2>1, <2>2, FreedFields
  <2> QED
    BY <2>3, <2>4 DEF HasSub
<1>6. ASSUME NEW r \in Requests, Step(r) PROVE HasSub(rows', f)
  <2>1. rows' = rows \/ Commit(r) \/ Rename(r) \/ Move(r) \/ Delete(r)
    BY <1>6
    DEF Step, LookUp, WalkFeed, WalkFolder, WalkFolderBroken, Insert, InsertRefusedImport,
        InsertRefused, CommitBroken, RenameRefused, MoveRefused, DeleteRefused, Abort
  <2>2. Commit(r) => rows \subseteq rows'
    BY DEF Commit
  <2> QED
    BY <1>1, <1>3, <1>4, <1>5, <2>1, <2>2
<1>7. ASSUME NEW g, RunFetchJob(g) \/ PollFeed(g) \/ OthersSubscribe(g)
      PROVE  HasSub(rows', f)
  BY <1>1, <1>7 DEF RunFetchJob, PollFeed, OthersSubscribe
<1> QED
  BY <1>2, <1>6, <1>7 DEF SubsNext

\* A subscription ends when the user unsubscribes, and in no other way.
THEOREM OnlyUnsubscribeRemovesHolds == SubsSpec => OnlyUnsubscribeRemoves
<1>1. Well /\ DataInv /\ [SubsNext]_subsVars =>
        [\A f \in Feeds : HasSub(rows, f) /\ ~HasSub(rows', f)
           => \E r \in Requests : Unsubscribe(r, f)]_subsVars
  BY SubsKept
<1> QED
  BY <1>1, Data, PTL DEF SubsSpec, OnlyUnsubscribeRemoves
\* What an import counted as added is what it inserted, until its session breaks.
Tally(r) ==
  /\ op[r] = "idle" => own[r] = {} /\ added[r] = {}
  /\ op[r] = "import" /\ r \notin broken =>
       \A f \in Feeds : HasSub(own[r], f) <=> f \in added[r]

LEMMA TallyStep ==
  ASSUME Well, NEW r \in Requests, Tally(r), Starts(r) \/ Step(r)
  PROVE  Tally(r)'
<1>1. CASE \E f \in Feeds : Unsubscribe(r, f)
  BY <1>1 DEF Unsubscribe, Tally
<1>2. CASE /\ op[r] = "idle" /\ op'[r] # "idle"
           /\ own' = own /\ added' = added
  BY <1>2 DEF Tally, HasSub
<1>3. CASE \/ \E F \in (SUBSET Feeds) \ {{}} : BeginSubscribe(r, F)
           \/ BeginImport(r)
  BY <1>2, <1>3 DEF Well, SubsTypeOK, BeginSubscribe, BeginImport
<1>4. ASSUME NEW kind \in {"create", "rename", "move"}, NEW x, Decide(r, kind, x)
      PROVE  Tally(r)'
  BY <1>2, <1>4 DEF Well, SubsTypeOK, Decide
<1>5. CASE \E n \in Names : BeginCreate(r, n)
  BY <1>4, <1>5 DEF BeginCreate
<1>6. CASE \E x \in rows : \E n \in Names : BeginRename(r, x, n)
  BY <1>4, <1>6 DEF BeginRename
<1>7. CASE \E x \in rows, d \in FolderRef : BeginMove(r, x, d)
  BY <1>4, <1>7 DEF BeginMove
<1>8. CASE \E x \in rows : BeginDelete(r, x)
  BY <1>2, <1>8 DEF Well, SubsTypeOK, BeginDelete
<1>9. CASE Starts(r)
  BY <1>1, <1>3, <1>5, <1>6, <1>7, <1>8, <1>9 DEF Starts
<1>10. CASE (\E f \in Feeds : LookUp(r, f)) \/ WalkFeed(r) \/ WalkFolder(r)
  BY <1>10 DEF Tally, LookUp, WalkFeed, WalkFolder
<1>11. CASE EndRequest(r)
  <2>1. own'[r] = {} /\ added'[r] = {} /\ op'[r] = "idle"
    BY <1>11 DEF Well, SubsTypeOK, EndRequest
  <2> QED
    BY <2>1 DEF Tally
<1>12. CASE InsertRefusedImport(r)
  <2>1. op'[r] = "import" /\ r \in broken'
    BY <1>12 DEF InsertRefusedImport
  <2> QED
    BY <2>1 DEF Tally
<1>13. CASE Insert(r)
  <2>1. PICK x \in Rows : x = want[r] /\ op[r] \in {"subscribe", "import", "create"}
    BY <1>13, Wanted DEF Insert
  <2>2. /\ own'[r] = own[r] \cup {x} /\ op' = op /\ broken' = broken
        /\ added'[r] = added[r] \cup Counted(r, x)
    BY <1>13, <2>1 DEF Well, SubsTypeOK, Insert
  <2>3. \A f : HasSub(own'[r], f) <=> HasSub(own[r], f) \/ (x.kind = "sub" /\ x.feed = f)
    BY <2>2 DEF HasSub
  <2>4. x.kind \in {"feed", "sub", "folder"}
    BY RowKinds
  <2> QED
    BY <2>1, <2>2, <2>3, <2>4 DEF Tally, Counted
<1> QED
  BY <1>9, <1>10, <1>11, <1>12, <1>13
  DEF Step, WalkFolderBroken, InsertRefused, Commit, CommitBroken, Rename, RenameRefused,
      Move, MoveRefused, Delete, DeleteRefused, Abort

\* A step of r leaves the tallies of the others alone.
LEMMA TallyOthers ==
  ASSUME Well, NEW r \in Requests, Starts(r) \/ Step(r), NEW q \in Requests \ {r}, Tally(q)
  PROVE  Tally(q)'
<1>1. op'[q] = op[q] /\ own'[q] = own[q]
  <2>1. CASE Starts(r)
    BY <2>1
    DEF Well, SubsTypeOK, Starts, BeginSubscribe, BeginImport, BeginCreate, BeginDelete,
        BeginRename, BeginMove, Decide, Unsubscribe
  <2>2. CASE Step(r)
    BY <2>2
    DEF Well, SubsTypeOK, Step, LookUp, WalkFeed, WalkFolder, WalkFolderBroken, Insert,
        InsertRefusedImport, InsertRefused, Commit, CommitBroken, Rename, RenameRefused,
        Move, MoveRefused, Delete, DeleteRefused, Abort, EndRequest
  <2> QED
    BY <2>1, <2>2
<1>2. added'[q] = added[q] /\ (q \in broken' <=> q \in broken)
  <2>1. CASE Starts(r)
    BY <2>1
    DEF Well, SubsTypeOK, Starts, BeginSubscribe, BeginImport, BeginCreate, BeginDelete,
        BeginRename, BeginMove, Decide, Unsubscribe
  <2>2. CASE EndRequest(r)
    BY <2>2 DEF Well, SubsTypeOK, EndRequest
  <2>3. CASE Insert(r) \/ InsertRefusedImport(r)
    BY <2>3 DEF Well, SubsTypeOK, Insert, InsertRefusedImport
  <2>4. CASE Step(r)
    BY <2>2, <2>3, <2>4
    DEF Step, LookUp, WalkFeed, WalkFolder, WalkFolderBroken, InsertRefused, Commit, CommitBroken,
        Rename, RenameRefused, Move, MoveRefused, Delete, DeleteRefused, Abort
  <2> QED
    BY <2>1, <2>4
<1> QED
  BY <1>1, <1>2 DEF Tally

LEMMA Tallies == SubsSpec => [](Well /\ \A r \in Requests : Tally(r))
<1>1. SubsInit => \A r \in Requests : Tally(r)
  BY DEF SubsInit, Tally
<1>2. Well /\ (\A r \in Requests : Tally(r)) /\ [SubsNext]_subsVars => (\A r \in Requests : Tally(r))'
  <2> SUFFICES ASSUME Well, \A r \in Requests : Tally(r), [SubsNext]_subsVars,
                      NEW q \in Requests
               PROVE  Tally(q)'
    OBVIOUS
  <2>1. CASE UNCHANGED subsSession
    BY <2>1 DEF Tally, subsSession
  <2>2. ASSUME NEW r \in Requests, Starts(r) \/ Step(r) PROVE Tally(q)'
    BY <2>2, TallyStep, TallyOthers
  <2> QED
    BY <2>1, <2>2 DEF SubsNext, subsVars, RunFetchJob, PollFeed, OthersSubscribe
<1> QED
  BY <1>1, <1>2, AlwaysWell, PTL DEF SubsSpec

\* What an import that succeeds reports as added is subscribed to, and what it
\* reports as failed is not a subscription it made.
THEOREM ReportIsTrueHolds == SubsSpec => ReportIsTrue
<1>1. ASSUME Well, NEW r \in Requests, Tally(r), op[r] = "import", Commit(r)
      PROVE  /\ \A f \in added[r] : HasSub(rows', f)
             /\ \A f \in failed[r] \ added[r] : HasSub(rows', f) => HasSub(rows, f)
  <2>1. \A f \in Feeds : HasSub(own[r], f) <=> f \in added[r]
    BY <1>1 DEF Tally, Commit, Done
  <2>2. \A f : HasSub(rows', f) <=> HasSub(rows, f) \/ HasSub(own[r], f)
    BY <1>1 DEF Commit, HasSub
  <2>3. added[r] \subseteq Feeds /\ failed[r] \subseteq Feeds
    BY <1>1 DEF Well, SubsTypeOK
  <2> QED
    BY <2>1, <2>2, <2>3
<1>2. Well /\ (\A r \in Requests : Tally(r)) /\ [SubsNext]_subsVars =>
        [\A r \in Requests : op[r] = "import" /\ op'[r] = "idle" /\ Commit(r)
           => /\ \A f \in added[r] : HasSub(rows', f)
              /\ \A f \in failed[r] \ added[r] : HasSub(rows', f) => HasSub(rows, f)]_subsVars
  BY <1>1
<1> QED
  BY <1>2, Tallies, PTL DEF SubsSpec, ReportIsTrue
=============================================================================
