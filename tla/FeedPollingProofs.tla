--------------------------- MODULE FeedPollingProofs ---------------------------
(***************************************************************************)
(* Proofs about FeedPolling, for any number of feeds, workers, versions    *)
(* and thresholds.                                                         *)
(***************************************************************************)
EXTENDS FeedPolling, TLAPS

USE FeedPollingAssumption

(***************************************************************************)
(* Types.                                                                  *)
(***************************************************************************)

\* What run() makes of the columns of a row are columns again.
LEMMA WantedTypes ==
  ASSUME NEW r \in Row, NEW a \in Answer
  PROVE  /\ WantedErrors(r, a) \in Nat
         /\ WantedStatus(r, a) \in FeedStatus
         /\ WantedEtag(r, a) \in 0..MaxVersion
<1>1. r.errors \in Nat /\ r.status \in FeedStatus /\ r.etag \in 0..MaxVersion
      /\ a.etag \in 0..MaxVersion
  BY DEF Row, Answer
<1>2. WantedErrors(r, a) \in Nat
  BY <1>1 DEF WantedErrors
<1>3. WantedStatus(r, a) \in FeedStatus
  BY <1>1 DEF WantedStatus, FeedStatus
<1> QED BY <1>1, <1>2, <1>3 DEF WantedEtag

\* Whatever the session read, a stored row is a row.
LEMMA StoredIsRow ==
  ASSUME TypeOK, NEW w \in Workers, NEW f \in Feeds
  PROVE  Stored(w, f) \in Row
<1>1. read[w][f] \in Row /\ row[f] \in Row /\ heard[w][f] \in Answer
  BY DEF TypeOK
<1> QED BY <1>1, WantedTypes DEF Stored, Merge, Row

\* Every answer a worker can hear is one.
LEMMA AnswersAreAnswers ==
  ASSUME TypeOK, NEW w \in Workers, NEW f \in Feeds
  PROVE  Answers(w, f) \subseteq Answer
BY DEF TypeOK, Answers, Answer

LEMMA InitTypeOK == Init => TypeOK
BY DEF Init, TypeOK, NewRow, Row, FeedStatus, Silence, Answer

\* Closing a session keeps the types.
LEMMA CloseTypeOK ==
  ASSUME TypeOK, NEW w \in Workers, Close(w)
  PROVE  /\ job' \in [Workers -> {"none", "fetch", "recover"}]
         /\ todo' \in [Workers -> SUBSET Feeds]
         /\ read' \in [Workers -> [Feeds -> Row]]
         /\ heard' \in [Workers -> [Feeds -> Answer]]
         /\ flushing' \subseteq Workers
         /\ insert' \in [Workers -> SUBSET (Feeds \X Guids)]
         /\ added' \in [Workers -> SUBSET (Feeds \X Guids)]
         /\ locked' \in [Workers -> SUBSET Feeds]
<1>1. [f \in Feeds |-> NewRow] \in [Feeds -> Row]
  BY DEF NewRow, Row, FeedStatus
<1>2. [f \in Feeds |-> Silence] \in [Feeds -> Answer]
  BY DEF Silence, Answer
<1> QED BY <1>1, <1>2 DEF TypeOK, Close

LEMMA NextTypeOK == TypeOK /\ [Next]_vars => TypeOK'
<1> SUFFICES ASSUME TypeOK, [Next]_vars PROVE TypeOK'
  OBVIOUS
<1>1. ASSUME NEW f \in Feeds, IntervalPasses(f) PROVE TypeOK'
  BY <1>1 DEF TypeOK, IntervalPasses, session
<1>2. ASSUME NEW f \in Feeds, Publish(f) PROVE TypeOK'
  BY <1>2 DEF TypeOK, Publish, session, tables
<1>3. ASSUME NEW w \in Workers, NEW kind \in {"fetch", "recover"}, NEW S \in SUBSET Feeds,
             Begin(w, kind, S)
      PROVE  TypeOK'
  <2>1. [f \in Feeds |-> IF f \in S THEN row[f] ELSE NewRow] \in [Feeds -> Row]
    BY DEF TypeOK, NewRow, Row, FeedStatus
  <2> QED BY <1>3, <2>1 DEF TypeOK, Begin, tables
<1>4. ASSUME NEW w \in Workers, NEW f \in Feeds, Fetch(w, f) PROVE TypeOK'
  <2>1. PICK a \in Answers(w, f) :
          /\ heard' = [heard EXCEPT ![w][f] = a]
          /\ insert' = [insert EXCEPT ![w] = Unknown(f, a)]
          /\ flushing' \in {flushing, flushing \cup {w}}
    BY <1>4 DEF Fetch
  <2>2. a \in Answer /\ (a.kind = "ok" => a.etag = version[f])
    BY AnswersAreAnswers DEF Answers
  <2>3. Unknown(f, a) \subseteq Feeds \X Guids
    BY <2>2 DEF Unknown, Listed, TypeOK
  <2>4. heard' \in [Workers -> [Feeds -> Answer]]
    BY <2>1, <2>2 DEF TypeOK
  <2>5. insert' \in [Workers -> SUBSET (Feeds \X Guids)] /\ flushing' \subseteq Workers
    BY <2>1, <2>3 DEF TypeOK
  <2> QED BY <1>4, <2>4, <2>5 DEF TypeOK, Fetch, tables
<1>5. ASSUME NEW w \in Workers, NEW f \in Feeds, Probe(w, f) PROVE TypeOK'
  <2>1. heard' \in [Workers -> [Feeds -> Answer]]
    BY <1>5 DEF TypeOK, Probe, Answer, Silence
  <2> QED BY <1>5, <2>1 DEF TypeOK, Probe, tables
<1>6. ASSUME NEW w \in Workers, Flush(w) PROVE TypeOK'
  <2>1. CASE Clashes(w)
    BY <1>6, <2>1, CloseTypeOK DEF TypeOK, Flush, tables
  <2>2. CASE ~Clashes(w)
    <3>1. Dirty(w) \subseteq Feeds
      BY DEF Dirty
    <3>2. locked' \in [Workers -> SUBSET Feeds]
      <4>1. locked[w] \cup Dirty(w) \in SUBSET Feeds
        BY <3>1 DEF TypeOK
      <4>2. locked' = [locked EXCEPT ![w] = locked[w] \cup Dirty(w)]
        BY <1>6, <2>2 DEF Flush
      <4> QED BY <4>1, <4>2 DEF TypeOK
    <3>3. insert' \in [Workers -> SUBSET (Feeds \X Guids)]
      BY <1>6, <2>2 DEF TypeOK, Flush
    <3>4. added' \in [Workers -> SUBSET (Feeds \X Guids)]
      <4>1. added[w] \cup insert[w] \in SUBSET (Feeds \X Guids)
        BY DEF TypeOK
      <4>2. added' = [added EXCEPT ![w] = added[w] \cup insert[w]]
        BY <1>6, <2>2 DEF Flush
      <4> QED BY <4>1, <4>2 DEF TypeOK
    <3> QED BY <1>6, <2>2, <3>2, <3>3, <3>4 DEF TypeOK, Flush, tables
  <2> QED BY <2>1, <2>2
<1>7. ASSUME NEW w \in Workers, Commit(w) PROVE TypeOK'
  <2>1. row' \in [Feeds -> Row]
    BY <1>7, StoredIsRow DEF TypeOK, Commit
  <2>2. due' \in [Feeds -> BOOLEAN] /\ failures' \in [Feeds -> Nat]
    BY <1>7 DEF TypeOK, Commit
  <2> QED BY <1>7, <2>1, <2>2, CloseTypeOK DEF TypeOK, Commit
<1>8. ASSUME NEW w \in Workers, EndRecover(w) \/ Deadlock(w) PROVE TypeOK'
  BY <1>8, CloseTypeOK DEF TypeOK, EndRecover, Deadlock, tables
<1>9. ASSUME NEW w \in Workers, Crash(w) PROVE TypeOK'
  BY <1>9, CloseTypeOK DEF TypeOK, Crash, tables
<1>10. CASE UNCHANGED vars
  BY <1>10 DEF TypeOK, vars, tables, session
<1>11. ASSUME NEW w \in Workers,
              BeginPoll(w) \/ BeginRecover(w) \/ \E f \in Feeds : BeginFetch(w, f)
       PROVE  TypeOK'
  <2>1. PICK kind \in {"fetch", "recover"}, S \in SUBSET Feeds : Begin(w, kind, S)
    BY <1>11 DEF BeginPoll, BeginFetch, BeginRecover, DueFeeds
  <2> QED BY <2>1, <1>3
<1> QED
  BY <1>1, <1>2, <1>4, <1>5, <1>6, <1>7, <1>8, <1>9, <1>10, <1>11 DEF Next

\* Every reachable state has the types of models/feed.py and of a session.
THEOREM TypeCorrect == Spec => []TypeOK
BY InitTypeOK, NextTypeOK, PTL DEF Spec

(***************************************************************************)
(* Errors are counted at most once, so a DEAD feed earned it.              *)
(***************************************************************************)

\* One answer adds at most one error, and kills only what had enough of them.
LEMMA WantedCounts ==
  ASSUME NEW r \in Row, NEW a \in Answer
  PROVE  /\ WantedErrors(r, a) <= r.errors + (IF a.kind = "error" THEN 1 ELSE 0)
         /\ WantedStatus(r, a) = "dead" =>
              r.status = "dead" \/ (a.kind = "error" /\ r.errors >= DeadAfter)
<1>1. r.errors \in Nat /\ DeadAfter \in Nat
  BY DEF Row
<1>2. CASE a.kind = "error"
  BY <1>1, <1>2 DEF WantedErrors, WantedStatus
<1>3. CASE a.kind = "ok"
  BY <1>1, <1>3 DEF WantedErrors, WantedStatus
<1>4. CASE a.kind = "alive"
  BY <1>1, <1>4 DEF WantedErrors, WantedStatus
<1>5. CASE a.kind \notin {"error", "ok", "alive"}
  BY <1>1, <1>5 DEF WantedErrors, WantedStatus
<1> QED BY <1>2, <1>3, <1>4, <1>5

LEMMA InitCountInv == Init => CountInv
BY DEF Init, CountInv, Counted, NewRow

\* A session that closes has read nothing any more.
LEMMA CloseReads ==
  ASSUME TypeOK, NEW w \in Workers, Close(w), NEW u \in Workers, NEW f \in Feeds
  PROVE  read'[u][f] \in {read[u][f], NewRow}
BY DEF Close, TypeOK

LEMMA NextCountInv == TypeOK /\ CountInv /\ [Next]_vars => CountInv'
<1> SUFFICES ASSUME TypeOK, CountInv, [Next]_vars,
                    NEW f \in Feeds
             PROVE  /\ Counted(f, row[f])'
                    /\ \A u \in Workers : Counted(f, read[u][f])'
  BY DEF CountInv
<1>a. Counted(f, row[f]) /\ \A u \in Workers : Counted(f, read[u][f])
  BY DEF CountInv
<1>b. failures[f] \in Nat
  BY DEF TypeOK
<1>c. CASE row' = row /\ failures' = failures
           /\ \A u \in Workers : read'[u][f] \in {read[u][f], row[f], NewRow}
  BY <1>a, <1>b, <1>c DEF Counted, NewRow
<1>1. ASSUME NEW g \in Feeds, IntervalPasses(g) \/ Publish(g) PROVE row' = row /\ failures' = failures /\ read' = read
  BY <1>1 DEF IntervalPasses, Publish, tables, session
<1>2. ASSUME NEW w \in Workers, NEW kind, NEW S, Begin(w, kind, S)
      PROVE  /\ row' = row /\ failures' = failures
             /\ \A u \in Workers : read'[u][f] \in {read[u][f], row[f], NewRow}
  BY <1>2 DEF Begin, tables, TypeOK
<1>3. ASSUME NEW w \in Workers, NEW g \in Feeds, Fetch(w, g) \/ Probe(w, g)
      PROVE  row' = row /\ failures' = failures /\ read' = read
  BY <1>3 DEF Fetch, Probe, tables
<1>4. ASSUME NEW w \in Workers, Flush(w) \/ EndRecover(w) \/ Deadlock(w) \/ Crash(w)
      PROVE  /\ row' = row /\ failures' = failures
             /\ \A u \in Workers : read'[u][f] \in {read[u][f], NewRow}
  BY <1>4, CloseReads DEF Flush, EndRecover, Deadlock, Crash, tables
<1>5. ASSUME NEW w \in Workers, Commit(w)
      PROVE  /\ Counted(f, row[f])'
             /\ \A u \in Workers : Counted(f, read[u][f])'
  <2>1. failures'[f] = IF heard[w][f].kind = "error" THEN failures[f] + 1 ELSE failures[f]
    BY <1>5 DEF Commit
  <2>2. row'[f] = IF heard[w][f] = Silence THEN row[f] ELSE Stored(w, f)
    BY <1>5 DEF Commit
  <2>3. \A u \in Workers : Counted(f, read[u][f])'
    <3>1. \A u \in Workers : read'[u][f] \in {read[u][f], NewRow}
      BY <1>5, CloseReads DEF Commit
    <3>2. failures'[f] >= failures[f] /\ failures'[f] \in Nat
      BY <1>b, <2>1
    <3>3. \A u \in Workers : read[u][f].errors \in Nat
      BY DEF TypeOK, Row
    <3> QED BY <3>1, <3>2, <3>3, <1>a, <1>b DEF Counted, NewRow
  <2>4. Counted(f, row[f])'
    <3>1. row[f] \in Row /\ read[w][f] \in Row
      BY DEF TypeOK
    <3>2. CASE heard[w][f] = Silence
      BY <3>2, <2>1, <2>2, <1>a DEF Counted, Silence
    <3>3. CASE heard[w][f] # Silence
      <4>0. /\ read[w][f] \in Row /\ heard[w][f] \in Answer
            /\ row[f].errors \in Nat /\ read[w][f].errors \in Nat
        BY DEF TypeOK, Row
      <4>1. /\ row'[f].errors = Merge(row[f].errors, read[w][f].errors,
                                      WantedErrors(read[w][f], heard[w][f]))
            /\ row'[f].status = Merge(row[f].status, read[w][f].status,
                                      WantedStatus(read[w][f], heard[w][f]))
        BY <3>3, <2>2 DEF Stored
      <4>2. row'[f].errors <= failures'[f]
        <5>1. /\ WantedErrors(read[w][f], heard[w][f]) \in Nat
              /\ WantedErrors(read[w][f], heard[w][f]) <= failures'[f]
          <6>1. WantedErrors(read[w][f], heard[w][f])
                  <= read[w][f].errors + (IF heard[w][f].kind = "error" THEN 1 ELSE 0)
            BY <4>0, WantedCounts
          <6>2. WantedErrors(read[w][f], heard[w][f]) \in Nat
            BY <4>0, WantedTypes
          <6> QED
            BY <4>0, <6>1, <6>2, <2>1, <1>a, <1>b DEF Counted
        <5>2. row[f].errors <= failures'[f]
          BY <4>0, <2>1, <1>a, <1>b DEF Counted
        <5> QED
          BY <4>1, <5>1, <5>2 DEF Merge
      <4>3. row'[f].status = "dead" => failures'[f] > DeadAfter
        BY <4>0, <4>1, <2>1, <1>a, <1>b, WantedCounts DEF Merge, Counted
      <4> QED BY <4>2, <4>3 DEF Counted
    <3> QED BY <3>2, <3>3
  <2> QED BY <2>3, <2>4
<1>6. CASE UNCHANGED vars
  BY <1>6, <1>c DEF vars, tables, session
<1> QED
  BY <1>c, <1>1, <1>2, <1>3, <1>4, <1>5, <1>6 DEF Next, BeginPoll, BeginFetch, BeginRecover

\* For any number of concurrent pollers, recoveries and crashes, a feed is
\* marked DEAD only after more than DeadAfter fetches of it failed.
THEOREM DeadIsEarnedHolds == Spec => []DeadIsEarned
<1>1. CountInv => DeadIsEarned
  BY DEF CountInv, Counted, DeadIsEarned
<1> QED BY <1>1, InitTypeOK, NextTypeOK, InitCountInv, NextCountInv, PTL DEF Spec

(***************************************************************************)
(* An ETag is stored together with the articles it answers for.            *)
(***************************************************************************)

LEMMA InitCoverInv == Init => CoverInv
BY DEF Init, CoverInv, ETagCovers, NewRow, Silence, Listed

\* An invariant of the shared tables and of each session: it is kept by a step
\* that only adds articles and leaves the sessions as they are.
LEMMA CoverStays ==
  ASSUME CoverInv, UNCHANGED <<row, flushing, heard, insert, added>>,
         articles \subseteq articles'
  PROVE  CoverInv'
<1>1. ETagCovers'
  BY DEF CoverInv, ETagCovers
<1> QED BY <1>1 DEF CoverInv, Listed

\* A closed session has heard of no entry that it could still owe.
LEMMA CloseCovers ==
  ASSUME TypeOK, CoverInv, NEW w \in Workers, Close(w),
         articles \subseteq articles', ETagCovers'
  PROVE  CoverInv'
<1>1. ASSUME NEW u \in Workers, NEW f \in Feeds
      PROVE  Listed(f, heard'[u][f]) \subseteq articles' \cup added'[u] \cup insert'[u]
  <2>1. CASE u = w
    <3>1. heard'[u][f] = Silence
      BY <2>1 DEF Close, TypeOK
    <3> QED BY <3>1 DEF Listed, Silence
  <2>2. CASE u # w
    <3>1. heard'[u] = heard[u] /\ insert'[u] = insert[u] /\ added'[u] = added[u]
      BY <2>2 DEF Close, TypeOK
    <3> QED BY <3>1 DEF CoverInv, Listed
  <2> QED BY <2>1, <2>2
<1>2. ASSUME NEW u \in Workers PROVE u \notin flushing' => insert'[u] = {}
  <2>1. CASE u = w
    BY <2>1 DEF Close, TypeOK
  <2>2. CASE u # w
    BY <2>2 DEF Close, TypeOK, CoverInv
  <2> QED BY <2>1, <2>2
<1> QED BY <1>1, <1>2 DEF CoverInv, Listed

LEMMA FetchCovers ==
  ASSUME TypeOK, CoverInv, NEW w \in Workers, NEW f \in Feeds, Fetch(w, f)
  PROVE  CoverInv'
<1>1. PICK a \in Answers(w, f) :
        /\ heard' = [heard EXCEPT ![w][f] = a]
        /\ insert' = [insert EXCEPT ![w] = Unknown(f, a)]
        /\ \/ flushing' = flushing \cup {w}
           \/ flushing' = flushing /\ Unknown(f, a) = {}
  BY DEF Fetch
<1>2. w \notin flushing /\ UNCHANGED <<row, articles, added>>
  BY DEF Fetch, tables
<1>3. ETagCovers'
  BY <1>2 DEF CoverInv, ETagCovers
<1>4. insert[w] = {}
  BY <1>2 DEF CoverInv
<1>5. ASSUME NEW u \in Workers PROVE u \notin flushing' => insert'[u] = {}
  BY <1>1, <1>2 DEF CoverInv, TypeOK
<1>6. ASSUME NEW u \in Workers, NEW g \in Feeds
      PROVE  Listed(g, heard'[u][g]) \subseteq articles' \cup added'[u] \cup insert'[u]
  <2>1. CASE u = w /\ g = f
    <3>1. heard'[u][g] = a /\ insert'[u] = Listed(g, a) \ articles
      BY <1>1, <2>1 DEF TypeOK, Unknown
    <3> QED BY <3>1, <1>2
  <2>2. CASE ~(u = w /\ g = f)
    <3>1. heard'[u][g] = heard[u][g]
      BY <1>1, <2>2 DEF TypeOK
    <3>2. insert[u] \subseteq insert'[u]
      BY <1>1, <1>4 DEF TypeOK
    <3> QED BY <3>1, <3>2, <1>2 DEF CoverInv, Listed
  <2> QED BY <2>1, <2>2
<1> QED BY <1>3, <1>5, <1>6 DEF CoverInv, Listed

LEMMA ProbeCovers ==
  ASSUME TypeOK, CoverInv, NEW w \in Workers, NEW f \in Feeds, Probe(w, f)
  PROVE  CoverInv'
<1>1. PICK a \in {Silence, [kind |-> "alive", etag |-> 0]} :
        heard' = [heard EXCEPT ![w][f] = a]
  BY DEF Probe
<1>2. UNCHANGED <<row, articles, flushing, insert, added>>
  BY DEF Probe, tables
<1>3. Listed(f, a) = {}
  BY <1>1 DEF Listed, Silence
<1>4. ASSUME NEW u \in Workers, NEW g \in Feeds
      PROVE  Listed(g, heard'[u][g]) \subseteq articles \cup added[u] \cup insert[u]
  <2>1. CASE u = w /\ g = f
    BY <1>1, <1>3, <2>1 DEF TypeOK
  <2>2. CASE ~(u = w /\ g = f)
    <3>1. heard'[u][g] = heard[u][g]
      BY <1>1, <2>2 DEF TypeOK
    <3> QED BY <3>1 DEF CoverInv
  <2> QED BY <2>1, <2>2
<1>5. ETagCovers'
  BY <1>2 DEF CoverInv, ETagCovers
<1> QED BY <1>2, <1>4, <1>5 DEF CoverInv, Listed

LEMMA FlushCovers ==
  ASSUME TypeOK, CoverInv, NEW w \in Workers, Flush(w)
  PROVE  CoverInv'
<1>1. UNCHANGED <<row, articles>>
  BY DEF Flush, tables
<1>2. ETagCovers'
  BY <1>1 DEF CoverInv, ETagCovers
<1>3. CASE Clashes(w)
  BY <1>1, <1>2, <1>3, CloseCovers DEF Flush
<1>4. CASE ~Clashes(w)
  <2>1. /\ flushing' = flushing \ {w}
        /\ insert' = [insert EXCEPT ![w] = {}]
        /\ added' = [added EXCEPT ![w] = added[w] \cup insert[w]]
        /\ heard' = heard
    BY <1>4 DEF Flush
  <2>2. ASSUME NEW u \in Workers
        PROVE  /\ added'[u] \cup insert'[u] = added[u] \cup insert[u]
               /\ u \notin flushing' => insert'[u] = {}
    <3>1. CASE u = w
      BY <2>1, <3>1 DEF TypeOK
    <3>2. CASE u # w
      BY <2>1, <3>2 DEF TypeOK, CoverInv
    <3> QED BY <3>1, <3>2
  <2> QED BY <1>1, <1>2, <2>1, <2>2 DEF CoverInv, Listed
<1> QED BY <1>3, <1>4

\* A commit stores an ETag only with the entries that its session inserted, or
\* found there.
LEMMA CommitCovers ==
  ASSUME TypeOK, CoverInv, NEW w \in Workers, Commit(w)
  PROVE  CoverInv'
<1>1. /\ articles' = articles \cup added[w]
      /\ row' = [f \in Feeds |-> IF heard[w][f] = Silence THEN row[f] ELSE Stored(w, f)]
      /\ w \notin flushing
      /\ Close(w)
  BY DEF Commit
<1>2. insert[w] = {}
  BY <1>1 DEF CoverInv
<1>3. ASSUME NEW f \in Feeds, row'[f].etag # 0
      PROVE  {f} \X Entries[f][row'[f].etag] \subseteq articles'
  <2>1. CASE row'[f].etag = row[f].etag
    BY <1>1, <1>3, <2>1 DEF CoverInv, ETagCovers
  <2>2. CASE row'[f].etag # row[f].etag
    <3>1. row'[f].etag = Stored(w, f).etag
      BY <1>1, <2>2
    <3>2. Stored(w, f).etag = Merge(row[f].etag, read[w][f].etag,
                                    WantedEtag(read[w][f], heard[w][f]))
      BY DEF Stored
    <3>3. heard[w][f].kind = "ok" /\ row'[f].etag = heard[w][f].etag
      BY <2>2, <3>1, <3>2 DEF Merge, WantedEtag
    <3>4. Listed(f, heard[w][f]) \subseteq articles \cup added[w]
      BY <1>2 DEF CoverInv
    <3> QED BY <1>1, <3>3, <3>4 DEF Listed
  <2> QED BY <2>1, <2>2
<1>4. ETagCovers'
  BY <1>3 DEF ETagCovers
<1> QED BY <1>1, <1>4, CloseCovers

LEMMA NextCoverInv == TypeOK /\ CoverInv /\ [Next]_vars => CoverInv'
<1> SUFFICES ASSUME TypeOK, CoverInv, [Next]_vars PROVE CoverInv'
  OBVIOUS
<1>1. ASSUME NEW f \in Feeds, IntervalPasses(f) \/ Publish(f) PROVE CoverInv'
  BY <1>1, CoverStays DEF IntervalPasses, Publish, tables, session
<1>2. ASSUME NEW w \in Workers,
             BeginPoll(w) \/ BeginRecover(w) \/ \E f \in Feeds : BeginFetch(w, f)
      PROVE  CoverInv'
  BY <1>2, CoverStays DEF BeginPoll, BeginFetch, BeginRecover, Begin, tables
<1>3. ASSUME NEW w \in Workers, EndRecover(w) \/ Deadlock(w) \/ Crash(w) PROVE CoverInv'
  <2>1. UNCHANGED <<row, articles>> /\ Close(w)
    BY <1>3 DEF EndRecover, Deadlock, Crash, tables
  <2>2. ETagCovers'
    BY <2>1 DEF CoverInv, ETagCovers
  <2> QED BY <2>1, <2>2, CloseCovers
<1>4. CASE UNCHANGED vars
  BY <1>4, CoverStays DEF vars, tables, session
<1> QED
  BY <1>1, <1>2, <1>3, <1>4, FetchCovers, ProbeCovers, FlushCovers, CommitCovers
  DEF Next

\* For any number of racing pollers, crashes and deadlocks, the entries of the
\* document that a stored ETag names are stored.
THEOREM ETagCoversHolds == Spec => []ETagCovers
<1>1. CoverInv => ETagCovers
  BY DEF CoverInv
<1> QED BY <1>1, InitTypeOK, NextTypeOK, InitCoverInv, NextCoverInv, PTL DEF Spec
================================================================================
