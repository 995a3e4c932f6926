-------------------------- MODULE NotificationsProofs --------------------------
(***************************************************************************)
(* Proofs about Notifications, for any messages, streams, endpoints and    *)
(* requests, any critical transports and bounds: the type of its state,    *)
(* that a message never comes before its record, that a stream gets it     *)
(* once per execution, and that a stream that stays gets it.               *)
(***************************************************************************)
EXTENDS Notifications, FiniteSetTheorems, TLAPS

\* Stages at which the record of the execution is written, if that is critical.
Onward == {"sse", "publish", "push", "send"}

\* Stages at which the message of the execution may be in a stream.
Late == {"publish", "push", "send", "done"}

\* The ledger of a message: at most one record per execution.
TriesWell(m) ==
  /\ recs[m] <= tries[m]
  /\ stage[m] = "db" => recs[m] < tries[m]
  /\ stage[m] \notin {"none", "queued"} => tries[m] > 0
  /\ stage[m] \in Onward /\ "db" \in Critical => recs[m] > 0

\* The subscribers are the open streams, once each; a stream that is not open has
\* an empty queue, and one that is about to open has received nothing.
ListWell ==
  /\ \A i, j \in DOMAIN subs : subs[i] = subs[j] => i = j
  /\ \A s \in Streams : stream[s] = "open" <=> \E i \in DOMAIN subs : subs[i] = s
  /\ \A s \in Streams : stream[s] # "open" => inbox[s] = << >>
  /\ \A s \in Streams : stream[s] = "opening" => got[s] = {}

\* What is in a stream: no item twice, its record stored, its execution begun, and
\* if that is the last one it has come to publish.
ItemWell(x) ==
  /\ x.rec <= recs[x.msg]
  /\ "db" \in Critical => x.rec > 0
  /\ x.try <= tries[x.msg]
  /\ stage[x.msg] \notin Late => x.try < tries[x.msg]

InboxWell(s) ==
  /\ \A i, j \in DOMAIN inbox[s] : inbox[s][i] = inbox[s][j] => i = j
  /\ \A i \in DOMAIN inbox[s] : inbox[s][i] \notin got[s]
  /\ \A x \in InStream(s) : ItemWell(x)

\* While publish runs: no subscriber that is still to come has the item, and every
\* one it has passed has it, unless something was lost.
PublishWell(m) == stage[m] = "publish" =>
  /\ next[m] > 0
  /\ \A i \in DOMAIN subs : next[m] <= i => Item(m) \notin InStream(subs[i])
  /\ m \notin shaken =>
       /\ next[m] <= Len(subs) + 1
       /\ \A i \in DOMAIN subs : i < next[m] => Item(m) \in InStream(subs[i])

Ledger == NotifyTypeOK /\ \A m \in Messages : TriesWell(m)

DeliveryInv ==
  /\ ListWell
  /\ \A s \in Streams : InboxWell(s)
  /\ \A m \in Messages : PublishWell(m)

-----------------------------------------------------------------------------
\* What is left of a list without one of its elements.
LEMMA WithoutIsSeq ==
  ASSUME NEW q \in Seq(Streams), NEW s
  PROVE  Without(q, s) \in Seq(Streams)
<1>1. CASE \E i \in DOMAIN q : q[i] = s
  <2> DEFINE w == [i \in 1..(Len(q) - 1) |-> IF i < Place(q, s) THEN q[i] ELSE q[i + 1]]
  <2>1. Len(q) \in Nat /\ DOMAIN q = 1..Len(q) /\ \A i \in 1..Len(q) : q[i] \in Streams
    OBVIOUS
  <2>2. Len(q) > 0
    BY <1>1, <2>1
  <2>3. \A i \in 1..(Len(q) - 1) : w[i] \in Streams
    BY <2>1, <2>2
  <2>4. w \in Seq(Streams)
    BY <2>1, <2>2, <2>3
  <2> QED
    BY <1>1, <2>4 DEF Without
<1>2. CASE ~ \E i \in DOMAIN q : q[i] = s
  BY <1>2 DEF Without
<1> QED
  BY <1>1, <1>2

\* It keeps the order, and moves elements towards the front.
LEMMA WithoutMoves ==
  ASSUME NEW q \in Seq(Streams), NEW s, \A i, j \in DOMAIN q : q[i] = q[j] => i = j
  PROVE  /\ \A j \in DOMAIN Without(q, s) :
              \E k \in DOMAIN q : j <= k /\ Without(q, s)[j] = q[k] /\ q[k] # s
         /\ \A i, j \in DOMAIN Without(q, s) : Without(q, s)[i] = Without(q, s)[j] => i = j
         /\ \A k \in DOMAIN q : q[k] # s => \E j \in DOMAIN Without(q, s) : Without(q, s)[j] = q[k]
<1>1. CASE \E i \in DOMAIN q : q[i] = s
  <2> DEFINE p == Place(q, s)
             w == [i \in 1..(Len(q) - 1) |-> IF i < p THEN q[i] ELSE q[i + 1]]
  <2>1. Len(q) \in Nat /\ DOMAIN q = 1..Len(q)
    OBVIOUS
  <2>2. p \in 1..Len(q) /\ q[p] = s
    BY <1>1, <2>1 DEF Place
  <2>3. Without(q, s) = w /\ DOMAIN w = 1..(Len(q) - 1)
    BY <1>1 DEF Without
  <2> HIDE DEF p
  <2>4. ASSUME NEW j \in 1..(Len(q) - 1)
        PROVE  \E k \in 1..Len(q) : j <= k /\ w[j] = q[k] /\ k # p
    <3>1. CASE j < p
      BY <2>1, <2>2, <3>1
    <3>2. CASE ~(j < p)
      BY <2>1, <2>2, <3>2
    <3> QED
      BY <3>1, <3>2
  <2>5. ASSUME NEW i \in 1..(Len(q) - 1), NEW j \in 1..(Len(q) - 1), w[i] = w[j]
        PROVE  i = j
    <3> DEFINE a == IF i < p THEN i ELSE i + 1
               b == IF j < p THEN j ELSE j + 1
    <3>1. a \in 1..Len(q) /\ b \in 1..Len(q) /\ w[i] = q[a] /\ w[j] = q[b]
      BY <2>1, <2>2
    <3>2. a = b
      BY <2>1, <2>5, <3>1
    <3> QED
      BY <2>1, <2>2, <3>2
  <2>6. ASSUME NEW k \in 1..Len(q), k # p
        PROVE  \E j \in 1..(Len(q) - 1) : w[j] = q[k]
    <3>1. CASE k < p
      BY <2>1, <2>2, <3>1
    <3>2. CASE ~(k < p)
      <4>1. k - 1 \in 1..(Len(q) - 1) /\ ~(k - 1 < p) /\ (k - 1) + 1 = k
        BY <2>1, <2>2, <2>6, <3>2
      <4> QED
        BY <4>1
    <3> QED
      BY <3>1, <3>2
  <2>7. \A k \in 1..Len(q) : q[k] # s <=> k # p
    BY <2>1, <2>2
  <2> HIDE DEF w
  <2> QED
    BY <2>1, <2>3, <2>4, <2>5, <2>6, <2>7
<1>2. CASE ~ \E i \in DOMAIN q : q[i] = s
  <2>1. Without(q, s) = q /\ DOMAIN q = 1..Len(q) /\ Len(q) \in Nat
    BY <1>2 DEF Without
  <2>2. \A j \in DOMAIN q : j <= j
    BY <2>1
  <2> QED
    BY <1>2, <2>1, <2>2
<1> QED
  BY <1>1, <1>2

LEMMA ItemTyped ==
  ASSUME Ledger, NEW m \in Messages, stage[m] \notin {"none", "queued"}
  PROVE  Item(m) \in Items
<1>1. recs[m] \in 0..MaxAttempts /\ tries[m] \in 0..MaxAttempts /\ tries[m] > 0
  BY DEF Ledger, NotifyTypeOK, TriesWell
<1>2. tries[m] \in 1..MaxAttempts
  BY <1>1, NotificationsAssumption
<1> QED
  BY <1>1, <1>2 DEF Item, Items
\* The ledger, type included, is inductive.
LEMMA LedgerInit == NotifyInit => Ledger
BY NotificationsAssumption
   DEF NotifyInit, Ledger, NotifyTypeOK, TriesWell, Stages, Records, Onward

\* A step of the job of a message that keeps its records and executions.
LEMMA TriesKept ==
  ASSUME \A m \in Messages : TriesWell(m), recs' = recs, tries' = tries,
         \A m \in Messages : stage'[m] # stage[m] =>
           /\ stage'[m] # "db"
           /\ stage'[m] \in {"none", "queued"} \/ stage[m] \notin {"none", "queued"}
           /\ stage'[m] \in Onward => stage[m] \in Onward
  PROVE  \A m \in Messages : TriesWell(m)'
BY DEF TriesWell

LEMMA LedgerStep == Ledger /\ [NotifyNext]_notifyVars => Ledger'
<1> SUFFICES ASSUME Ledger, [NotifyNext]_notifyVars PROVE Ledger'
  OBVIOUS
<1> USE NotificationsAssumption
<1>0. NotifyTypeOK /\ \A m \in Messages : TriesWell(m)
  BY DEF Ledger
<1>1. ASSUME NEW m \in Messages, DeliverLater(m) PROVE Ledger'
  <2>1. NotifyTypeOK'
    BY <1>0, <1>1 DEF DeliverLater, NotifyTypeOK, Stages, emitter, table
  <2>2. \A n \in Messages : TriesWell(n)'
    BY <1>0, <1>1, TriesKept DEF DeliverLater, NotifyTypeOK, Onward, table
  <2> QED
    BY <2>1, <2>2 DEF Ledger
<1>2. ASSUME NEW m \in Messages, Execute(m) PROVE Ledger'
  <2>0. /\ tries[m] \in 0..MaxAttempts /\ tries[m] + 1 \in 0..MaxAttempts
        /\ \A n \in Messages : tries[n] \in Nat /\ recs[n] \in Nat
    BY <1>0, <1>2 DEF Execute, NotifyTypeOK
  <2>1. NotifyTypeOK'
    BY <1>0, <1>2, <2>0 DEF Execute, FirstStage, NotifyTypeOK, Stages, emitter, table
  <2>2. \A n \in Messages : TriesWell(n)'
    <3>1. /\ tries' = [tries EXCEPT ![m] = @ + 1] /\ stage' = [stage EXCEPT ![m] = "db"]
          /\ recs' = recs
      BY <1>2 DEF Execute, FirstStage, table
    <3> QED
      BY <1>0, <2>0, <3>1 DEF NotifyTypeOK, TriesWell, Onward
  <2> QED
    BY <2>1, <2>2 DEF Ledger
<1>3. ASSUME NEW m \in Messages, WriteRecord(m) PROVE Ledger'
  <2>0. /\ recs[m] + 1 \in 0..MaxAttempts /\ recs[m] < tries[m]
        /\ \A n \in Messages : tries[n] \in Nat /\ recs[n] \in Nat
    BY <1>0, <1>3 DEF WriteRecord, NotifyTypeOK, TriesWell
  <2>1. AfterFailure(m, "db", "sse") \in {"sse", "queued", "failed"}
    BY DEF AfterFailure
  <2>2. NotifyTypeOK'
    <3>1. stage' \in [Messages -> Stages]
      BY <1>0, <1>3, <2>1 DEF WriteRecord, NotifyTypeOK, Stages
    <3>2. recs' \in [Messages -> 0..MaxAttempts]
      BY <1>0, <1>3, <2>0 DEF WriteRecord, NotifyTypeOK
    <3> QED
      BY <1>0, <1>3, <3>1, <3>2 DEF WriteRecord, NotifyTypeOK, emitter
  <2>3. "db" \in Critical => AfterFailure(m, "db", "sse") # "sse"
    BY DEF AfterFailure
  <2>4. \A n \in Messages : TriesWell(n)'
    BY <1>0, <1>3, <2>0, <2>1, <2>3 DEF WriteRecord, NotifyTypeOK, TriesWell, Onward
  <2> QED
    BY <2>2, <2>4 DEF Ledger
<1>4. ASSUME NEW m \in Messages, StartPublish(m) PROVE Ledger'
  <2>1. AfterFailure(m, "sse", "push") \in {"push", "queued", "failed"}
    BY DEF AfterFailure
  <2>2. {subs[i] : i \in DOMAIN subs} \subseteq Streams
    BY <1>0 DEF NotifyTypeOK
  <2>3. NotifyTypeOK'
    <3>1. stage' \in [Messages -> Stages]
      BY <1>0, <1>4, <2>1 DEF StartPublish, NotifyTypeOK, Stages
    <3>2. audience' \in [Messages -> SUBSET Streams]
      <4>1. audience \in [Messages -> SUBSET Streams]
        BY <1>0 DEF NotifyTypeOK
      <4>2. \/ audience' = [audience EXCEPT ![m] = {subs[i] : i \in DOMAIN subs}]
            \/ audience' = audience
        BY <1>4 DEF StartPublish
      <4> QED
        BY <2>2, <4>1, <4>2
    <3>3. shaken \subseteq Messages /\ next \in [Messages -> Nat]
      BY <1>0 DEF NotifyTypeOK
    <3>4. shaken' \subseteq Messages
      BY <1>4, <3>3 DEF StartPublish
    <3>5. next' \in [Messages -> Nat]
      BY <1>4, <3>3 DEF StartPublish
    <3> QED
      BY <1>0, <1>4, <3>1, <3>2, <3>4, <3>5 DEF StartPublish, NotifyTypeOK, emitter, table
  <2>4. \A n \in Messages : TriesWell(n)'
    BY <1>0, <1>4, <2>1, TriesKept DEF StartPublish, NotifyTypeOK, Onward, table
  <2> QED
    BY <2>3, <2>4 DEF Ledger
<1>5. ASSUME NEW m \in Messages, PublishOne(m) PROVE Ledger'
  <2> DEFINE s == subs[next[m]]
  <2>1. s \in Streams /\ Item(m) \in Items
    <3>1. subs \in Seq(Streams) /\ next[m] \in DOMAIN subs /\ stage[m] = "publish"
      BY <1>0, <1>5 DEF PublishOne, NotifyTypeOK
    <3>2. s \in Streams
      BY <3>1
    <3> QED
      BY <3>1, <3>2, ItemTyped
  <2>2. inbox[s] \in Seq(Items) /\ Append(inbox[s], Item(m)) \in Seq(Items)
    <3>1. PICK q : q = inbox[s]
      OBVIOUS
    <3>2. q \in Seq(Items)
      BY <1>0, <2>1, <3>1 DEF NotifyTypeOK
    <3>3. PICK x \in Items : x = Item(m)
      BY <2>1
    <3>4. Append(q, x) \in Seq(Items)
      BY <3>2
    <3> QED
      BY <3>1, <3>2, <3>3, <3>4
  <2>3. inbox' \in [Streams -> Seq(Items)] /\ shaken' \subseteq Messages
    <3>1. PICK q \in Seq(Items) : q = Append(inbox[s], Item(m))
      BY <2>2
    <3>2. inbox' = inbox \/ inbox' = [inbox EXCEPT ![s] = q]
      BY <1>5, <3>1 DEF PublishOne
    <3>3. shaken' = shaken \/ shaken' = shaken \cup {m}
      BY <1>5 DEF PublishOne
    <3>4. inbox \in [Streams -> Seq(Items)] /\ shaken \subseteq Messages
      BY <1>0 DEF NotifyTypeOK
    <3> QED
      BY <2>1, <3>1, <3>2, <3>3, <3>4
  <2>4. next' \in [Messages -> Nat]
    BY <1>0, <1>5 DEF PublishOne, NotifyTypeOK
  <2>5. NotifyTypeOK'
    BY <1>0, <1>5, <2>3, <2>4 DEF PublishOne, NotifyTypeOK, table
  <2>6. \A n \in Messages : TriesWell(n)'
    BY <1>0, <1>5, TriesKept DEF PublishOne, table
  <2> QED
    BY <2>5, <2>6 DEF Ledger
<1>6. ASSUME NEW m \in Messages, EndPublish(m) PROVE Ledger'
  <2>1. NotifyTypeOK'
    BY <1>0, <1>6 DEF EndPublish, NotifyTypeOK, Stages, emitter, table
  <2>2. \A n \in Messages : TriesWell(n)'
    BY <1>0, <1>6, TriesKept DEF EndPublish, NotifyTypeOK, Onward, table
  <2> QED
    BY <2>1, <2>2 DEF Ledger
<1>7. ASSUME NEW m \in Messages, LoadPushes(m) PROVE Ledger'
  <2>1. NotifyTypeOK'
    BY <1>0, <1>7 DEF LoadPushes, NotifyTypeOK, Stages, emitter, table
  <2>2. \A n \in Messages : TriesWell(n)'
    BY <1>0, <1>7, TriesKept DEF LoadPushes, NotifyTypeOK, Onward, table
  <2> QED
    BY <2>1, <2>2 DEF Ledger
<1>8. ASSUME NEW m \in Messages, SendPushes(m) PROVE Ledger'
  <2>1. NotifyTypeOK'
    BY <1>0, <1>8 DEF SendPushes, NotifyTypeOK, Stages, emitter, table
  <2>2. \A n \in Messages : TriesWell(n)'
    BY <1>0, <1>8, TriesKept DEF SendPushes, NotifyTypeOK, Onward, table
  <2> QED
    BY <2>1, <2>2 DEF Ledger
<1>9. ASSUME NEW s \in Streams, Connect(s) \/ Subscribe(s) PROVE Ledger'
  <2>1. stream' \in [Streams -> {"closed", "opening", "open"}]
    BY <1>0, <1>9 DEF Connect, Subscribe, NotifyTypeOK
  <2>2. subs' \in Seq(Streams)
    <3>1. subs \in Seq(Streams) /\ Append(subs, s) \in Seq(Streams)
      BY <1>0 DEF NotifyTypeOK
    <3> QED
      BY <1>9, <3>1 DEF Connect, Subscribe, Added
  <2>3. NotifyTypeOK'
    BY <1>0, <1>9, <2>1, <2>2 DEF Connect, Subscribe, NotifyTypeOK, job, table
  <2>4. \A n \in Messages : TriesWell(n)'
    BY <1>0, <1>9, TriesKept DEF Connect, Subscribe, job, table
  <2> QED
    BY <2>3, <2>4 DEF Ledger
<1>10. ASSUME NEW s \in Streams, Receive(s) PROVE Ledger'
  <2>1. inbox[s] \in Seq(Items) /\ inbox[s] # << >>
    BY <1>0, <1>10 DEF Receive, NotifyTypeOK
  <2>2. Head(inbox[s]) \in Items /\ Tail(inbox[s]) \in Seq(Items)
    BY <2>1
  <2>3. inbox' \in [Streams -> Seq(Items)] /\ got' \in [Streams -> SUBSET Items]
    BY <1>0, <1>10, <2>2 DEF Receive, NotifyTypeOK
  <2>4. NotifyTypeOK'
    BY <1>0, <1>10, <2>3 DEF Receive, NotifyTypeOK, job, table
  <2>5. \A n \in Messages : TriesWell(n)'
    BY <1>0, <1>10, TriesKept DEF Receive, job, table
  <2> QED
    BY <2>4, <2>5 DEF Ledger
<1>11. ASSUME NEW s \in Streams, Disconnect(s) PROVE Ledger'
  <2>1. subs' \in Seq(Streams)
    BY <1>0, <1>11, WithoutIsSeq DEF Disconnect, NotifyTypeOK
  <2>2. shaken' \subseteq Messages
    BY <1>0, <1>11 DEF Disconnect, NotifyTypeOK, Publishing
  <2>3. next' \in [Messages -> Nat]
    <3>1. Len(subs) + 1 \in Nat
      BY <1>0 DEF NotifyTypeOK
    <3> QED
      BY <1>0, <1>11, <3>1 DEF Disconnect, NotifyTypeOK
  <2>4. NotifyTypeOK'
    BY <1>0, <1>11, <2>1, <2>2, <2>3 DEF Disconnect, NotifyTypeOK, table
  <2>5. \A n \in Messages : TriesWell(n)'
    BY <1>0, <1>11, TriesKept DEF Disconnect, table
  <2> QED
    BY <2>4, <2>5 DEF Ledger
<1>12. CASE \E x \in Records : MarkRead(x) \/ Archive(x)
  <2>1. readRecs' \subseteq Records /\ hidden' \subseteq Records
    BY <1>0, <1>12 DEF MarkRead, Archive, NotifyTypeOK
  <2>2. /\ UNCHANGED <<commits, stage, tries, recs, next, audience, shaken, pushing>>
        /\ UNCHANGED <<subs, stream, inbox, got, pushes, gone, marking>>
    BY <1>12 DEF MarkRead, Archive, job, emitter
  <2> QED
    BY <1>0, <2>1, <2>2 DEF Ledger, TriesWell, NotifyTypeOK
<1>13. CASE \E r \in Requests : LoadUnread(r) \/ MarkAllRead(r)
  <2>1. readRecs' \subseteq Records /\ marking' \in [Requests -> SUBSET Records]
    BY <1>0, <1>13 DEF LoadUnread, MarkAllRead, Stored, NotifyTypeOK, table
  <2>2. /\ UNCHANGED <<commits, stage, tries, recs, next, audience, shaken, pushing>>
        /\ UNCHANGED <<subs, stream, inbox, got, pushes, gone, hidden>>
    BY <1>13 DEF LoadUnread, MarkAllRead, job, emitter, table
  <2> QED
    BY <1>0, <2>1, <2>2 DEF Ledger, TriesWell, NotifyTypeOK
<1>14. CASE \E e \in Endpoints : RegisterPush(e) \/ UnregisterPush(e) \/ EndpointGone(e)
  BY <1>0, <1>14 DEF Ledger, TriesWell, RegisterPush, UnregisterPush, EndpointGone,
                     NotifyTypeOK, job, emitter, table
<1>15. CASE UNCHANGED notifyVars
  BY <1>0, <1>15 DEF Ledger, TriesWell, NotifyTypeOK, notifyVars, job, emitter, table
<1> QED
  BY <1>1, <1>2, <1>3, <1>4, <1>5, <1>6, <1>7, <1>8, <1>9, <1>10, <1>11, <1>12, <1>13,
     <1>14, <1>15 DEF NotifyNext

\* The variables have their types: a job never writes more records than it had
\* executions, and no execution is beyond max_attempts.
THEOREM NotifyTypeCorrect == NotifySpec => []NotifyTypeOK
<1>1. Ledger => NotifyTypeOK
  BY DEF Ledger
<1> QED
  BY <1>1, LedgerInit, LedgerStep, PTL DEF NotifySpec
-----------------------------------------------------------------------------
\* An item of a stream is typed.
LEMMA InStreamTyped ==
  ASSUME NotifyTypeOK, NEW s \in Streams
  PROVE  InStream(s) \subseteq Items
<1>1. inbox[s] \in Seq(Items) /\ got[s] \subseteq Items
  BY DEF NotifyTypeOK
<1>2. \A i \in DOMAIN inbox[s] : inbox[s][i] \in Items
  BY <1>1
<1> QED
  BY <1>1, <1>2 DEF InStream

\* What holds of an item goes on holding while the table and the jobs move on.
LEMMA ItemKept ==
  ASSUME Ledger, [NotifyNext]_notifyVars, NEW x \in Items, ItemWell(x)
  PROVE  ItemWell(x)'
<1> DEFINE m == x.msg
<1>0. /\ m \in Messages /\ x.rec \in Nat /\ x.try \in Nat
      /\ \A n \in Messages : recs[n] \in Nat /\ tries[n] \in Nat
      /\ stage \in [Messages -> Stages] /\ recs \in [Messages -> 0..MaxAttempts]
      /\ tries \in [Messages -> 0..MaxAttempts]
  BY NotificationsAssumption DEF Items, Ledger, NotifyTypeOK
<1>1. ASSUME recs' = recs, tries' = tries,
             stage'[m] # stage[m] => stage[m] \notin Late \/ stage'[m] \in Late
      PROVE  ItemWell(x)'
  BY <1>1 DEF ItemWell
<1>2. ASSUME NEW n \in Messages, DeliverLater(n) \/ StartPublish(n) \/ EndPublish(n)
                                 \/ LoadPushes(n) \/ SendPushes(n)
      PROVE  ItemWell(x)'
  <2>1. recs' = recs /\ tries' = tries
    BY <1>2 DEF DeliverLater, StartPublish, EndPublish, LoadPushes, SendPushes, table
  <2>2. stage'[m] # stage[m] => stage[m] \notin Late \/ stage'[m] \in Late
    BY <1>0, <1>2 DEF DeliverLater, StartPublish, EndPublish, LoadPushes, SendPushes, Late
  <2> QED
    BY <1>1, <2>1, <2>2
<1>3. ASSUME NEW n \in Messages, Execute(n) PROVE ItemWell(x)'
  <2>1. /\ recs' = recs /\ tries' = [tries EXCEPT ![n] = @ + 1]
        /\ stage' = [stage EXCEPT ![n] = "db"]
    BY <1>3 DEF Execute, FirstStage, table
  <2>2. CASE m = n
    BY <1>0, <2>1, <2>2 DEF ItemWell
  <2>3. CASE m # n
    BY <1>0, <2>1, <2>3 DEF ItemWell
  <2> QED
    BY <2>2, <2>3
<1>4. ASSUME NEW n \in Messages, WriteRecord(n) PROVE ItemWell(x)'
  <2>1. /\ tries' = tries /\ recs'[m] \in {recs[m], recs[m] + 1}
        /\ stage'[m] # stage[m] => stage[m] \notin Late
    BY <1>0, <1>4 DEF WriteRecord, Late
  <2> QED
    BY <1>0, <2>1 DEF ItemWell
<1>5. ASSUME NEW n \in Messages, PublishOne(n) PROVE ItemWell(x)'
  BY <1>1, <1>5 DEF PublishOne, table
<1>6. CASE \E s \in Streams : Connect(s) \/ Subscribe(s) \/ Receive(s) \/ Disconnect(s)
  BY <1>1, <1>6 DEF Connect, Subscribe, Receive, Disconnect, job, table
<1>7. CASE \E y \in Records : MarkRead(y) \/ Archive(y)
  BY <1>1, <1>7 DEF MarkRead, Archive, job
<1>8. CASE \E r \in Requests : LoadUnread(r) \/ MarkAllRead(r)
  BY <1>1, <1>8 DEF LoadUnread, MarkAllRead, job, table
<1>9. CASE \E e \in Endpoints : RegisterPush(e) \/ UnregisterPush(e) \/ EndpointGone(e)
  BY <1>1, <1>9 DEF RegisterPush, UnregisterPush, EndpointGone, job, table
<1>10. CASE UNCHANGED notifyVars
  BY <1>1, <1>10 DEF notifyVars, job, table
<1> QED
  BY <1>2, <1>3, <1>4, <1>5, <1>6, <1>7, <1>8, <1>9, <1>10 DEF NotifyNext

\* A step that leaves the emitter and its streams alone.
DeliveryAside ==
  /\ UNCHANGED emitter
  /\ \A m \in Messages : stage'[m] = "publish" =>
       /\ stage[m] = "publish"
       /\ UNCHANGED <<recs[m], tries[m], next[m]>>
       /\ m \in shaken => m \in shaken'

LEMMA AsideKeepsDelivery ==
  ASSUME Ledger, DeliveryInv, [NotifyNext]_notifyVars, DeliveryAside
  PROVE  DeliveryInv'
<1>1. emitter' = emitter
  BY DEF DeliveryAside
<1>2. ListWell'
  BY <1>1 DEF DeliveryInv, ListWell, emitter
<1>3. \A s \in Streams : InStream(s)' = InStream(s)
  BY <1>1 DEF InStream, emitter
<1>4. ASSUME NEW s \in Streams PROVE InboxWell(s)'
  <2>1. InboxWell(s) /\ InStream(s) \subseteq Items
    BY InStreamTyped DEF DeliveryInv, Ledger
  <2>2. \A x \in InStream(s)' : ItemWell(x)'
    BY <1>3, <2>1, ItemKept DEF InboxWell
  <2> QED
    BY <1>1, <2>1, <2>2 DEF InboxWell, emitter
<1>5. ASSUME NEW m \in Messages, stage'[m] = "publish" PROVE PublishWell(m)'
  <2>1. /\ PublishWell(m) /\ stage[m] = "publish" /\ next'[m] = next[m]
        /\ m \in shaken => m \in shaken'
    BY <1>5 DEF DeliveryInv, DeliveryAside
  <2>2. Item(m)' = Item(m)
    BY <1>5 DEF Item, DeliveryAside
  <2>3. subs' = subs /\ \A i \in DOMAIN subs : InStream(subs[i])' = InStream(subs[i])
    BY <1>1 DEF emitter, InStream
  <2> QED
    BY <2>1, <2>2, <2>3 DEF PublishWell
<1>6. \A m \in Messages : PublishWell(m)'
  BY <1>5 DEF PublishWell
<1> QED
  BY <1>2, <1>4, <1>6 DEF DeliveryInv
\* publish begins: no stream has the item of this execution yet.
LEMMA DeliveryStarts ==
  ASSUME Ledger, DeliveryInv, [NotifyNext]_notifyVars, NEW n \in Messages, StartPublish(n)
  PROVE  DeliveryInv'
<1>1. emitter' = emitter /\ recs' = recs /\ tries' = tries /\ stage[n] = "sse"
  BY DEF StartPublish, table
<1>2. ListWell'
  BY <1>1 DEF DeliveryInv, ListWell, emitter
<1>3. \A s \in Streams : InStream(s)' = InStream(s)
  BY <1>1 DEF InStream, emitter
<1>4. ASSUME NEW s \in Streams PROVE InboxWell(s)'
  <2>1. InboxWell(s) /\ InStream(s) \subseteq Items
    BY InStreamTyped DEF DeliveryInv, Ledger
  <2>2. \A x \in InStream(s)' : ItemWell(x)'
    BY <1>3, <2>1, ItemKept DEF InboxWell
  <2> QED
    BY <1>1, <2>1, <2>2 DEF InboxWell, emitter
<1>5. \A i \in DOMAIN subs : subs[i] \in Streams
  BY DEF Ledger, NotifyTypeOK
<1>6. subs' = subs /\ \A i \in DOMAIN subs : InStream(subs[i])' = InStream(subs[i])
  BY <1>1 DEF emitter, InStream
<1>7. \A m \in Messages : Item(m)' = Item(m)
  BY <1>1 DEF Item
<1>8. ASSUME NEW m \in Messages, m # n PROVE PublishWell(m)'
  <2>1. PublishWell(m) /\ stage'[m] = stage[m] /\ next'[m] = next[m]
        /\ (m \in shaken => m \in shaken')
    BY <1>8 DEF DeliveryInv, StartPublish, Ledger, NotifyTypeOK
  <2> QED
    BY <1>6, <1>7, <2>1 DEF PublishWell
<1>9. ASSUME stage'[n] = "publish" PROVE PublishWell(n)'
  <2>1. next'[n] = 1
    <3>1. AfterFailure(n, "sse", "push") # "publish"
      BY DEF AfterFailure
    <3> QED
      BY <1>9, <3>1 DEF StartPublish, Ledger, NotifyTypeOK
  <2>2. \A s \in Streams : Item(n) \notin InStream(s)
    <3> SUFFICES ASSUME NEW s \in Streams, Item(n) \in InStream(s) PROVE FALSE
      OBVIOUS
    <3>1. ItemWell(Item(n))
      BY DEF DeliveryInv, InboxWell
    <3>2. tries[n] < tries[n]
      BY <1>1, <3>1 DEF ItemWell, Item, Late
    <3> QED
      BY <3>2 DEF Ledger, NotifyTypeOK
  <2>3. Len(subs) \in Nat /\ DOMAIN subs = 1..Len(subs)
    BY DEF Ledger, NotifyTypeOK
  <2> QED
    BY <1>5, <1>6, <1>7, <2>1, <2>2, <2>3 DEF PublishWell
<1>10. \A m \in Messages : PublishWell(m)'
  BY <1>8, <1>9 DEF PublishWell
<1> QED
  BY <1>2, <1>4, <1>10 DEF DeliveryInv

\* One round of publish: the subscriber gets the item, which it did not have.
LEMMA DeliveryPublishes ==
  ASSUME Ledger, DeliveryInv, [NotifyNext]_notifyVars, NEW n \in Messages, PublishOne(n)
  PROVE  DeliveryInv'
<1>0. /\ subs \in Seq(Streams) /\ stage[n] = "publish"
      /\ next[n] \in DOMAIN subs /\ subs[next[n]] \in Streams
  BY DEF PublishOne, Ledger, NotifyTypeOK
<1>a. PICK k : k = next[n]
  OBVIOUS
<1>b. PICK s \in Streams : s = subs[k]
  BY <1>0, <1>a
<1>c. PICK x \in Items : x = Item(n)
  BY <1>0, ItemTyped
<1>1. /\ stage' = stage /\ recs' = recs /\ tries' = tries /\ subs' = subs
      /\ stream' = stream /\ got' = got /\ stage[n] = "publish" /\ k \in DOMAIN subs
      /\ next' = [next EXCEPT ![n] = @ + 1]
  BY <1>0, <1>a DEF PublishOne, table
<1>2. /\ subs \in Seq(Streams) /\ DOMAIN subs = 1..Len(subs) /\ Len(subs) \in Nat
      /\ s \in Streams /\ inbox \in [Streams -> Seq(Items)] /\ inbox[s] \in Seq(Items)
      /\ next \in [Messages -> Nat] /\ k \in Nat
  BY <1>0, <1>1, <1>a DEF Ledger, NotifyTypeOK
<1>3. \A m \in Messages : Item(m)' = Item(m)
  BY <1>1 DEF Item
<1>4. \A m \in Messages : Item(m) = x => m = n
  BY <1>c DEF Item
<1>5. x \notin InStream(s) /\ ItemWell(x)
  <2>1. x \notin InStream(s)
    BY <1>1, <1>2, <1>a, <1>b, <1>c DEF DeliveryInv, PublishWell
  <2>2. TriesWell(n) /\ stage[n] \in Onward /\ stage[n] \in Late
    BY <1>1 DEF Ledger, Onward, Late
  <2>3. recs[n] \in Nat /\ tries[n] \in Nat
    BY DEF Ledger, NotifyTypeOK
  <2>4. ItemWell(x)
    BY <1>c, <2>2, <2>3 DEF ItemWell, Item, TriesWell
  <2> QED
    BY <2>1, <2>4
<1>6. stream[s] = "open"
  BY <1>1, <1>2, <1>b DEF DeliveryInv, ListWell
<1>7. \A u \in Streams : u # s => inbox'[u] = inbox[u] /\ InStream(u)' = InStream(u)
  <2>1. \A u \in Streams : u # s => inbox'[u] = inbox[u]
    BY <1>2, <1>a, <1>b DEF PublishOne
  <2> QED
    BY <1>1, <2>1 DEF InStream
<1>8. CASE inbox' = [inbox EXCEPT ![s] = Append(@, x)] /\ shaken' = shaken
  <2>1. inbox'[s] = Append(inbox[s], x)
    BY <1>2, <1>8
  <2>2. /\ DOMAIN inbox'[s] = 1..(Len(inbox[s]) + 1) /\ DOMAIN inbox[s] = 1..Len(inbox[s])
        /\ Len(inbox[s]) \in Nat
        /\ \A i \in 1..Len(inbox[s]) : inbox'[s][i] = inbox[s][i]
        /\ inbox'[s][Len(inbox[s]) + 1] = x
    <3>1. PICK q \in Seq(Items) : q = inbox[s]
      BY <1>2
    <3>2. PICK z : z = Append(q, x)
      OBVIOUS
    <3>3. inbox'[s] = z
      BY <2>1, <3>1, <3>2
    <3>4. Len(q) \in Nat /\ DOMAIN q = 1..Len(q)
      BY <3>1
    <3>5. DOMAIN z = 1..(Len(q) + 1)
      BY <3>1, <3>2
    <3>6. \A i \in 1..Len(q) : z[i] = q[i]
      BY <3>1, <3>2, <3>4
    <3>7. z[Len(q) + 1] = x
      BY <3>1, <3>2, <3>4
    <3> QED
      BY <3>1, <3>3, <3>4, <3>5, <3>6, <3>7
  <2>3. InStream(s)' = InStream(s) \cup {x}
    <3> DEFINE L == Len(inbox[s])
    <3>1. {inbox'[s][i] : i \in 1..(L + 1)} = {inbox[s][i] : i \in 1..L} \cup {x}
      <4>1. 1..(L + 1) = (1..L) \cup {L + 1}
        BY <2>2
      <4> HIDE DEF L
      <4>2. /\ \A i \in 1..L : inbox'[s][i] = inbox[s][i]
            /\ inbox'[s][L + 1] = x
        BY <2>2 DEF L
      <4> QED
        BY <4>1, <4>2
    <3> HIDE DEF L
    <3>2. DOMAIN inbox'[s] = 1..(L + 1) /\ DOMAIN inbox[s] = 1..L
      BY <2>2 DEF L
    <3> QED
      BY <1>1, <3>1, <3>2 DEF InStream
  <2>4. ListWell'
    <3>1. \A u \in Streams : stream[u] # "open" => inbox'[u] = << >>
      BY <1>6, <1>7 DEF DeliveryInv, ListWell
    <3> QED
      BY <1>1, <3>1 DEF DeliveryInv, ListWell
  <2>5. InboxWell(s)'
    <3>1. \A i \in 1..Len(inbox[s]) : inbox[s][i] # x /\ inbox[s][i] \notin got[s]
      BY <1>5, <2>2, <1>2 DEF InStream, DeliveryInv, InboxWell
    <3>2. x \notin got[s]
      BY <1>5 DEF InStream
    <3>3. \A i, j \in 1..Len(inbox[s]) : inbox[s][i] = inbox[s][j] => i = j
      BY <1>2, <2>2 DEF DeliveryInv, InboxWell
    <3>4. \A i, j \in DOMAIN inbox'[s] : inbox'[s][i] = inbox'[s][j] => i = j
      <4> SUFFICES ASSUME NEW i \in 1..(Len(inbox[s]) + 1), NEW j \in 1..(Len(inbox[s]) + 1),
                          inbox'[s][i] = inbox'[s][j]
                   PROVE  i = j
        BY <2>2
      <4>1. CASE i \in 1..Len(inbox[s]) /\ j \in 1..Len(inbox[s])
        BY <2>2, <3>3, <4>1
      <4>2. CASE i = Len(inbox[s]) + 1 \/ j = Len(inbox[s]) + 1
        <5>1. \A h \in 1..(Len(inbox[s]) + 1) : inbox'[s][h] = x => h = Len(inbox[s]) + 1
          BY <2>2, <3>1
        <5> QED
          BY <2>2, <4>2, <5>1
      <4> QED
        BY <2>2, <4>1, <4>2
    <3>5. \A i \in DOMAIN inbox'[s] : inbox'[s][i] \notin got'[s]
      BY <1>1, <2>2, <3>1, <3>2
    <3>6. \A y \in InStream(s)' : ItemWell(y)'
      <4>1. \A y \in InStream(s) : y \in Items /\ ItemWell(y)
        BY <1>2, InStreamTyped DEF DeliveryInv, InboxWell, Ledger
      <4> QED
        BY <1>5, <2>3, <4>1, ItemKept
    <3> QED
      BY <3>4, <3>5, <3>6 DEF InboxWell
  <2>6. ASSUME NEW u \in Streams, u # s PROVE InboxWell(u)'
    <3>1. InboxWell(u) /\ InStream(u) \subseteq Items
      BY InStreamTyped DEF DeliveryInv, Ledger
    <3>2. \A y \in InStream(u)' : ItemWell(y)'
      BY <1>7, <2>6, <3>1, ItemKept DEF InboxWell
    <3> QED
      BY <1>1, <1>7, <2>6, <3>1, <3>2 DEF InboxWell
  <2>7. ASSUME NEW m \in Messages, m # n, stage[m] = "publish" PROVE PublishWell(m)'
    <3>1. PublishWell(m) /\ next'[m] = next[m] /\ Item(m) # x
      BY <1>1, <1>2, <1>4, <2>7 DEF DeliveryInv
    <3>2. \A i \in DOMAIN subs : Item(m) \in InStream(subs[i])' <=> Item(m) \in InStream(subs[i])
      <4> SUFFICES ASSUME NEW i \in DOMAIN subs
                   PROVE  Item(m) \in InStream(subs[i])' <=> Item(m) \in InStream(subs[i])
        OBVIOUS
      <4>1. CASE subs[i] = s
        <5>1. InStream(subs[i])' = InStream(s)' /\ InStream(subs[i]) = InStream(s)
          BY <1>1, <4>1
        <5> QED
          BY <2>3, <3>1, <5>1
      <4>2. CASE subs[i] # s
        BY <1>1, <1>2, <1>7, <4>2
      <4> QED
        BY <4>1, <4>2
    <3> QED
      BY <1>1, <1>3, <1>8, <2>7, <3>1, <3>2 DEF PublishWell
  <2>8. PublishWell(n)'
    <3>1. PublishWell(n) /\ next'[n] = k + 1 /\ next[n] = k /\ Item(n) = x
      BY <1>1, <1>2, <1>a, <1>c DEF DeliveryInv
    <3>2. \A i \in DOMAIN subs : i # k => subs[i] # s /\ subs[i] \in Streams
      BY <1>1, <1>2, <1>b DEF DeliveryInv, ListWell
    <3>3. \A i \in DOMAIN subs : i # k => (x \in InStream(subs[i])' <=> x \in InStream(subs[i]))
      BY <1>1, <1>7, <3>2
    <3>4. x \in InStream(subs[k])'
      BY <1>1, <1>b, <2>3
    <3>5. k >= 1 /\ k <= Len(subs)
      BY <1>1, <1>2
    <3>6. \A i \in DOMAIN subs : k + 1 <= i => x \notin InStream(subs[i])'
      <4> SUFFICES ASSUME NEW i \in DOMAIN subs, k + 1 <= i PROVE x \notin InStream(subs[i])'
        OBVIOUS
      <4>1. i # k /\ k <= i
        BY <1>2
      <4>2. x \notin InStream(subs[i])
        BY <1>1, <3>1, <4>1 DEF PublishWell
      <4> QED
        BY <3>3, <4>1, <4>2
    <3>7. n \notin shaken => \A i \in DOMAIN subs : i < k + 1 => x \in InStream(subs[i])'
      <4> SUFFICES ASSUME n \notin shaken, NEW i \in DOMAIN subs, i < k + 1
                   PROVE  x \in InStream(subs[i])'
        OBVIOUS
      <4>1. CASE i = k
        BY <3>4, <4>1
      <4>2. CASE i # k
        <5>1. i < k
          BY <1>2, <4>2
        <5>2. x \in InStream(subs[i])
          BY <1>1, <3>1, <5>1 DEF PublishWell
        <5> QED
          BY <3>3, <4>2, <5>2
      <4> QED
        BY <4>1, <4>2
    <3> QED
      BY <1>1, <1>2, <1>3, <1>8, <3>1, <3>5, <3>6, <3>7 DEF PublishWell
  <2> QED
    BY <1>1, <2>4, <2>5, <2>6, <2>7, <2>8 DEF DeliveryInv, PublishWell
<1>9. CASE inbox' = inbox /\ shaken' = shaken \cup {n}
  <2>1. \A u \in Streams : InStream(u)' = InStream(u)
    BY <1>1, <1>9 DEF InStream
  <2>2. ListWell'
    BY <1>1, <1>9 DEF DeliveryInv, ListWell
  <2>3. ASSUME NEW u \in Streams PROVE InboxWell(u)'
    <3>1. InboxWell(u) /\ InStream(u) \subseteq Items
      BY InStreamTyped DEF DeliveryInv, Ledger
    <3>2. \A y \in InStream(u)' : ItemWell(y)'
      BY <2>1, <3>1, ItemKept DEF InboxWell
    <3> QED
      BY <1>1, <1>9, <3>1, <3>2 DEF InboxWell
  <2>4. \A i \in DOMAIN subs : subs[i] \in Streams /\ InStream(subs[i])' = InStream(subs[i])
    BY <1>1, <1>2, <2>1
  <2>5. ASSUME NEW m \in Messages, stage[m] = "publish" PROVE PublishWell(m)'
    <3>1. PublishWell(m) /\ next[m] \in Nat
      BY <1>2 DEF DeliveryInv
    <3>2. CASE m = n
      <4>1. next'[m] = next[m] + 1 /\ m \in shaken'
        BY <1>1, <1>2, <1>9, <3>2
      <4>2. \A i \in DOMAIN subs : next[m] + 1 <= i => next[m] <= i
        BY <1>2, <3>1
      <4> QED
        BY <1>1, <1>3, <2>4, <2>5, <3>1, <4>1, <4>2 DEF PublishWell
    <3>3. CASE m # n
      <4>1. next'[m] = next[m]
        BY <1>1, <1>2, <3>3
      <4> QED
        BY <1>1, <1>3, <1>9, <2>4, <2>5, <3>1, <3>3, <4>1 DEF PublishWell
    <3> QED
      BY <3>2, <3>3
  <2> QED
    BY <1>1, <2>2, <2>3, <2>5 DEF DeliveryInv, PublishWell
<1> QED
  BY <1>8, <1>9, <1>a, <1>b, <1>c DEF PublishOne
\* Steps of the event loop: nothing of the jobs or the table but shaken and next.
LEMMA InboxSettles ==
  ASSUME Ledger, DeliveryInv, [NotifyNext]_notifyVars, NEW u \in Streams,
         inbox'[u] = inbox[u] /\ got'[u] = got[u]
  PROVE  InboxWell(u)' /\ InStream(u)' = InStream(u)
<1>1. InboxWell(u) /\ InStream(u) \subseteq Items
  BY InStreamTyped DEF DeliveryInv, Ledger
<1>2. InStream(u)' = InStream(u)
  BY DEF InStream
<1>3. \A y \in InStream(u)' : ItemWell(y)'
  BY <1>1, <1>2, ItemKept DEF InboxWell
<1> QED
  BY <1>1, <1>2, <1>3 DEF InboxWell

LEMMA DeliveryConnects ==
  ASSUME Ledger, DeliveryInv, [NotifyNext]_notifyVars, NEW s \in Streams, Connect(s)
  PROVE  DeliveryInv'
<1>1. /\ subs' = subs /\ inbox' = inbox /\ got' = got /\ UNCHANGED job /\ recs' = recs
      /\ stream[s] = "closed" /\ got[s] = {} /\ stream' = [stream EXCEPT ![s] = "opening"]
  BY DEF Connect, table
<1>2. stream'[s] = "opening" /\ \A u \in Streams : u # s => stream'[u] = stream[u]
  BY <1>1 DEF Ledger, NotifyTypeOK
<1>3. ListWell'
  BY <1>1, <1>2 DEF DeliveryInv, ListWell
<1>4. \A u \in Streams : InboxWell(u)'
  BY <1>1, InboxSettles
<1>5. ASSUME NEW m \in Messages PROVE PublishWell(m)'
  <2>1. PublishWell(m) /\ Item(m)' = Item(m)
    BY <1>1 DEF DeliveryInv, Item, job
  <2>2. \A i \in DOMAIN subs : InStream(subs[i])' = InStream(subs[i])
    BY <1>1 DEF InStream
  <2> QED
    BY <1>1, <2>1, <2>2 DEF PublishWell, job
<1> QED
  BY <1>3, <1>4, <1>5 DEF DeliveryInv

\* A new subscriber comes last, and has nothing.
LEMMA DeliverySubscribes ==
  ASSUME Ledger, DeliveryInv, [NotifyNext]_notifyVars, NEW s \in Streams, Subscribe(s)
  PROVE  DeliveryInv'
<1>1. /\ subs' = Append(subs, s) /\ inbox' = inbox /\ got' = got /\ UNCHANGED job
      /\ recs' = recs /\ stream[s] = "opening" /\ stream' = [stream EXCEPT ![s] = "open"]
  BY DEF Subscribe, Added, table
<1>2. stream'[s] = "open" /\ \A u \in Streams : u # s => stream'[u] = stream[u]
  BY <1>1 DEF Ledger, NotifyTypeOK
<1>3. /\ Len(subs) \in Nat /\ DOMAIN subs = 1..Len(subs) /\ Len(subs') = Len(subs) + 1
      /\ DOMAIN subs' = 1..(Len(subs) + 1)
      /\ \A i \in 1..Len(subs) : subs'[i] = subs[i] /\ subs[i] \in Streams
      /\ subs'[Len(subs) + 1] = s
  BY <1>1 DEF Ledger, NotifyTypeOK
<1>4. \A i \in 1..Len(subs) : subs[i] # s
  BY <1>1, <1>3 DEF DeliveryInv, ListWell
<1>5. InStream(s) = {}
  BY <1>1 DEF DeliveryInv, ListWell, InStream
<1>6. \A u \in Streams : InboxWell(u)' /\ InStream(u)' = InStream(u)
  BY <1>1, InboxSettles
<1>7. ListWell'
  <2>1. \A i, j \in DOMAIN subs' : subs'[i] = subs'[j] => i = j
    <3> SUFFICES ASSUME NEW i \in 1..(Len(subs) + 1), NEW j \in 1..(Len(subs) + 1),
                        subs'[i] = subs'[j]
                 PROVE  i = j
      BY <1>3
    <3>1. CASE i \in 1..Len(subs) /\ j \in 1..Len(subs)
      BY <1>3, <3>1 DEF DeliveryInv, ListWell
    <3>2. CASE i = Len(subs) + 1 \/ j = Len(subs) + 1
      BY <1>3, <1>4, <3>2
    <3> QED
      BY <1>3, <3>1, <3>2
  <2>2. ASSUME NEW u \in Streams
        PROVE  stream'[u] = "open" <=> \E i \in DOMAIN subs' : subs'[i] = u
    <3>1. CASE u = s
      <4>1. Len(subs) + 1 \in DOMAIN subs'
        BY <1>3
      <4> QED
        BY <1>2, <1>3, <3>1, <4>1
    <3>2. CASE u # s
      <4>1. stream'[u] = stream[u]
        BY <1>2, <3>2
      <4>2. stream[u] = "open" <=> \E i \in DOMAIN subs : subs[i] = u
        BY DEF DeliveryInv, ListWell
      <4>3. (\E i \in DOMAIN subs' : subs'[i] = u) <=> \E i \in DOMAIN subs : subs[i] = u
        BY <1>3, <3>2
      <4> QED
        BY <4>1, <4>2, <4>3
    <3> QED
      BY <3>1, <3>2
  <2> QED
    BY <1>1, <1>2, <2>1, <2>2 DEF DeliveryInv, ListWell
<1>8. ASSUME NEW m \in Messages, stage[m] = "publish" PROVE PublishWell(m)'
  <2>1. /\ PublishWell(m) /\ Item(m)' = Item(m) /\ next'[m] = next[m] /\ shaken' = shaken
        /\ next[m] \in Nat /\ stage'[m] = stage[m]
    BY <1>1 DEF DeliveryInv, Item, job, Ledger, NotifyTypeOK
  <2>2. \A i \in 1..Len(subs) : Item(m) \in InStream(subs[i])' <=> Item(m) \in InStream(subs[i])
    <3> SUFFICES ASSUME NEW i \in 1..Len(subs)
                 PROVE  Item(m) \in InStream(subs[i])' <=> Item(m) \in InStream(subs[i])
      OBVIOUS
    <3>1. PICK u \in Streams : u = subs[i] /\ u = subs'[i]
      BY <1>3
    <3>2. InStream(subs[i])' = InStream(u)' /\ InStream(subs[i]) = InStream(u)
      BY <3>1
    <3> QED
      BY <1>6, <3>2
  <2>3. \A i \in DOMAIN subs' : i \notin 1..Len(subs) => Item(m) \notin InStream(subs[i])'
    <3> SUFFICES ASSUME NEW i \in DOMAIN subs', i \notin 1..Len(subs)
                 PROVE  Item(m) \notin InStream(subs[i])'
      OBVIOUS
    <3>1. subs'[i] = s
      BY <1>3
    <3>2. InStream(subs[i])' = InStream(s)'
      BY <3>1
    <3> QED
      BY <1>5, <1>6, <3>2
  <2>4. /\ next[m] > 0
        /\ \A i \in 1..Len(subs) : next[m] <= i => Item(m) \notin InStream(subs[i])
        /\ m \notin shaken => /\ next[m] <= Len(subs) + 1
                              /\ \A i \in 1..Len(subs) : i < next[m] => Item(m) \in InStream(subs[i])
    BY <1>3, <1>8, <2>1 DEF PublishWell
  <2>5. \A i \in DOMAIN subs' : next[m] <= i => Item(m) \notin InStream(subs[i])'
    BY <1>3, <2>2, <2>3, <2>4
  <2>6. m \notin shaken => \A i \in DOMAIN subs' : i < next[m] => Item(m) \in InStream(subs[i])'
    <3> SUFFICES ASSUME m \notin shaken, NEW i \in DOMAIN subs', i < next[m]
                 PROVE  Item(m) \in InStream(subs[i])'
      OBVIOUS
    <3>1. i \in 1..Len(subs)
      BY <1>3, <2>1, <2>4
    <3> QED
      BY <2>2, <2>4, <3>1
  <2>7. m \notin shaken => next[m] <= Len(subs') + 1
    BY <1>3, <2>1, <2>4
  <2> QED
    BY <2>1, <2>4, <2>5, <2>6, <2>7 DEF PublishWell
<1> QED
  BY <1>1, <1>6, <1>7, <1>8 DEF DeliveryInv, PublishWell, job

LEMMA TailShifts ==
  ASSUME NEW q \in Seq(Items), q # << >>
  PROVE  /\ Len(q) \in Nat \ {0} /\ DOMAIN q = 1..Len(q)
         /\ DOMAIN Tail(q) = 1..(Len(q) - 1)
         /\ \A i \in 1..(Len(q) - 1) : Tail(q)[i] = q[i + 1]
         /\ Head(q) = q[1]
OBVIOUS

\* What a stream receives it had in its queue.
LEMMA DeliveryReceives ==
  ASSUME Ledger, DeliveryInv, [NotifyNext]_notifyVars, NEW s \in Streams, Receive(s)
  PROVE  DeliveryInv'
<1>1. /\ subs' = subs /\ stream' = stream /\ UNCHANGED job /\ recs' = recs
      /\ stream[s] = "open" /\ inbox[s] # << >>
      /\ got' = [got EXCEPT ![s] = @ \cup {Head(inbox[s])}]
      /\ inbox' = [inbox EXCEPT ![s] = Tail(@)]
  BY DEF Receive, table
<1>2. inbox[s] \in Seq(Items) /\ got[s] \subseteq Items
  BY DEF Ledger, NotifyTypeOK
<1>3. inbox'[s] = Tail(inbox[s]) /\ got'[s] = got[s] \cup {Head(inbox[s])}
  BY <1>1 DEF Ledger, NotifyTypeOK
<1>4. \A u \in Streams : u # s => inbox'[u] = inbox[u] /\ got'[u] = got[u]
  BY <1>1 DEF Ledger, NotifyTypeOK
<1>5. /\ Len(inbox[s]) \in Nat \ {0} /\ DOMAIN inbox[s] = 1..Len(inbox[s])
      /\ DOMAIN inbox'[s] = 1..(Len(inbox[s]) - 1)
      /\ \A i \in 1..(Len(inbox[s]) - 1) : inbox'[s][i] = inbox[s][i + 1]
      /\ Head(inbox[s]) = inbox[s][1]
  BY <1>1, <1>2, <1>3, TailShifts
<1>6. InStream(s)' = InStream(s)
  <2>1. \A i \in 1..Len(inbox[s]) : i = 1 \/ (i - 1 \in 1..(Len(inbox[s]) - 1) /\ (i - 1) + 1 = i)
    BY <1>5
  <2>2. \A i \in 1..(Len(inbox[s]) - 1) : i + 1 \in 1..Len(inbox[s])
    BY <1>5
  <2>3. 1 \in 1..Len(inbox[s])
    BY <1>5
  <2>4. {inbox[s][i] : i \in DOMAIN inbox[s]}
          = {inbox[s][1]} \cup {inbox'[s][i] : i \in DOMAIN inbox'[s]}
    <3>1. ASSUME NEW i \in DOMAIN inbox[s], i # 1
          PROVE  \E j \in DOMAIN inbox'[s] : inbox[s][i] = inbox'[s][j]
      BY <1>5, <2>1, <3>1
    <3>2. ASSUME NEW j \in DOMAIN inbox'[s]
          PROVE  \E i \in DOMAIN inbox[s] : inbox'[s][j] = inbox[s][i]
      BY <1>5, <2>2
    <3> QED
      BY <1>5, <2>3, <3>1, <3>2
  <2> QED
    BY <1>3, <1>5, <2>4 DEF InStream
<1>7. \A u \in Streams : InStream(u)' = InStream(u)
  BY <1>4, <1>6, InboxSettles
<1>8. InboxWell(s)'
  <2>1. InboxWell(s) /\ InStream(s) \subseteq Items
    BY InStreamTyped DEF DeliveryInv, Ledger
  <2>2. \A y \in InStream(s)' : ItemWell(y)'
    BY <1>6, <2>1, ItemKept DEF InboxWell
  <2>3. \A i, j \in DOMAIN inbox'[s] : inbox'[s][i] = inbox'[s][j] => i = j
    <3> SUFFICES ASSUME NEW i \in 1..(Len(inbox[s]) - 1), NEW j \in 1..(Len(inbox[s]) - 1),
                        inbox[s][i + 1] = inbox[s][j + 1]
                 PROVE  i = j
      BY <1>5
    <3>1. i + 1 \in DOMAIN inbox[s] /\ j + 1 \in DOMAIN inbox[s]
      BY <1>5
    <3>2. i + 1 = j + 1
      BY <2>1, <3>1 DEF InboxWell
    <3> QED
      BY <1>5, <3>2
  <2>4. \A i \in DOMAIN inbox'[s] : inbox'[s][i] \notin got'[s]
    <3> SUFFICES ASSUME NEW i \in 1..(Len(inbox[s]) - 1)
                 PROVE  inbox[s][i + 1] \notin got[s] /\ inbox[s][i + 1] # inbox[s][1]
      BY <1>3, <1>5
    <3>1. i + 1 \in DOMAIN inbox[s] /\ 1 \in DOMAIN inbox[s] /\ i + 1 # 1
      BY <1>5
    <3> QED
      BY <2>1, <3>1 DEF InboxWell
  <2> QED
    BY <2>2, <2>3, <2>4 DEF InboxWell
<1>9. ListWell'
  BY <1>1, <1>4 DEF DeliveryInv, ListWell
<1>10. ASSUME NEW m \in Messages PROVE PublishWell(m)'
  <2>1. PublishWell(m) /\ Item(m)' = Item(m)
    BY <1>1 DEF DeliveryInv, Item, job
  <2>2. \A i \in DOMAIN subs : InStream(subs[i])' = InStream(subs[i])
    <3> SUFFICES ASSUME NEW i \in DOMAIN subs PROVE InStream(subs[i])' = InStream(subs[i])
      OBVIOUS
    <3>1. PICK u \in Streams : u = subs[i]
      BY DEF Ledger, NotifyTypeOK
    <3>2. InStream(subs[i])' = InStream(u)' /\ InStream(subs[i]) = InStream(u)
      BY <1>1, <3>1
    <3> QED
      BY <1>7, <3>2
  <2> QED
    BY <1>1, <2>1, <2>2 DEF PublishWell, job
<1> QED
  BY <1>4, <1>8, <1>9, <1>10, InboxSettles DEF DeliveryInv

\* A stream that closes leaves the list; whoever comes after it moves one place to
\* the front, possibly past the place publish has come to.
LEMMA DeliveryDisconnects ==
  ASSUME Ledger, DeliveryInv, [NotifyNext]_notifyVars, NEW s \in Streams, Disconnect(s)
  PROVE  DeliveryInv'
<1>1. /\ subs' = Without(subs, s) /\ got' = got /\ recs' = recs /\ stage' = stage
      /\ tries' = tries /\ stream[s] # "closed"
      /\ stream' = [stream EXCEPT ![s] = "closed"] /\ inbox' = [inbox EXCEPT ![s] = << >>]
      /\ shaken' = IF stream[s] = "open" THEN shaken \cup Publishing ELSE shaken
      /\ next' = [m \in Messages |-> IF subs' = << >> /\ m \in Publishing
                                     THEN Len(subs) + 1 ELSE next[m]]
  BY DEF Disconnect, table
<1>2. /\ stream'[s] = "closed" /\ inbox'[s] = << >>
      /\ \A u \in Streams : u # s => stream'[u] = stream[u] /\ inbox'[u] = inbox[u]
      /\ subs \in Seq(Streams) /\ Len(subs) \in Nat /\ DOMAIN subs = 1..Len(subs)
      /\ \A i \in DOMAIN subs : subs[i] \in Streams
  BY <1>1 DEF Ledger, NotifyTypeOK
<1>3. /\ \A j \in DOMAIN subs' : \E k \in DOMAIN subs : j <= k /\ subs'[j] = subs[k] /\ subs[k] # s
      /\ \A i, j \in DOMAIN subs' : subs'[i] = subs'[j] => i = j
      /\ \A k \in DOMAIN subs : subs[k] # s => \E j \in DOMAIN subs' : subs'[j] = subs[k]
  <2>1. \A i, j \in DOMAIN subs : subs[i] = subs[j] => i = j
    BY DEF DeliveryInv, ListWell
  <2>2. PICK w : w = Without(subs, s)
    OBVIOUS
  <2>3. /\ \A j \in DOMAIN w : \E k \in DOMAIN subs : j <= k /\ w[j] = subs[k] /\ subs[k] # s
        /\ \A i, j \in DOMAIN w : w[i] = w[j] => i = j
        /\ \A k \in DOMAIN subs : subs[k] # s => \E j \in DOMAIN w : w[j] = subs[k]
    BY <1>2, <2>1, <2>2, WithoutMoves
  <2> QED
    BY <1>1, <2>2, <2>3
<1>4. subs' \in Seq(Streams) /\ Len(subs') \in Nat /\ DOMAIN subs' = 1..Len(subs')
  BY <1>1, <1>2, WithoutIsSeq
<1>5. \A u \in Streams : u # s => InboxWell(u)' /\ InStream(u)' = InStream(u)
  BY <1>1, <1>2, InboxSettles
<1>6. InboxWell(s)'
  <2>1. InStream(s)' \subseteq InStream(s)
    BY <1>1, <1>2 DEF InStream
  <2>2. \A y \in InStream(s)' : ItemWell(y)'
    BY <2>1, ItemKept, InStreamTyped DEF DeliveryInv, InboxWell, Ledger
  <2> QED
    BY <1>2, <2>2 DEF InboxWell
<1>7. ListWell'
  <2>1. ASSUME NEW u \in Streams
        PROVE  stream'[u] = "open" <=> \E i \in DOMAIN subs' : subs'[i] = u
    <3>1. CASE u = s
      BY <1>2, <1>3, <3>1
    <3>2. CASE u # s
      <4>1. stream[u] = "open" <=> \E i \in DOMAIN subs : subs[i] = u
        BY DEF DeliveryInv, ListWell
      <4> QED
        BY <1>2, <1>3, <3>2, <4>1
    <3> QED
      BY <3>1, <3>2
  <2> QED
    BY <1>1, <1>2, <1>3, <2>1 DEF DeliveryInv, ListWell
<1>8. ASSUME NEW m \in Messages, stage[m] = "publish" PROVE PublishWell(m)'
  <2>1. /\ PublishWell(m) /\ Item(m)' = Item(m) /\ m \in Publishing /\ next[m] \in Nat
        /\ next'[m] = IF subs' = << >> THEN Len(subs) + 1 ELSE next[m]
    BY <1>1, <1>8 DEF DeliveryInv, Item, Publishing, Ledger, NotifyTypeOK
  <2>2. next'[m] > 0
    BY <1>2, <1>8, <2>1 DEF PublishWell
  <2>3. ASSUME NEW i \in DOMAIN subs', next'[m] <= i PROVE Item(m) \notin InStream(subs[i])'
    <3>1. next'[m] = next[m]
      BY <1>4, <2>1, <2>3
    <3>2. PICK k \in DOMAIN subs : i <= k /\ subs'[i] = subs[k] /\ subs[k] # s
      BY <1>3
    <3>3. PICK u \in Streams : u = subs[k]
      BY <1>2
    <3>4. InStream(subs[i])' = InStream(u)' /\ InStream(subs[k]) = InStream(u) /\ u # s
      BY <3>2, <3>3
    <3>5. next[m] <= k
      BY <1>2, <1>4, <2>1, <2>3, <3>1, <3>2
    <3> QED
      BY <1>5, <1>8, <2>1, <3>4, <3>5 DEF PublishWell
  <2>4. CASE stream[s] = "open"
    <3>1. m \in shaken'
      BY <1>1, <2>1, <2>4
    <3> QED
      BY <2>1, <2>2, <2>3, <3>1 DEF PublishWell
  <2>5. CASE stream[s] # "open"
    <3>1. \A i \in DOMAIN subs : subs[i] # s
      BY <1>2, <2>5 DEF DeliveryInv, ListWell
    <3>2. subs' = subs /\ shaken' = shaken
      BY <1>1, <2>5, <3>1 DEF Without
    <3>3. \A i \in DOMAIN subs : InStream(subs[i])' = InStream(subs[i])
      <4> SUFFICES ASSUME NEW i \in DOMAIN subs PROVE InStream(subs[i])' = InStream(subs[i])
        OBVIOUS
      <4>1. PICK u \in Streams : u = subs[i] /\ u # s
        BY <1>2, <3>1
      <4>2. InStream(subs[i])' = InStream(u)' /\ InStream(subs[i]) = InStream(u)
        BY <3>2, <4>1
      <4> QED
        BY <1>5, <4>1, <4>2
    <3>4. m \notin shaken => next'[m] <= Len(subs) + 1
      BY <1>2, <1>8, <2>1 DEF PublishWell
    <3>5. m \notin shaken => \A i \in DOMAIN subs : i < next'[m] => Item(m) \in InStream(subs[i])
      <4>1. CASE subs = << >>
        BY <4>1
      <4>2. CASE subs # << >>
        BY <1>8, <2>1, <3>2, <4>2 DEF PublishWell
      <4> QED
        BY <4>1, <4>2
    <3> QED
      BY <2>1, <2>2, <2>3, <3>2, <3>3, <3>4, <3>5 DEF PublishWell
  <2> QED
    BY <2>4, <2>5
<1> QED
  BY <1>1, <1>5, <1>6, <1>7, <1>8 DEF DeliveryInv, PublishWell

LEMMA DeliveryStep ==
  Ledger /\ DeliveryInv /\ [NotifyNext]_notifyVars => DeliveryInv'
<1> SUFFICES ASSUME Ledger, DeliveryInv, [NotifyNext]_notifyVars PROVE DeliveryInv'
  OBVIOUS
<1>0. stage \in [Messages -> Stages] /\ next \in [Messages -> Nat]
  BY DEF Ledger, NotifyTypeOK
<1>1. ASSUME NEW n \in Messages,
             DeliverLater(n) \/ Execute(n) \/ WriteRecord(n) \/ EndPublish(n)
               \/ LoadPushes(n) \/ SendPushes(n)
      PROVE  DeliveryAside
  <2>1. emitter' = emitter /\ shaken' = shaken
    BY <1>1 DEF DeliverLater, Execute, WriteRecord, EndPublish, LoadPushes, SendPushes
  <2>2. \A m \in Messages : m # n =>
          stage'[m] = stage[m] /\ recs'[m] = recs[m] /\ tries'[m] = tries[m] /\ next'[m] = next[m]
    BY <1>1 DEF DeliverLater, Execute, WriteRecord, EndPublish, LoadPushes, SendPushes,
                Ledger, NotifyTypeOK, table
  <2>3. stage'[n] # "publish"
    BY <1>0, <1>1 DEF DeliverLater, Execute, FirstStage, WriteRecord, AfterFailure, EndPublish,
                      LoadPushes, SendPushes
  <2> QED
    BY <2>1, <2>2, <2>3 DEF DeliveryAside
<1>2. CASE \E x \in Records : MarkRead(x) \/ Archive(x)
  BY <1>2, AsideKeepsDelivery DEF MarkRead, Archive, DeliveryAside, job
<1>3. CASE \E r \in Requests : LoadUnread(r) \/ MarkAllRead(r)
  BY <1>3, AsideKeepsDelivery DEF LoadUnread, MarkAllRead, DeliveryAside, job, table
<1>4. CASE \E e \in Endpoints : RegisterPush(e) \/ UnregisterPush(e) \/ EndpointGone(e)
  BY <1>4, AsideKeepsDelivery DEF RegisterPush, UnregisterPush, EndpointGone, DeliveryAside, job, table
<1>5. CASE UNCHANGED notifyVars
  BY <1>5, AsideKeepsDelivery DEF DeliveryAside, notifyVars, job, table
<1> QED
  BY <1>1, <1>2, <1>3, <1>4, <1>5, AsideKeepsDelivery, DeliveryStarts, DeliveryPublishes,
     DeliveryConnects, DeliverySubscribes, DeliveryReceives, DeliveryDisconnects DEF NotifyNext

LEMMA Delivery == NotifySpec => [](Ledger /\ DeliveryInv)
<1>1. NotifyInit => DeliveryInv
  BY DEF NotifyInit, DeliveryInv, ListWell, InboxWell, PublishWell, InStream
<1> QED
  BY <1>1, LedgerInit, LedgerStep, DeliveryStep, PTL DEF NotifySpec

\* What a stream gets carries the id of a record that is committed, if the
\* database transport did not fail.
THEOREM RecordFirstHolds == NotifySpec => []RecordFirst
<1>1. Ledger /\ DeliveryInv => RecordFirst
  BY DEF DeliveryInv, InboxWell, ItemWell, RecordFirst
<1> QED
  BY <1>1, Delivery, PTL

\* One execution of the job never gives a stream the same message twice: publish
\* goes by index, and streams that leave move the others to the front only.
THEOREM OncePerExecutionHolds == NotifySpec => []OncePerExecution
<1>1. Ledger /\ DeliveryInv => OncePerExecution
  <2> SUFFICES ASSUME DeliveryInv, NEW s \in Streams, NEW i \in DOMAIN inbox[s]
               PROVE  Copies(s, inbox[s][i]) = 1 /\ inbox[s][i] \notin got[s]
    BY DEF OncePerExecution
  <2>1. InboxWell(s)
    BY DEF DeliveryInv
  <2>2. {j \in DOMAIN inbox[s] : inbox[s][j] = inbox[s][i]} = {i}
    BY <2>1 DEF InboxWell
  <2>3. Cardinality({i}) = 1
    BY FS_Singleton, Zenon
  <2> QED
    BY <2>1, <2>2, <2>3 DEF InboxWell, Copies
<1> QED
  BY <1>1, Delivery, PTL

\* A stream that is open from the beginning of a publish to its end gets the
\* message, unless a stream closed meanwhile or a queue was full.
THEOREM WhoStaysGetsItHolds == NotifySpec => WhoStaysGetsIt
<1> DEFINE Gets == \A m \in Messages, s \in Streams :
                     (/\ stage[m] = "publish" /\ stage'[m] # "publish" /\ m \notin shaken
                      /\ s \in audience[m] /\ stream[s] = "open")
                       => Item(m) \in InStream(s)
<1>1. Ledger /\ DeliveryInv /\ [NotifyNext]_notifyVars => Gets
  <2> SUFFICES ASSUME Ledger, DeliveryInv, [NotifyNext]_notifyVars,
                      NEW m \in Messages, NEW s \in Streams,
                      stage[m] = "publish", stage'[m] # "publish", m \notin shaken,
                      stream[s] = "open"
               PROVE  Item(m) \in InStream(s)
    OBVIOUS
  <2>0. /\ stage \in [Messages -> Stages] /\ next[m] \in Nat /\ Len(subs) \in Nat
        /\ DOMAIN subs = 1..Len(subs)
    BY DEF Ledger, NotifyTypeOK
  <2>1. EndPublish(m)
    <3>1. ASSUME NEW n \in Messages, n # m,
                 DeliverLater(n) \/ Execute(n) \/ WriteRecord(n) \/ StartPublish(n)
                   \/ EndPublish(n) \/ LoadPushes(n) \/ SendPushes(n)
          PROVE  stage'[m] = stage[m]
      BY <2>0, <3>1 DEF DeliverLater, Execute, WriteRecord, StartPublish, EndPublish, LoadPushes,
                        SendPushes
    <3>2. ~ (DeliverLater(m) \/ Execute(m) \/ WriteRecord(m) \/ StartPublish(m)
               \/ LoadPushes(m) \/ SendPushes(m))
      BY DEF DeliverLater, Execute, WriteRecord, StartPublish, LoadPushes, SendPushes
    <3>3. ASSUME NEW n \in Messages, PublishOne(n) PROVE stage' = stage
      BY <3>3 DEF PublishOne
    <3>4. CASE \E u \in Streams : Connect(u) \/ Subscribe(u) \/ Receive(u) \/ Disconnect(u)
      BY <3>4 DEF Connect, Subscribe, Receive, Disconnect, job
    <3>5. CASE \E x \in Records : MarkRead(x) \/ Archive(x)
      BY <3>5 DEF MarkRead, Archive, job
    <3>6. CASE \E r \in Requests : LoadUnread(r) \/ MarkAllRead(r)
      BY <3>6 DEF LoadUnread, MarkAllRead, job
    <3>7. CASE \E e \in Endpoints : RegisterPush(e) \/ UnregisterPush(e) \/ EndpointGone(e)
      BY <3>7 DEF RegisterPush, UnregisterPush, EndpointGone, job
    <3>8. CASE UNCHANGED notifyVars
      BY <3>8 DEF notifyVars, job
    <3> QED
      BY <3>1, <3>2, <3>3, <3>4, <3>5, <3>6, <3>7, <3>8 DEF NotifyNext
  <2>2. next[m] \notin DOMAIN subs /\ PublishWell(m)
    BY <2>1 DEF EndPublish, DeliveryInv
  <2>3. PICK i \in DOMAIN subs : subs[i] = s
    BY DEF DeliveryInv, ListWell
  <2>4. i < next[m]
    BY <2>0, <2>2 DEF PublishWell
  <2> QED
    BY <2>2, <2>3, <2>4 DEF PublishWell
<1> QED
  BY <1>1, Delivery, PTL DEF NotifySpec, WhoStaysGetsIt

-----------------------------------------------------------------------------
(***************************************************************************)
(* Reading all notifications.                                              *)
(***************************************************************************)

\* Only the answer to its own request forgets what a request loaded.
LEMMA OnlyMarkAllReadForgets ==
  ASSUME NotifyTypeOK, [NotifyNext]_notifyVars, NEW r \in Requests,
         marking[r] # {}, marking'[r] = {}
  PROVE  MarkAllRead(r)
<1>1. ASSUME NEW m \in Messages,
             DeliverLater(m) \/ Execute(m) \/ WriteRecord(m) \/ StartPublish(m)
               \/ PublishOne(m) \/ EndPublish(m) \/ LoadPushes(m) \/ SendPushes(m)
      PROVE  marking' = marking
  BY <1>1 DEF DeliverLater, Execute, WriteRecord, StartPublish, PublishOne, EndPublish,
              LoadPushes, SendPushes
<1>2. ASSUME NEW s \in Streams, Connect(s) \/ Subscribe(s) \/ Receive(s) \/ Disconnect(s)
      PROVE  marking' = marking
  BY <1>2 DEF Connect, Subscribe, Receive, Disconnect
<1>3. ASSUME NEW x \in Records, MarkRead(x) \/ Archive(x) PROVE marking' = marking
  BY <1>3 DEF MarkRead, Archive
<1>4. ASSUME NEW e \in Endpoints, RegisterPush(e) \/ UnregisterPush(e) \/ EndpointGone(e)
      PROVE  marking' = marking
  BY <1>4 DEF RegisterPush, UnregisterPush, EndpointGone
<1>5. ASSUME NEW q \in Requests, LoadUnread(q) PROVE marking'[r] = marking[r] \/ marking'[r] # {}
  BY <1>5 DEF LoadUnread, NotifyTypeOK
<1>6. ASSUME NEW q \in Requests, q # r, MarkAllRead(q) PROVE marking'[r] = marking[r]
  BY <1>6 DEF MarkAllRead, NotifyTypeOK
<1>7. CASE UNCHANGED notifyVars
  BY <1>7 DEF notifyVars
<1> QED
  BY <1>1, <1>2, <1>3, <1>4, <1>5, <1>6, <1>7 DEF NotifyNext

\* Reading all notifications marks those that were there when it began: one that
\* arrives meanwhile stays unread, whatever else is delivered, read or archived.
THEOREM NewStaysUnreadHolds == NotifySpec => NewStaysUnread
<1> DEFINE Marks == \A r \in Requests : marking[r] # {} /\ marking'[r] = {}
                                         => readRecs' \ readRecs \subseteq marking[r]
<1>1. NotifyTypeOK /\ [NotifyNext]_notifyVars => Marks
  BY OnlyMarkAllReadForgets DEF MarkAllRead
<1>2. NotifyTypeOK /\ [NotifyNext]_notifyVars => [Marks]_notifyVars
  BY <1>1
<1> QED
  BY <1>2, NotifyTypeCorrect, PTL DEF NotifySpec, NewStaysUnread
=============================================================================
