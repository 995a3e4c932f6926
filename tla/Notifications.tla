------------------------------- MODULE Notifications -------------------------------
(***************************************************************************)
(* How one user is notified: BaseNotification.deliver as                   *)
(* DeliverNotificationJob runs it in worker threads, the in-memory event   *)
(* emitter with the user's SSE streams, the inbox and the Web Push         *)
(* subscriptions of the notifications router.                              *)
(***************************************************************************)
EXTENDS Naturals, Sequences, FiniteSets

CONSTANTS
  Messages,    \* notifications that are delivered
  Streams,     \* SSE connections of the user
  Endpoints,   \* push endpoints of the user's devices
  Requests,    \* requests to read all notifications, that can overlap
  Critical,    \* transports with fail_silently=False
  MaxAttempts, \* DeliverNotificationJob.max_attempts
  MaxQueue     \* maxsize of a subscriber's queue

ASSUME NotificationsAssumption ==
  /\ Critical \subseteq {"db", "sse", "push"}
  /\ MaxAttempts \in Nat \ {0} /\ MaxQueue \in Nat \ {0}

VARIABLES
  commits,  \* whether the session dependency of the router commits
  stage,    \* stage[m]: what the job of m does next
  tries,    \* tries[m]: executions of the job of m that began
  recs,     \* recs[m]: committed records of m; record n of m is <<m, n>>
  readRecs, \* records with a read_at
  hidden,   \* records with an archived_at
  subs,     \* the emitter's list of subscribers, in order
  stream,   \* stream[s]: "closed", "opening" before its generator runs, "open"
  inbox,    \* inbox[s]: its queue, of [msg, rec, try]
  got,      \* got[s]: what s received
  next,     \* next[m]: the index publish comes to, 0 when it does not run
  audience, \* audience[m]: the streams that were subscribed when it began
  shaken,   \* messages during whose publish a stream closed or a queue was full
  pushes,   \* committed push subscriptions, by endpoint
  gone,     \* endpoints that the push service answers 410 for
  pushing,  \* pushing[m]: the push subscriptions its transport loaded
  marking   \* marking[r]: the records a read-all request loaded

job       == <<stage, tries, next, audience, shaken, pushing>>
emitter   == <<subs, stream, inbox, got>>
table     == <<recs, readRecs, hidden>>
notifyVars == <<commits, job, emitter, table, pushes, gone, marking>>

Stages  == {"none", "queued", "db", "sse", "publish", "push", "send", "done", "failed"}
Records == Messages \X (1..MaxAttempts)
Items   == [msg : Messages, rec : 0..MaxAttempts, try : 1..MaxAttempts]

\* A type for every variable.
NotifyTypeOK ==
  /\ commits \in BOOLEAN
  /\ stage \in [Messages -> Stages]
  /\ tries \in [Messages -> 0..MaxAttempts]
  /\ recs \in [Messages -> 0..MaxAttempts]
  /\ readRecs \subseteq Records /\ hidden \subseteq Records
  /\ subs \in Seq(Streams)
  /\ stream \in [Streams -> {"closed", "opening", "open"}]
  /\ inbox \in [Streams -> Seq(Items)]
  /\ got \in [Streams -> SUBSET Items]
  /\ next \in [Messages -> Nat]
  /\ audience \in [Messages -> SUBSET Streams]
  /\ shaken \subseteq Messages
  /\ pushes \subseteq Endpoints /\ gone \subseteq Endpoints
  /\ pushing \in [Messages -> SUBSET Endpoints]
  /\ marking \in [Requests -> SUBSET Records]

NotifyInit ==
  /\ commits \in BOOLEAN
  /\ stage = [m \in Messages |-> "none"]
  /\ tries = [m \in Messages |-> 0]
  /\ recs = [m \in Messages |-> 0]
  /\ readRecs = {} /\ hidden = {}
  /\ subs = << >>
  /\ stream = [s \in Streams |-> "closed"]
  /\ inbox = [s \in Streams |-> << >>]
  /\ got = [s \in Streams |-> {}]
  /\ next = [m \in Messages |-> 0]
  /\ audience = [m \in Messages |-> {}]
  /\ shaken = {}
  /\ pushes = {} /\ gone = {}
  /\ pushing = [m \in Messages |-> {}]
  /\ marking = [r \in Requests |-> {}]

(***************************************************************************)
(* deliver_later and DeliverNotificationJob.                               *)
(***************************************************************************)

DeliverLater(m) ==
  /\ stage[m] = "none"
  /\ stage' = [stage EXCEPT ![m] = "queued"]
  /\ UNCHANGED <<commits, tries, next, audience, shaken, pushing, emitter, table,
                 pushes, gone, marking>>

\* Mutant of FirstStage: the database transport runs with the others.
FirstStageConcurrent(k) == IF k = 1 THEN "sse" ELSE "db"

\* The database transport runs first.
FirstStage(k) == "db"

Execute(m) ==
  /\ stage[m] = "queued" /\ tries[m] < MaxAttempts
  /\ tries' = [tries EXCEPT ![m] = @ + 1]
  /\ stage' = [stage EXCEPT ![m] = FirstStage(tries[m] + 1)]
  /\ UNCHANGED <<commits, next, audience, shaken, pushing, emitter, table, pushes,
                 gone, marking>>

\* Mutant of AfterFailure: the execution goes to a stage that nobody handles.
AfterFailureStuck(m, transport, onward) ==
  IF transport \notin Critical THEN onward ELSE "retry"

\* A transport raised: a critical one ends the execution, which is retried until
\* the attempts are used up; for the others the next transport runs.
AfterFailure(m, transport, onward) ==
  IF transport \notin Critical THEN onward
  ELSE IF tries[m] < MaxAttempts THEN "queued" ELSE "failed"

\* DatabaseTransport.write: a record of its own transaction.
WriteRecord(m) ==
  /\ stage[m] = "db"
  /\ \/ /\ recs' = [recs EXCEPT ![m] = @ + 1]
        /\ stage' = [stage EXCEPT ![m] = "sse"]
     \/ /\ recs' = recs
        /\ stage' = [stage EXCEPT ![m] = AfterFailure(m, "db", "sse")]
  /\ UNCHANGED <<commits, tries, next, audience, shaken, pushing, emitter, readRecs,
                 hidden, pushes, gone, marking>>

\* SSETransport.deliver: publish gets the list of the channel, or fails.
StartPublish(m) ==
  /\ stage[m] = "sse"
  /\ \/ /\ stage' = [stage EXCEPT ![m] = "publish"]
        /\ next' = [next EXCEPT ![m] = 1]
        /\ audience' = [audience EXCEPT ![m] = {subs[i] : i \in DOMAIN subs}]
        /\ shaken' = shaken \ {m}
     \/ /\ stage' = [stage EXCEPT ![m] = AfterFailure(m, "sse", "push")]
        /\ UNCHANGED <<next, audience, shaken>>
  /\ UNCHANGED <<commits, tries, pushing, emitter, table, pushes, gone, marking>>

Item(m) == [msg |-> m, rec |-> recs[m], try |-> tries[m]]

\* One round of the loop of publish, in the worker's thread: a full queue drops
\* the message.
PublishOne(m) ==
  /\ stage[m] = "publish" /\ next[m] \in DOMAIN subs
  /\ LET s == subs[next[m]] IN
       IF Len(inbox[s]) < MaxQueue
         THEN /\ inbox' = [inbox EXCEPT ![s] = Append(@, Item(m))]
              /\ shaken' = shaken
         ELSE /\ inbox' = inbox
              /\ shaken' = shaken \cup {m}
  /\ next' = [next EXCEPT ![m] = @ + 1]
  /\ UNCHANGED <<commits, stage, tries, audience, pushing, subs, stream, got, table,
                 pushes, gone, marking>>

\* Mutant of EndPublish: it ends before the last subscriber.
EndPublishEarly(m) ==
  /\ stage[m] = "publish" /\ next[m] >= Len(subs)
  /\ stage' = [stage EXCEPT ![m] = "push"]
  /\ next' = [next EXCEPT ![m] = 0]
  /\ UNCHANGED <<commits, tries, audience, shaken, pushing, emitter, table, pushes,
                 gone, marking>>

EndPublish(m) ==
  /\ stage[m] = "publish" /\ next[m] \notin DOMAIN subs
  /\ stage' = [stage EXCEPT ![m] = "push"]
  /\ next' = [next EXCEPT ![m] = 0]
  /\ UNCHANGED <<commits, tries, audience, shaken, pushing, emitter, table, pushes,
                 gone, marking>>

\* WebPushTransport.deliver: the subscriptions are loaded, and sent to.
LoadPushes(m) ==
  /\ stage[m] = "push"
  /\ stage' = [stage EXCEPT ![m] = IF pushes = {} THEN "done" ELSE "send"]
  /\ pushing' = [pushing EXCEPT ![m] = pushes]
  /\ UNCHANGED <<commits, tries, next, audience, shaken, emitter, table, pushes, gone,
                 marking>>

\* The endpoints in E to prune when those in F failed: those that answered 410.
Expired(E, F) == E \cap F \cap gone

\* Every send ends before expired subscriptions are pruned; their errors are
\* collected, never raised.
SendPushes(m) ==
  /\ stage[m] = "send"
  /\ \E F \in SUBSET pushing[m] :
       /\ pushing[m] \cap gone \subseteq F
       /\ pushes' = pushes \ Expired(pushing[m], F)
  /\ stage' = [stage EXCEPT ![m] = "done"]
  /\ pushing' = [pushing EXCEPT ![m] = {}]
  /\ UNCHANGED <<commits, tries, next, audience, shaken, emitter, table, gone, marking>>

(***************************************************************************)
(* SSE streams: the event loop's thread.                                   *)
(***************************************************************************)

Connect(s) ==
  /\ stream[s] = "closed" /\ got[s] = {}
  /\ stream' = [stream EXCEPT ![s] = "opening"]
  /\ UNCHANGED <<commits, job, subs, inbox, got, table, pushes, gone, marking>>

\* Mutant of Added: a new subscriber goes to the front of the list.
AddedFirst(s) == <<s>> \o subs

\* The subscribers with s, which setdefault(...).append adds.
Added(s) == Append(subs, s)

\* The generator runs for the first time.
Subscribe(s) ==
  /\ stream[s] = "opening"
  /\ stream' = [stream EXCEPT ![s] = "open"]
  /\ subs' = Added(s)
  /\ UNCHANGED <<commits, job, inbox, got, table, pushes, gone, marking>>

Receive(s) ==
  /\ stream[s] = "open" /\ inbox[s] # << >>
  /\ got' = [got EXCEPT ![s] = @ \cup {Head(inbox[s])}]
  /\ inbox' = [inbox EXCEPT ![s] = Tail(@)]
  /\ UNCHANGED <<commits, job, subs, stream, table, pushes, gone, marking>>

Place(q, s) == CHOOSE i \in DOMAIN q : q[i] = s

\* queues.remove(queue), if it is in the list.
Without(q, s) ==
  IF \E i \in DOMAIN q : q[i] = s
    THEN [i \in 1..(Len(q) - 1) |-> IF i < Place(q, s) THEN q[i] ELSE q[i + 1]]
    ELSE q

Publishing == {m \in Messages : stage[m] = "publish"}

\* The client goes away and the generator's finally runs.  An empty list leaves
\* the emitter's dictionary: a publish that iterates over it finds no more.
Disconnect(s) ==
  /\ stream[s] # "closed"
  /\ stream' = [stream EXCEPT ![s] = "closed"]
  /\ subs' = Without(subs, s)
  /\ inbox' = [inbox EXCEPT ![s] = << >>]
  /\ shaken' = IF stream[s] = "open" THEN shaken \cup Publishing ELSE shaken
  /\ next' = [m \in Messages |-> IF subs' = << >> /\ m \in Publishing THEN Len(subs) + 1
                                 ELSE next[m]]
  /\ UNCHANGED <<commits, stage, tries, audience, pushing, got, table, pushes, gone,
                 marking>>

(***************************************************************************)
(* The router: inbox and push subscriptions.                               *)
(***************************************************************************)

Stored == {x \in Records : x[2] <= recs[x[1]]}

MarkRead(x) ==
  /\ x \in Stored \ readRecs
  /\ readRecs' = readRecs \cup {x}
  /\ UNCHANGED <<commits, job, emitter, recs, hidden, pushes, gone, marking>>

Archive(x) ==
  /\ x \in Stored \ hidden
  /\ hidden' = hidden \cup {x}
  /\ UNCHANGED <<commits, job, emitter, recs, readRecs, pushes, gone, marking>>

LoadUnread(r) ==
  /\ marking[r] = {} /\ Stored \ readRecs # {}
  /\ marking' = [marking EXCEPT ![r] = Stored \ readRecs]
  /\ UNCHANGED <<commits, job, emitter, table, pushes, gone>>

\* Mutant of MarkAllRead: one UPDATE of whatever is unread.
MarkAllReadNow(r) ==
  /\ marking[r] # {}
  /\ readRecs' = Stored
  /\ marking' = [marking EXCEPT ![r] = {}]
  /\ UNCHANGED <<commits, job, emitter, recs, hidden, pushes, gone>>

MarkAllRead(r) ==
  /\ marking[r] # {}
  /\ readRecs' = readRecs \cup marking[r]
  /\ marking' = [marking EXCEPT ![r] = {}]
  /\ UNCHANGED <<commits, job, emitter, recs, hidden, pushes, gone>>

\* register and unregister flush; the session that the router opens itself is
\* closed without a commit.
RegisterPush(e) ==
  /\ e \notin pushes /\ e \notin gone
  /\ pushes' = IF commits THEN pushes \cup {e} ELSE pushes
  /\ UNCHANGED <<commits, job, emitter, table, gone, marking>>

UnregisterPush(e) ==
  /\ e \in pushes
  /\ pushes' = IF commits THEN pushes \ {e} ELSE pushes
  /\ UNCHANGED <<commits, job, emitter, table, gone, marking>>

\* The browser drops a subscription.
EndpointGone(e) ==
  /\ e \notin gone /\ gone' = gone \cup {e}
  /\ UNCHANGED <<commits, job, emitter, table, pushes, marking>>

NotifyNext ==
  \/ \E m \in Messages :
       \/ DeliverLater(m) \/ Execute(m) \/ WriteRecord(m) \/ StartPublish(m)
       \/ PublishOne(m) \/ EndPublish(m) \/ LoadPushes(m) \/ SendPushes(m)
  \/ \E s \in Streams : Connect(s) \/ Subscribe(s) \/ Receive(s) \/ Disconnect(s)
  \/ \E x \in Records : MarkRead(x) \/ Archive(x)
  \/ \E r \in Requests : LoadUnread(r) \/ MarkAllRead(r)
  \/ \E e \in Endpoints : RegisterPush(e) \/ UnregisterPush(e) \/ EndpointGone(e)

NotifySpec == NotifyInit /\ [][NotifyNext]_notifyVars

(***************************************************************************)
(* Properties.                                                             *)
(***************************************************************************)

InStream(s) == got[s] \cup {inbox[s][i] : i \in DOMAIN inbox[s]}

\* What a stream gets carries the id of a record that is committed, if the
\* database transport did not fail: the link in it never leads nowhere.
RecordFirst ==
  \A s \in Streams : \A x \in InStream(s) :
    /\ x.rec <= recs[x.msg]
    /\ "db" \in Critical => x.rec > 0

Copies(s, x) == Cardinality({i \in DOMAIN inbox[s] : inbox[s][i] = x})

\* One execution of the job never gives a stream the same message twice, also
\* when streams come and go while publish goes through the list.
OncePerExecution ==
  \A s \in Streams : \A i \in DOMAIN inbox[s] :
    Copies(s, inbox[s][i]) = 1 /\ inbox[s][i] \notin got[s]

\* A stream that is open from the beginning of a publish to its end gets the
\* message, unless a stream closed meanwhile or a queue was full.
WhoStaysGetsIt ==
  [][\A m \in Messages, s \in Streams :
       (/\ stage[m] = "publish" /\ stage'[m] # "publish" /\ m \notin shaken
        /\ s \in audience[m] /\ stream[s] = "open")
         => Item(m) \in InStream(s)]_notifyVars

\* Reading all notifications marks those that were there when it began: one that
\* arrives meanwhile stays unread.
NewStaysUnread ==
  [][\A r \in Requests : marking[r] # {} /\ marking'[r] = {}
       => readRecs' \ readRecs \subseteq marking[r]]_notifyVars
================================================================================
