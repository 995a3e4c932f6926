------------------------------- MODULE ArticleDigest -------------------------------
(***************************************************************************)
(* The daily digest mails: ArticleDigestService, as SendArticleDigestJob   *)
(* runs it every hour, and UserService.update_preferences.  A user's       *)
(* preferences are one JSON column, which both write as a whole from the   *)
(* copy they loaded; the date of the last digest is part of it.            *)
(*                                                                         *)
(* Time is a day: the runs modelled are those at the hour the users chose. *)
(***************************************************************************)
EXTENDS Naturals, FiniteSets

CONSTANTS
  Users,    \* users
  Runs,     \* executions of the job that can overlap
  Tabs,     \* requests to update_preferences that can overlap
  MaxDay,   \* bound: days
  MaxCrash  \* bound: runs that fail or are killed

ASSUME DigestAssumption == MaxDay \in Nat \ {0} /\ MaxCrash \in Nat

Prefs   == [digest : BOOLEAN, sent : 0..MaxDay]

\* Mutant of NewPref: preferences that do not have the date.
NewPrefBare == [digest |-> FALSE]

NewPref == [digest |-> FALSE, sent |-> 0]

VARIABLES
  day,      \* the current day, from 1
  prefs,    \* prefs[u]: the committed preferences of u; sent is 0 for never
  run,      \* run[j]: "idle" or "users", while it goes through its users
  copy,     \* copy[j][u]: the preferences of u as run j holds them
  queue,    \* queue[j]: users it has not come to
  sending,  \* sending[j]: the user it sent a mail and whose date is not flushed
  mailed,   \* mailed[j]: users whose date it flushed, whose rows it has locked
  tab,      \* tab[t]: the user whose preferences tab t loaded, in a set
  shown,    \* shown[t]: what it loaded
  mails,    \* history: mails[u], the digests sent to u on this day, counted to 2
  upset,    \* history: users whose last_digest_sent was lost or not seen
  crashes   \* history: runs that failed or were killed

digestVars == <<day, prefs, run, copy, queue, sending, mailed, tab, shown, mails, upset, crashes>>

\* A type for every variable.
DigestTypeOK ==
  /\ day \in 1..MaxDay /\ crashes \in 0..MaxCrash
  /\ prefs \in [Users -> Prefs]
  /\ run \in [Runs -> {"idle", "users"}]
  /\ copy \in [Runs -> [Users -> Prefs]]
  /\ queue \in [Runs -> SUBSET Users]
  /\ sending \in [Runs -> SUBSET Users]
  /\ mailed \in [Runs -> SUBSET Users]
  /\ tab \in [Tabs -> SUBSET Users]
  /\ shown \in [Tabs -> Prefs]
  /\ mails \in [Users -> 0..2]
  /\ upset \subseteq Users

DigestInit ==
  /\ day = 1 /\ crashes = 0 /\ upset = {}
  /\ prefs = [u \in Users |-> NewPref]
  /\ run = [j \in Runs |-> "idle"]
  /\ copy = [j \in Runs |-> [u \in Users |-> NewPref]]
  /\ queue = [j \in Runs |-> {}]
  /\ sending = [j \in Runs |-> {}]
  /\ mailed = [j \in Runs |-> {}]
  /\ tab = [t \in Tabs |-> {}]
  /\ shown = [t \in Tabs |-> NewPref]
  /\ mails = [u \in Users |-> 0]

\* The users that other runs mailed, and have not committed.
InFlight(j) == UNION {sending[i] \cup mailed[i] : i \in Runs \ {j}}

\* list_active_users, and those who want a digest.
BeginRun(j) ==
  LET S == {u \in Users : prefs[u].digest} IN
  /\ run[j] = "idle" /\ S # {}
  /\ run' = [run EXCEPT ![j] = "users"]
  /\ queue' = [queue EXCEPT ![j] = S]
  /\ copy' = [copy EXCEPT ![j] = [u \in Users |-> IF u \in S THEN prefs[u] ELSE NewPref]]
  /\ UNCHANGED <<day, prefs, sending, mailed, tab, shown, mails, upset, crashes>>

\* Mutant of Due: a digest sent a day ago and one sent today are told apart the
\* wrong way round.
DueSwapped(p) == p.digest /\ (p.sent = 0 \/ p.sent = day)

\* The window of _process_user: 23 hours, for a daily digest.
Due(p) == p.digest /\ p.sent # day

\* _process_user on a user who is not due, or has nothing to read.
SkipUser(j, u) ==
  /\ run[j] = "users" /\ sending[j] = {} /\ u \in queue[j]
  /\ queue' = [queue EXCEPT ![j] = @ \ {u}]
  /\ UNCHANGED <<day, prefs, run, copy, sending, mailed, tab, shown, mails, upset, crashes>>

\* A mail that cannot be sent is logged, and ends as SkipUser.
MailUser(j, u) ==
  /\ run[j] = "users" /\ sending[j] = {} /\ u \in queue[j] /\ Due(copy[j][u])
  /\ mails' = [mails EXCEPT ![u] = IF @ = 2 THEN 2 ELSE @ + 1]
  /\ queue' = [queue EXCEPT ![j] = @ \ {u}]
  /\ copy' = [copy EXCEPT ![j][u].sent = day]
  /\ sending' = [sending EXCEPT ![j] = {u}]
  /\ upset' = upset \cup ({u} \cap InFlight(j))
  /\ UNCHANGED <<day, prefs, run, mailed, tab, shown, crashes>>

\* The end of the savepoint: the update waits for another run that updated the row.
FlushUser(j) ==
  /\ sending[j] # {}
  /\ \A i \in Runs \ {j} : sending[j] \cap mailed[i] = {}
  /\ mailed' = [mailed EXCEPT ![j] = @ \cup sending[j]]
  /\ sending' = [sending EXCEPT ![j] = {}]
  /\ UNCHANGED <<day, prefs, run, copy, queue, tab, shown, mails, upset, crashes>>

EndRun(j) ==
  /\ run' = [run EXCEPT ![j] = "idle"]
  /\ queue' = [queue EXCEPT ![j] = {}]
  /\ copy' = [copy EXCEPT ![j] = [u \in Users |-> NewPref]]
  /\ sending' = [sending EXCEPT ![j] = {}]
  /\ mailed' = [mailed EXCEPT ![j] = {}]
  /\ UNCHANGED <<day, tab, shown, mails>>

\* The users that other runs or tabs hold an older copy of.
HeldOld(j) ==
  mailed[j] \cap ((UNION {queue[i] \cup sending[i] : i \in Runs \ {j}})
                   \cup (UNION {tab[t] : t \in Tabs}))

\* The one commit at the end of a run.
CommitRun(j) ==
  /\ run[j] = "users" /\ queue[j] = {} /\ sending[j] = {}
  /\ prefs' = [u \in Users |-> IF u \in mailed[j] THEN copy[j][u] ELSE prefs[u]]
  /\ upset' = upset \cup HeldOld(j)
  /\ EndRun(j) /\ UNCHANGED crashes

\* The job is killed, or a statement raises outside of _process_user's handler:
\* nothing is committed, and the job is tried again.
FailRun(j) ==
  /\ run[j] = "users" /\ crashes < MaxCrash
  /\ crashes' = crashes + 1
  /\ upset' = upset \cup sending[j] \cup mailed[j]
  /\ EndRun(j) /\ UNCHANGED prefs

\* The request's user, with the preferences, is loaded by its authentication.
LoadPrefs(t, u) ==
  /\ tab[t] = {}
  /\ tab' = [tab EXCEPT ![t] = {u}]
  /\ shown' = [shown EXCEPT ![t] = prefs[u]]
  /\ UNCHANGED <<day, prefs, run, copy, queue, sending, mailed, mails, upset, crashes>>

\* update_preferences commits the JSON it loaded with the changes of the form.
SavePrefs(t, u, b) ==
  /\ tab[t] = {u}
  /\ \A j \in Runs : u \notin mailed[j]
  /\ prefs' = [prefs EXCEPT ![u] = [shown[t] EXCEPT !.digest = b]]
  /\ tab' = [tab EXCEPT ![t] = {}]
  /\ shown' = [shown EXCEPT ![t] = NewPref]
  /\ UNCHANGED <<day, run, copy, queue, sending, mailed, mails, upset, crashes>>

NextDay ==
  /\ day < MaxDay
  /\ \A j \in Runs : run[j] = "idle"
  /\ day' = day + 1
  /\ mails' = [u \in Users |-> 0] /\ upset' = {}
  /\ UNCHANGED <<prefs, run, copy, queue, sending, mailed, tab, shown, crashes>>

DigestNext ==
  \/ \E j \in Runs :
       \/ BeginRun(j) \/ FlushUser(j) \/ CommitRun(j) \/ FailRun(j)
       \/ \E u \in Users : SkipUser(j, u) \/ MailUser(j, u)
  \/ \E t \in Tabs, u \in Users :
       LoadPrefs(t, u) \/ \E b \in BOOLEAN : SavePrefs(t, u, b)
  \/ NextDay

DigestSpec == DigestInit /\ [][DigestNext]_digestVars

(***************************************************************************)
(* Properties.                                                             *)
(***************************************************************************)

\* A user gets a second digest on one day only when a run failed after it sent
\* the first, or when somebody else held the preferences of the time before it:
\* an overlapping run, or a request that writes them back.
OneDigestADay == \A u \in Users : mails[u] > 1 => u \in upset
================================================================================
