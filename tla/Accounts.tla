------------------------------- MODULE Accounts -------------------------------
(***************************************************************************)
(* Accounts, sessions and one-time tokens as the application configures    *)
(* them: SessionBackend with sliding expiry, an AsyncEngine, deletion      *)
(* style "hard"; and, besides, the register route as lib/auth has it,      *)
(* which the application does not mount (registration_enabled is False).   *)
(* A request is several database sessions in a row, each with a read, an   *)
(* await and a commit of the columns it assigned; other requests, and the  *)
(* nightly SweepAuthJob, run in between.                                   *)
(*                                                                         *)
(* Calls of an AsyncSession that are not awaited do nothing: s.get, s.exec *)
(* and s.delete return a coroutine.  The handlers that use its attributes  *)
(* fail there, before any commit.                                          *)
(***************************************************************************)
EXTENDS Naturals, FiniteSets

CONSTANTS
  People,    \* e-mail addresses, each with at most one account
  Sessions,  \* ids that new rows of auth_sessions take
  Tokens,    \* ids that new one-time tokens take
  Browsers,  \* cookie jars
  Calls,     \* requests that can be in flight at once
  Ttl,       \* session_ttl
  Grace,     \* the 24 hours of sweep
  MaxNow,    \* bound: time
  NoSession, NoPerson

ASSUME AccountsAssumption ==
  /\ Ttl \in Nat \ {0} /\ Grace \in Nat /\ MaxNow \in Nat
  /\ NoSession \notin Sessions /\ NoPerson \notin People /\ Browsers # {}

Ops   == {"none", "me", "logout", "password", "email", "delete", "login", "register"}
Kinds == {"password_reset", "email_verification", "email_change"}
Steps == {"idle", "expire", "slide", "handler", "revoke", "create", "issue"}

NewAccount(v) == [life |-> "live", verified |-> v]
NoRow == [status |-> "none", user |-> NoPerson, expires |-> 0]
Idle  == [op |-> "none", at |-> "idle", jar |-> CHOOSE b \in Browsers : TRUE,
          user |-> NoPerson, row |-> NoSession]

VARIABLES
  now,       \* the time
  account,   \* account[p].life: "none", "live", "gone"; email_verified
  session,   \* session[s]: a row of auth_sessions; "none" before it, "gone" after
  cookie,    \* cookie[b]: the session id in jar b and the time it was signed
  call,      \* call[r]: what request r does, where it is, what it loaded
  answer,    \* how the request that ended last ended, "none" once another has begun
  token,     \* token[t]: the kind of one-time token t, its user and its expiry
  sweeping   \* the rows the sweep has read and not deleted

accountVars == <<now, account, session, cookie, call, answer, token, sweeping>>

\* A type for every variable.
AccountsTypeOK ==
  /\ now \in 0..MaxNow
  /\ account \in [People -> [life : {"none", "live", "gone"}, verified : BOOLEAN]]
  /\ session \in [Sessions -> [status : {"none", "active", "expired", "revoked", "gone"},
                               user : People \cup {NoPerson}, expires : 0..(MaxNow + Ttl)]]
  /\ cookie \in [Browsers -> [id : Sessions \cup {NoSession}, signed : 0..MaxNow]]
  /\ call \in [Calls -> [op : Ops, at : Steps, jar : Browsers, user : People \cup {NoPerson},
                         row : Sessions \cup {NoSession}]]
  /\ answer \in {"none", "ok", "refused", "aged", "error", "tokenerror"}
  /\ token \in [Tokens -> [kind : Kinds \cup {"none"}, user : People \cup {NoPerson},
                           expires : 0..(MaxNow + Ttl)]]
  /\ sweeping \subseteq Sessions

AccountsInit ==
  /\ now = 0 /\ sweeping = {}
  /\ account = [p \in People |-> [life |-> "none", verified |-> FALSE]]
  /\ session = [s \in Sessions |-> NoRow]
  /\ cookie = [b \in Browsers |-> [id |-> NoSession, signed |-> 0]]
  /\ call = [r \in Calls |-> Idle]
  /\ answer = "none"
  /\ token = [t \in Tokens |-> [kind |-> "none", user |-> NoPerson, expires |-> 0]]

-----------------------------------------------------------------------------
Here(s)  == session[s].status \notin {"none", "gone"}
Alive(p) == account[p].life = "live"
Live(s)  == session[s].status = "active" /\ session[s].expires >= now

\* _unsign of a cookie: the age of the signature, not the row, is compared.
Aged(c) == now > c.signed + Ttl

Reply(r, how) == call' = [call EXCEPT ![r] = Idle] /\ answer' = how
Step(r, to)   == call' = [call EXCEPT ![r].at = to] /\ UNCHANGED answer
Begin(r, op, b, p, s, to) ==
  /\ call' = [call EXCEPT ![r] = [op |-> op, at |-> to, jar |-> b, user |-> p, row |-> s]]
  /\ answer' = "none"

\* generate_token: the delete of the earlier tokens is not awaited, so they
\* stay; the new row is added.
Generate(kind, p) ==
  \E t \in Tokens :
    /\ token[t].kind = "none"
    /\ token' = [token EXCEPT ![t] = [kind |-> kind, user |-> p, expires |-> now + 1]]

\* authenticate, up to its commit: the cookie, the row, the user.
Authenticate(r, b, op) ==
  LET c == cookie[b] IN
  /\ call[r].at = "idle" /\ c.id # NoSession
  /\ op \in {"me", "logout", "password", "email", "delete"}
  /\ IF Aged(c) THEN Reply(r, "aged")
     ELSE IF session[c.id].status # "active" THEN Reply(r, "refused")
     ELSE IF session[c.id].expires < now THEN Begin(r, op, b, session[c.id].user, c.id, "expire")
     ELSE IF Alive(session[c.id].user) THEN Begin(r, op, b, session[c.id].user, c.id, "slide")
     ELSE Reply(r, "refused")
  /\ UNCHANGED <<now, account, session, cookie, token, sweeping>>

\* The row it found expired is marked so; a row that is gone fails the commit.
CommitExpire(r) ==
  LET s == call[r].row IN
  /\ call[r].at = "expire"
  /\ IF Here(s) THEN session' = [session EXCEPT ![s].status = "expired"] /\ Reply(r, "refused")
                ELSE UNCHANGED session /\ Reply(r, "error")
  /\ UNCHANGED <<now, account, cookie, token, sweeping>>

\* Mutant of Slid: the row is written whole, as it was loaded.
SlidWhole(row) == [row EXCEPT !.expires = now + Ttl, !.status = "active"]

\* What the commit writes of the row: the expiry, and no other column.
Slid(row) == [row EXCEPT !.expires = now + Ttl]

\* The commit of authenticate: the session slides, the user's last_login_at is
\* written; the route then runs.
CommitSlide(r) ==
  LET s == call[r].row IN
  /\ call[r].at = "slide"
  /\ IF Here(s) /\ Alive(call[r].user)
     THEN /\ session' = [session EXCEPT ![s] = Slid(@)]
          /\ IF call[r].op = "me" THEN Reply(r, "ok") ELSE Step(r, "handler")
     ELSE UNCHANGED session /\ Reply(r, "error")
  /\ UNCHANGED <<now, account, cookie, token, sweeping>>

\* logout: the row is read again.  The cookie goes in any case.
LogoutRead(r) ==
  /\ call[r].at = "handler" /\ call[r].op = "logout"
  /\ IF session[call[r].row].status = "active"
     THEN Step(r, "revoke") /\ UNCHANGED cookie
     ELSE /\ cookie' = [cookie EXCEPT ![call[r].jar] = [id |-> NoSession, signed |-> 0]]
          /\ Reply(r, "ok")
  /\ UNCHANGED <<now, account, session, token, sweeping>>

\* Its commit; an exception, as when the row is gone, is logged and ignored.
LogoutCommit(r) ==
  LET s == call[r].row IN
  /\ call[r].at = "revoke"
  /\ session' = IF Here(s) THEN [session EXCEPT ![s].status = "revoked"] ELSE session
  /\ cookie' = [cookie EXCEPT ![call[r].jar] = [id |-> NoSession, signed |-> 0]]
  /\ Reply(r, "ok")
  /\ UNCHANGED <<now, account, token, sweeping>>

\* change_password, with the right current password or a wrong one: the user is
\* got without an await, so the first use of it fails.
ChangePassword(r) ==
  /\ call[r].at = "handler" /\ call[r].op = "password"
  /\ \E how \in {"refused", "error"} : Reply(r, how)
  /\ UNCHANGED <<now, account, session, cookie, token, sweeping>>

\* delete_account: the same, in a try that answers 500.
DeleteAccount(r) ==
  /\ call[r].at = "handler" /\ call[r].op = "delete"
  /\ Reply(r, "error")
  /\ UNCHANGED <<now, account, session, cookie, token, sweeping>>

\* change_email: refused for a wrong password or an address that has an account
\* of somebody else, else a token for the new address.
ChangeEmail(r) ==
  /\ call[r].at = "handler" /\ call[r].op = "email"
  /\ \/ Reply(r, "refused") /\ UNCHANGED token
     \/ Generate("email_change", call[r].user) /\ Reply(r, "ok")
  /\ UNCHANGED <<now, account, session, cookie, sweeping>>

\* login: no account or a wrong password, an unverified address, which is sent a
\* new verification token, or a session.
Login(r, b, p) ==
  /\ call[r].at = "idle"
  /\ \/ Reply(r, "refused") /\ UNCHANGED token
     \/ Alive(p) /\ ~account[p].verified /\ Generate("email_verification", p) /\ Reply(r, "refused")
     \/ Alive(p) /\ account[p].verified /\ Begin(r, "login", b, p, NoSession, "issue") /\ UNCHANGED token
  /\ UNCHANGED <<now, account, session, cookie, sweeping>>

\* register, which only an application with registration_enabled mounts: the address
\* must be free when it is read, and when it is inserted.
RegisterRead(r, b, p) ==
  /\ call[r].at = "idle"
  /\ IF Alive(p) THEN Reply(r, "refused") ELSE Begin(r, "register", b, p, NoSession, "create")
  /\ account[p].life # "gone"
  /\ UNCHANGED <<now, account, session, cookie, token, sweeping>>

RegisterCommit(r) ==
  LET p == call[r].user IN
  /\ call[r].at = "create"
  /\ IF account[p].life = "none"
     THEN account' = [account EXCEPT ![p] = NewAccount(FALSE)] /\ Step(r, "issue")
     ELSE UNCHANGED account /\ Reply(r, "error")
  /\ UNCHANGED <<now, session, cookie, token, sweeping>>

\* SessionBackend.login and attach: a new row, and its signed id in the jar.
Issue(r) ==
  /\ call[r].at = "issue"
  /\ \E s \in Sessions :
       /\ session[s].status = "none"
       /\ session' = [session EXCEPT ![s] = [status |-> "active", user |-> call[r].user,
                                             expires |-> now + Ttl]]
       /\ cookie' = [cookie EXCEPT ![call[r].jar] = [id |-> s, signed |-> now]]
  /\ Reply(r, "ok")
  /\ UNCHANGED <<now, account, token, sweeping>>

\* forgot_password and send_verification_email: a token for an account that may
\* have one; the answer is the same without.
RequestToken(r, p) ==
  /\ call[r].at = "idle"
  /\ \/ Alive(p) /\ Generate("password_reset", p)
     \/ Alive(p) /\ ~account[p].verified /\ Generate("email_verification", p)
  /\ Reply(r, "ok")
  /\ UNCHANGED <<now, account, session, cookie, sweeping>>

\* consume_token, for reset_password, verify_email and verify_email_change: a
\* token that is not in the table is refused; of one that is, the expiry, which
\* has a time zone, is compared with datetime.now(), which has none.
PresentToken(r, kind) ==
  /\ call[r].at = "idle"
  /\ \/ Reply(r, "refused")
     \/ \E t \in Tokens : token[t].kind = kind /\ Reply(r, "tokenerror")
  /\ UNCHANGED <<now, account, session, cookie, token, sweeping>>

\* create_user and delete_users, which scripts call: an account comes verified or
\* not, and goes without its sessions.
CreateUser(p) ==
  /\ account[p].life = "none"
  /\ \E v \in BOOLEAN : account' = [account EXCEPT ![p] = NewAccount(v)]
  /\ UNCHANGED <<now, session, cookie, call, answer, token, sweeping>>

DeleteUsers(p) ==
  /\ Alive(p)
  /\ account' = [account EXCEPT ![p].life = "gone"]
  /\ UNCHANGED <<now, session, cookie, call, answer, token, sweeping>>

-----------------------------------------------------------------------------
\* Mutant of Stale: the grace period is added instead of subtracted.
StaleEarly(s) == session[s].expires < now + Grace

\* A row the sweep deletes: its expiry is before the cutoff.
Stale(s) == session[s].expires + Grace < now

\* SweepAuthJob: sweep_tokens deletes nothing, its delete is not awaited;
\* SessionBackend.sweep reads the stale rows and deletes them.
SweepRead ==
  /\ sweeping = {}
  /\ sweeping' = {s \in Sessions : Here(s) /\ Stale(s)}
  /\ sweeping' # {}
  /\ UNCHANGED <<now, account, session, cookie, call, answer, token>>

\* Mutant of SweepCommit: the deletes are not awaited.
SweepForgets ==
  /\ sweeping # {} /\ sweeping' = {}
  /\ UNCHANGED <<now, account, session, cookie, call, answer, token>>

SweepCommit ==
  /\ sweeping # {}
  /\ session' = [s \in Sessions |-> IF s \in sweeping THEN [session[s] EXCEPT !.status = "gone"]
                                                      ELSE session[s]]
  /\ sweeping' = {}
  /\ UNCHANGED <<now, account, cookie, call, answer, token>>

\* A unit of time is a day or more: no request spans one, and no sweep.
Tick ==
  /\ now < MaxNow /\ sweeping = {} /\ \A r \in Calls : call[r].at = "idle"
  /\ now' = now + 1
  /\ UNCHANGED <<account, session, cookie, call, answer, token, sweeping>>

Handler(r) ==
  \/ \E b \in Browsers, op \in Ops : Authenticate(r, b, op)
  \/ \E b \in Browsers, p \in People : Login(r, b, p) \/ RegisterRead(r, b, p)
  \/ \E p \in People : RequestToken(r, p)
  \/ \E kind \in Kinds : PresentToken(r, kind)
  \/ CommitExpire(r) \/ CommitSlide(r) \/ LogoutRead(r) \/ LogoutCommit(r)
  \/ ChangePassword(r) \/ DeleteAccount(r) \/ ChangeEmail(r)
  \/ RegisterCommit(r) \/ Issue(r)

AccountsNext ==
  \/ \E r \in Calls : Handler(r)
  \/ \E p \in People : CreateUser(p) \/ DeleteUsers(p)
  \/ SweepRead \/ SweepCommit \/ Tick

AccountsSpec == AccountsInit /\ [][AccountsNext]_accountVars

-----------------------------------------------------------------------------
\* A session that was revoked, expired or deleted is never active again, whatever
\* the requests that loaded it before commit afterwards: authenticate writes the
\* columns it assigned, not the row.
EndedStaysEnded ==
  [][\A s \in Sessions : session[s].status \in {"expired", "revoked", "gone"}
                            => session'[s].status # "active"]_accountVars

\* The sweep deletes no session that a request could still be using: between its
\* read and its delete requests slide, expire, revoke and create sessions, and none of
\* the rows it has read can become usable again.
SweepKeepsLive ==
  [][\A s \in Sessions : Live(s) => session'[s].status # "gone"]_accountVars

\* A session whose expiry stays before the cutoff is deleted in the end, whether
\* it was logged out, expired or left alone.
StaleSessionsGo == \A s \in Sessions : (Here(s) /\ Stale(s)) ~> session[s].status = "gone"

\* "Returns the OneTimeToken record on success": a token that was issued, and is
\* not consumed, is taken or found to be expired.
IssuedTokenTaken == answer # "tokenerror"
=============================================================================
