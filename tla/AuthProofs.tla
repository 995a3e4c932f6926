------------------------------- MODULE AuthProofs -------------------------------
(***************************************************************************)
(* Proofs about the two backends of lib/auth: the session backend with the *)
(* accounts (Accounts), and the JWT backend (RefreshTokens).               *)
(***************************************************************************)
EXTENDS Accounts, RefreshTokens, FiniteSetTheorems, TLAPS

(***************************************************************************)
(* Accounts, for any people, sessions, tokens, browsers and requests in    *)
(* flight, any time to live and any grace period.                          *)
(*                                                                         *)
(* The argument for the sweep: a request that will slide a session found   *)
(* it unexpired on the same day, the sweep found its rows expired for      *)
(* longer than the grace period, and no day passes while either is under   *)
(* way; so no row is both.                                                 *)
(***************************************************************************)

CallType == [op : Ops, at : Steps, jar : Browsers, user : People \cup {NoPerson},
             row : Sessions \cup {NoSession}]
SessionType == [status : {"none", "active", "expired", "revoked", "gone"},
                user : People \cup {NoPerson}, expires : 0..(MaxNow + Ttl)]
TokenType == [kind : Kinds \cup {"none"}, user : People \cup {NoPerson}, expires : 0..(MaxNow + Ttl)]
AccountType == [life : {"none", "live", "gone"}, verified : BOOLEAN]
CookieType == [id : Sessions \cup {NoSession}, signed : 0..MaxNow]
Answers  == {"none", "ok", "refused", "aged", "error", "tokenerror"}

LEMMA IdleTyped == Idle \in CallType /\ Idle.at = "idle"
BY AccountsAssumption DEF Idle, CallType, Ops, Steps

\* The end of a request types call and answer, and leaves the others alone.
LEMMA ReplyTyped ==
  ASSUME AccountsTypeOK, NEW r \in Calls, NEW how \in Answers, Reply(r, how)
  PROVE  call' \in [Calls -> CallType] /\ answer' \in Answers
BY IdleTyped DEF Reply, AccountsTypeOK, CallType, Answers

LEMMA StepTyped ==
  ASSUME AccountsTypeOK, NEW r \in Calls, NEW to \in Steps, Step(r, to)
  PROVE  call' \in [Calls -> CallType] /\ answer' \in Answers
<1>1. call \in [Calls -> CallType] /\ answer' \in Answers
  BY DEF Step, AccountsTypeOK, CallType, Answers
<1>2. [call[r] EXCEPT !.at = to] \in CallType
  BY <1>1 DEF CallType
<1>3. call' = [call EXCEPT ![r] = [call[r] EXCEPT !.at = to]]
  BY DEF Step
<1> QED
  BY <1>1, <1>2, <1>3

LEMMA BeginTyped ==
  ASSUME AccountsTypeOK, NEW r \in Calls, NEW op \in Ops, NEW b \in Browsers,
         NEW p \in People \cup {NoPerson}, NEW s \in Sessions \cup {NoSession}, NEW to \in Steps,
         Begin(r, op, b, p, s, to)
  PROVE  call' \in [Calls -> CallType] /\ answer' \in Answers
BY DEF Begin, AccountsTypeOK, CallType, Answers

LEMMA GenerateTyped ==
  ASSUME AccountsTypeOK, NEW kind \in Kinds, NEW p \in People \cup {NoPerson}, Generate(kind, p)
  PROVE  token' \in [Tokens -> TokenType]
BY AccountsAssumption DEF Generate, AccountsTypeOK, TokenType

LEMMA AccountTyped ==
  /\ \A v \in BOOLEAN : NewAccount(v) \in AccountType
  /\ \A a \in AccountType : [a EXCEPT !.life = "gone"] \in AccountType
BY DEF NewAccount, AccountType

LEMMA AnswersTyped == {"none", "ok", "refused", "aged", "error", "tokenerror"} \subseteq Answers
BY DEF Answers
LEMMA StepsTyped == {"idle", "expire", "slide", "handler", "revoke", "create", "issue"} \subseteq Steps
BY DEF Steps

\* A request leaves the time, the accounts and the sweep alone, but for register.
LEMMA RequestTyped ==
  ASSUME AccountsTypeOK, UNCHANGED <<now, account, sweeping>>,
         call' \in [Calls -> CallType], answer' \in Answers,
         cookie' \in [Browsers -> CookieType], session' \in [Sessions -> SessionType],
         token' \in [Tokens -> TokenType]
  PROVE  AccountsTypeOK'
BY DEF AccountsTypeOK, CallType, Answers, CookieType, SessionType, TokenType

LEMMA PartsTyped ==
  ASSUME AccountsTypeOK
  PROVE  /\ cookie \in [Browsers -> CookieType] /\ session \in [Sessions -> SessionType]
         /\ token \in [Tokens -> TokenType]
         /\ call \in [Calls -> CallType] /\ answer \in Answers
BY DEF AccountsTypeOK, CallType, Answers, CookieType, SessionType, TokenType

\* Every variable has its type in every reachable state.
THEOREM AccountsTypeCorrect == AccountsSpec => []AccountsTypeOK
<1> USE AccountsAssumption
<1>1. AccountsInit => AccountsTypeOK
  BY IdleTyped DEF AccountsInit, AccountsTypeOK, NoRow, CallType
<1>2. AccountsTypeOK /\ [AccountsNext]_accountVars => AccountsTypeOK'
  <2> SUFFICES ASSUME AccountsTypeOK, [AccountsNext]_accountVars PROVE AccountsTypeOK'
    OBVIOUS
  <2> USE AnswersTyped, StepsTyped
  <2>1. ASSUME NEW r \in Calls, NEW b \in Browsers, NEW op \in Ops, Authenticate(r, b, op)
        PROVE  AccountsTypeOK'
    <3>1. /\ cookie[b].id \in Sessions
          /\ session[cookie[b].id].user \in People \cup {NoPerson}
      BY <2>1 DEF Authenticate, AccountsTypeOK
    <3>2. call' \in [Calls -> CallType] /\ answer' \in Answers
      BY <2>1, <3>1, ReplyTyped, BeginTyped DEF Authenticate
    <3> QED
      BY <2>1, <3>2, PartsTyped, RequestTyped DEF Authenticate
  <2>2. ASSUME NEW r \in Calls, NEW b \in Browsers, NEW p \in People, Login(r, b, p)
        PROVE  AccountsTypeOK'
    <3>1. call' \in [Calls -> CallType] /\ answer' \in Answers
      BY <2>2, ReplyTyped, BeginTyped DEF Login, Ops
    <3>2. token' \in [Tokens -> TokenType]
      BY <2>2, PartsTyped, GenerateTyped DEF Login, Kinds
    <3> QED
      BY <2>2, <3>1, <3>2, PartsTyped, RequestTyped DEF Login
  <2>3. ASSUME NEW r \in Calls, NEW b \in Browsers, NEW p \in People, RegisterRead(r, b, p)
        PROVE  AccountsTypeOK'
    <3>1. call' \in [Calls -> CallType] /\ answer' \in Answers
      BY <2>3, ReplyTyped, BeginTyped DEF RegisterRead, Ops
    <3> QED
      BY <2>3, <3>1, PartsTyped, RequestTyped DEF RegisterRead
  <2>4. ASSUME NEW r \in Calls, NEW p \in People, RequestToken(r, p) PROVE AccountsTypeOK'
    <3>1. call' \in [Calls -> CallType] /\ answer' \in Answers
      BY <2>4, ReplyTyped DEF RequestToken
    <3>2. token' \in [Tokens -> TokenType]
      BY <2>4, GenerateTyped DEF RequestToken, Kinds
    <3> QED
      BY <2>4, <3>1, <3>2, PartsTyped, RequestTyped DEF RequestToken
  <2>5. ASSUME NEW r \in Calls, NEW kind \in Kinds, PresentToken(r, kind) PROVE AccountsTypeOK'
    <3>1. call' \in [Calls -> CallType] /\ answer' \in Answers
      BY <2>5, ReplyTyped DEF PresentToken
    <3> QED
      BY <2>5, <3>1, PartsTyped, RequestTyped DEF PresentToken
  <2>6. ASSUME NEW r \in Calls, CommitExpire(r) PROVE AccountsTypeOK'
    <3>1. call' \in [Calls -> CallType] /\ answer' \in Answers
      BY <2>6, ReplyTyped DEF CommitExpire
    <3>2. session' \in [Sessions -> SessionType]
      BY <2>6, PartsTyped DEF CommitExpire, SessionType
    <3> QED
      BY <2>6, <3>1, <3>2, PartsTyped, RequestTyped DEF CommitExpire
  <2>7. ASSUME NEW r \in Calls, CommitSlide(r) PROVE AccountsTypeOK'
    <3>1. call' \in [Calls -> CallType] /\ answer' \in Answers
      BY <2>7, ReplyTyped, StepTyped DEF CommitSlide
    <3>2. session' \in [Sessions -> SessionType]
      <4>1. /\ session \in [Sessions -> SessionType]
            /\ now \in 0..MaxNow /\ Ttl \in Nat /\ MaxNow \in Nat
        BY PartsTyped DEF AccountsTypeOK
      <4>2. now + Ttl \in 0..(MaxNow + Ttl)
        BY <4>1
      <4>3. \A s \in Sessions : Slid(session[s]) \in SessionType
        BY <4>1, <4>2 DEF Slid, SessionType
      <4>4. \/ session' = session
            \/ session' = [session EXCEPT ![call[r].row] = Slid(session[call[r].row])]
        BY <2>7 DEF CommitSlide
      <4> HIDE DEF SessionType
      <4> QED
        BY <4>1, <4>3, <4>4
    <3> QED
      BY <2>7, <3>1, <3>2, PartsTyped, RequestTyped DEF CommitSlide
  <2>8. ASSUME NEW r \in Calls, LogoutRead(r) PROVE AccountsTypeOK'
    <3>1. call' \in [Calls -> CallType] /\ answer' \in Answers
      BY <2>8, ReplyTyped, StepTyped DEF LogoutRead
    <3>2. cookie' \in [Browsers -> CookieType]
      BY <2>8, PartsTyped DEF LogoutRead, CookieType
    <3> QED
      BY <2>8, <3>1, <3>2, PartsTyped, RequestTyped DEF LogoutRead
  <2>9. ASSUME NEW r \in Calls, LogoutCommit(r) PROVE AccountsTypeOK'
    <3>1. call' \in [Calls -> CallType] /\ answer' \in Answers
      BY <2>9, ReplyTyped DEF LogoutCommit
    <3>2. session' \in [Sessions -> SessionType]
      <4>1. session \in [Sessions -> SessionType]
        BY PartsTyped
      <4>2. \A s \in Sessions : [session[s] EXCEPT !.status = "revoked"] \in SessionType
        BY <4>1 DEF SessionType
      <4>3. \/ session' = session
            \/ session' = [session EXCEPT ![call[r].row].status = "revoked"]
        BY <2>9 DEF LogoutCommit
      <4> HIDE DEF SessionType
      <4> QED
        BY <4>1, <4>2, <4>3
    <3>3. cookie' \in [Browsers -> CookieType]
      <4>1. cookie' = [cookie EXCEPT ![call[r].jar] = [id |-> NoSession, signed |-> 0]]
        BY <2>9 DEF LogoutCommit
      <4>2. [id |-> NoSession, signed |-> 0] \in CookieType
        BY DEF CookieType
      <4> QED
        BY <4>1, <4>2, PartsTyped
    <3> QED
      BY <2>9, <3>1, <3>2, <3>3, PartsTyped, RequestTyped DEF LogoutCommit
  <2>10. ASSUME NEW r \in Calls, ChangePassword(r) \/ DeleteAccount(r) PROVE AccountsTypeOK'
    <3>1. call' \in [Calls -> CallType] /\ answer' \in Answers
      BY <2>10, ReplyTyped DEF ChangePassword, DeleteAccount
    <3> QED
      BY <2>10, <3>1, PartsTyped, RequestTyped DEF ChangePassword, DeleteAccount
  <2>11. ASSUME NEW r \in Calls, ChangeEmail(r) PROVE AccountsTypeOK'
    <3>1. call' \in [Calls -> CallType] /\ answer' \in Answers
      BY <2>11, ReplyTyped DEF ChangeEmail
    <3>2. call[r].user \in People \cup {NoPerson}
      BY DEF AccountsTypeOK
    <3>3. token' \in [Tokens -> TokenType]
      BY <2>11, <3>2, PartsTyped, GenerateTyped DEF ChangeEmail, Kinds
    <3> QED
      BY <2>11, <3>1, <3>3, PartsTyped, RequestTyped DEF ChangeEmail
  <2>12. ASSUME NEW r \in Calls, RegisterCommit(r) PROVE AccountsTypeOK'
    <3>1. call' \in [Calls -> CallType] /\ answer' \in Answers
      BY <2>12, ReplyTyped, StepTyped DEF RegisterCommit
    <3>2. account' \in [People -> AccountType]
      <4>1. account \in [People -> AccountType]
        BY DEF AccountsTypeOK, AccountType
      <4>2. account' = account \/ account' = [account EXCEPT ![call[r].user] = NewAccount(FALSE)]
        BY <2>12 DEF RegisterCommit
      <4> QED
        BY <4>1, <4>2, AccountTyped
    <3> QED
      BY <2>12, <3>1, <3>2 DEF RegisterCommit, AccountsTypeOK, CallType, Answers, AccountType
  <2>13. ASSUME NEW r \in Calls, Issue(r) PROVE AccountsTypeOK'
    <3>1. call' \in [Calls -> CallType] /\ answer' \in Answers
      BY <2>13, ReplyTyped DEF Issue
    <3>2. call[r].user \in People \cup {NoPerson}
      BY DEF AccountsTypeOK
    <3>3. PICK s \in Sessions :
            /\ session' = [session EXCEPT ![s] = [status |-> "active", user |-> call[r].user,
                                                  expires |-> now + Ttl]]
            /\ cookie' = [cookie EXCEPT ![call[r].jar] = [id |-> s, signed |-> now]]
      BY <2>13 DEF Issue
    <3>4. session' \in [Sessions -> SessionType] /\ cookie' \in [Browsers -> CookieType]
      BY <3>2, <3>3 DEF AccountsTypeOK, SessionType, CookieType
    <3> QED
      BY <2>13, <3>1, <3>4, PartsTyped, RequestTyped DEF Issue
  <2>14. ASSUME NEW p \in People, CreateUser(p) \/ DeleteUsers(p) PROVE AccountsTypeOK'
    <3>1. account \in [People -> AccountType]
      BY DEF AccountsTypeOK, AccountType
    <3>2. CASE CreateUser(p)
      <4>1. PICK v \in BOOLEAN : account' = [account EXCEPT ![p] = NewAccount(v)]
        BY <3>2 DEF CreateUser
      <4>2. account' \in [People -> AccountType]
        BY <3>1, <4>1, AccountTyped
      <4> QED
        BY <3>2, <4>2 DEF CreateUser, AccountsTypeOK, AccountType
    <3>3. CASE DeleteUsers(p)
      <4>1. account' = [account EXCEPT ![p] = [account[p] EXCEPT !.life = "gone"]]
        BY <3>3 DEF DeleteUsers
      <4>2. account' \in [People -> AccountType]
        BY <3>1, <4>1, AccountTyped
      <4> QED
        BY <3>3, <4>2 DEF DeleteUsers, AccountsTypeOK, AccountType
    <3> QED
      BY <2>14, <3>2, <3>3
  <2>15. CASE SweepRead
    BY <2>15 DEF SweepRead, AccountsTypeOK
  <2>16. CASE SweepCommit
    <3>1. \A x \in SessionType : [x EXCEPT !.status = "gone"] \in SessionType
      BY DEF SessionType
    <3>2. session' \in [Sessions -> SessionType]
      BY <2>16, <3>1, PartsTyped DEF SweepCommit
    <3> QED
      BY <2>16, <3>2 DEF SweepCommit, AccountsTypeOK, SessionType
  <2>17. CASE Tick
    BY <2>17 DEF Tick, AccountsTypeOK
  <2>18. CASE UNCHANGED accountVars
    BY <2>18 DEF accountVars, AccountsTypeOK
  <2> QED
    BY <2>1, <2>2, <2>3, <2>4, <2>5, <2>6, <2>7, <2>8, <2>9, <2>10, <2>11, <2>12, <2>13,
       <2>14, <2>15, <2>16, <2>17, <2>18 DEF AccountsNext, Handler
<1> QED
  BY <1>1, <1>2, PTL DEF AccountsSpec
-----------------------------------------------------------------------------
\* The steps that write a session.
LEMMA OthersKeepSessions ==
  ASSUME [AccountsNext]_accountVars
  PROVE  \/ \E r \in Calls : CommitExpire(r) \/ CommitSlide(r) \/ LogoutCommit(r) \/ Issue(r)
         \/ SweepCommit
         \/ UNCHANGED session
<1>1. ASSUME NEW r \in Calls, NEW b \in Browsers, NEW op \in Ops, Authenticate(r, b, op)
      PROVE  UNCHANGED session
  BY <1>1 DEF Authenticate
<1>2. ASSUME NEW r \in Calls, NEW b \in Browsers, NEW p \in People,
             Login(r, b, p) \/ RegisterRead(r, b, p)
      PROVE  UNCHANGED session
  BY <1>2 DEF Login, RegisterRead
<1>3. ASSUME NEW r \in Calls, NEW p \in People, RequestToken(r, p) PROVE UNCHANGED session
  BY <1>3 DEF RequestToken
<1>4. ASSUME NEW r \in Calls, NEW kind \in Kinds, PresentToken(r, kind) PROVE UNCHANGED session
  BY <1>4 DEF PresentToken
<1>5. ASSUME NEW r \in Calls,
             LogoutRead(r) \/ ChangePassword(r) \/ DeleteAccount(r) \/ ChangeEmail(r)
               \/ RegisterCommit(r)
      PROVE  UNCHANGED session
  BY <1>5 DEF LogoutRead, ChangePassword, DeleteAccount, ChangeEmail, RegisterCommit
<1>6. ASSUME NEW p \in People, CreateUser(p) \/ DeleteUsers(p) PROVE UNCHANGED session
  BY <1>6 DEF CreateUser, DeleteUsers
<1>7. CASE SweepRead \/ Tick
  BY <1>7 DEF SweepRead, Tick
<1>8. CASE UNCHANGED accountVars
  BY <1>8 DEF accountVars
<1> QED
  BY <1>1, <1>2, <1>3, <1>4, <1>5, <1>6, <1>7, <1>8 DEF AccountsNext, Handler

\* Whatever a request writes of a session that has ended, it is not "active":
\* authenticate writes the expiry alone, and new rows take new ids.
THEOREM EndedSessionsStayEnded == AccountsSpec => EndedStaysEnded
<1>1. ASSUME AccountsTypeOK, [AccountsNext]_accountVars, NEW s \in Sessions,
             session[s].status \in {"expired", "revoked", "gone"}
      PROVE  session'[s].status # "active"
  <2>1. ASSUME NEW r \in Calls, CommitExpire(r) PROVE session'[s].status # "active"
    BY <1>1, <2>1 DEF CommitExpire, AccountsTypeOK
  <2>2. ASSUME NEW r \in Calls, CommitSlide(r) PROVE session'[s].status # "active"
    <3>1. \/ session' = session
          \/ session' = [session EXCEPT ![call[r].row] = Slid(session[call[r].row])]
      BY <2>2 DEF CommitSlide
    <3>2. session'[s] = session[s] \/ session'[s] = Slid(session[s])
      BY <1>1, <3>1 DEF AccountsTypeOK
    <3>3. Slid(session[s]).status = session[s].status
      BY <1>1 DEF Slid, AccountsTypeOK
    <3> QED
      BY <1>1, <3>2, <3>3
  <2>3. ASSUME NEW r \in Calls, LogoutCommit(r) PROVE session'[s].status # "active"
    BY <1>1, <2>3 DEF LogoutCommit, AccountsTypeOK
  <2>4. ASSUME NEW r \in Calls, Issue(r) PROVE session'[s].status # "active"
    BY <1>1, <2>4 DEF Issue, AccountsTypeOK
  <2>5. CASE SweepCommit
    BY <1>1, <2>5 DEF SweepCommit, AccountsTypeOK
  <2>6. CASE UNCHANGED session
    BY <1>1, <2>6
  <2> QED
    BY <1>1, <2>1, <2>2, <2>3, <2>4, <2>5, <2>6, OthersKeepSessions
<1>2. AccountsTypeOK /\ [AccountsNext]_accountVars
        => [\A s \in Sessions : session[s].status \in {"expired", "revoked", "gone"}
                                  => session'[s].status # "active"]_accountVars
  BY <1>1
<1> QED
  BY <1>2, AccountsTypeCorrect, PTL DEF AccountsSpec, EndedStaysEnded

\* What the sweep read is expired for longer than the grace period; what a request
\* is about to slide is not expired.
SweepApart ==
  /\ \A s \in sweeping : Here(s) /\ Stale(s)
  /\ \A r \in Calls : call[r].at = "slide" =>
       call[r].row \in Sessions /\ session[call[r].row].expires >= now

\* A step that keeps the time, the expiry of what is swept or slid, and that begins
\* neither.
LEMMA ApartKept ==
  ASSUME AccountsTypeOK, AccountsTypeOK', SweepApart, UNCHANGED now, sweeping' \subseteq sweeping,
         \A s \in sweeping : session'[s].expires = session[s].expires /\ Here(s)',
         \A r \in Calls : call'[r].at = "slide" => call'[r] = call[r],
         \A s \in Sessions : session'[s].expires >= session[s].expires \/ session'[s].expires >= now
  PROVE  SweepApart'
<1>1. ASSUME NEW s \in sweeping' PROVE Here(s)' /\ Stale(s)'
  BY <1>1 DEF SweepApart, Stale
<1>2. ASSUME NEW r \in Calls, call'[r].at = "slide"
      PROVE  call'[r].row \in Sessions /\ session'[call'[r].row].expires >= now
  <2>1. call'[r] = call[r] /\ call[r].row \in Sessions /\ session[call[r].row].expires >= now
    BY <1>2 DEF SweepApart
  <2>2. PICK s \in Sessions : s = call[r].row
    BY <2>1
  <2>3. /\ session[s].expires \in Nat /\ session'[s].expires \in Nat /\ now \in Nat
        /\ session'[s].expires >= session[s].expires \/ session'[s].expires >= now
    BY AccountsAssumption DEF AccountsTypeOK
  <2>4. session'[s].expires >= now
    BY <2>1, <2>2, <2>3
  <2> QED
    BY <2>1, <2>2, <2>4
<1> QED
  BY <1>1, <1>2 DEF SweepApart

\* The sweep deletes no session that a request could still be using.
THEOREM SweepSpares == AccountsSpec => SweepKeepsLive
<1> USE AccountsAssumption
<1>1. AccountsInit => SweepApart
  BY DEF AccountsInit, SweepApart, Idle
<1>2. AccountsTypeOK /\ AccountsTypeOK' /\ SweepApart /\ [AccountsNext]_accountVars => SweepApart'
  <2> SUFFICES ASSUME AccountsTypeOK, AccountsTypeOK', SweepApart, [AccountsNext]_accountVars
               PROVE  SweepApart'
    OBVIOUS
  <2> USE AnswersTyped, StepsTyped
  <2>0. /\ \A s \in sweeping : Here(s)
        /\ \A s \in Sessions : session[s].expires \in Nat /\ session'[s].expires \in Nat
        /\ \A s \in Sessions : session[s].expires >= session[s].expires
        /\ sweeping \subseteq Sessions
    BY DEF SweepApart, AccountsTypeOK
  <2>1. ASSUME NEW r \in Calls, NEW b \in Browsers, NEW op \in Ops, Authenticate(r, b, op)
        PROVE  SweepApart'
    <3>1. CASE call'[r].at = "slide"
      <4>1. /\ call'[r].row = cookie[b].id /\ cookie[b].id \in Sessions
            /\ ~(session[cookie[b].id].expires < now)
            /\ \A q \in Calls \ {r} : call'[q] = call[q]
        BY <2>1, <3>1, IdleTyped DEF Authenticate, Reply, Begin, AccountsTypeOK
      <4>2. session[cookie[b].id].expires >= now
        BY <4>1 DEF AccountsTypeOK
      <4> QED
        BY <2>1, <4>1, <4>2 DEF Authenticate, SweepApart, Stale, Here
    <3>2. CASE call'[r].at # "slide"
      <4>1. \A q \in Calls : call'[q].at = "slide" => call'[q] = call[q]
        BY <2>1, <3>2 DEF Authenticate, Reply, Begin, AccountsTypeOK
      <4> QED
        BY <2>0, <2>1, <4>1, ApartKept DEF Authenticate, Here
    <3> QED
      BY <3>1, <3>2
  <2>2. ASSUME UNCHANGED <<now, session, sweeping>>,
               \A q \in Calls : call'[q].at = "slide" => call'[q] = call[q]
        PROVE  SweepApart'
    BY <2>0, <2>2, ApartKept DEF Here
  <2>3. ASSUME NEW r \in Calls, NEW b \in Browsers, NEW p \in People,
               Login(r, b, p) \/ RegisterRead(r, b, p)
        PROVE  SweepApart'
    <3>1. \A q \in Calls : call'[q].at = "slide" => call'[q] = call[q]
      BY <2>3, IdleTyped DEF Login, RegisterRead, Reply, Begin, AccountsTypeOK
    <3> QED
      BY <2>2, <2>3, <3>1 DEF Login, RegisterRead
  <2>4. ASSUME NEW r \in Calls,
               \/ \E p \in People : RequestToken(r, p)
               \/ \E kind \in Kinds : PresentToken(r, kind)
               \/ LogoutRead(r) \/ ChangePassword(r) \/ DeleteAccount(r) \/ ChangeEmail(r)
               \/ RegisterCommit(r)
        PROVE  SweepApart'
    <3>1. \/ \E how : Reply(r, how)
          \/ \E to \in {"revoke", "issue"} : Step(r, to)
      BY <2>4 DEF RequestToken, PresentToken, LogoutRead, ChangePassword, DeleteAccount,
                  ChangeEmail, RegisterCommit
    <3>2. \A q \in Calls : call'[q].at = "slide" => call'[q] = call[q]
      BY <3>1, IdleTyped DEF Reply, Step, AccountsTypeOK
    <3> QED
      BY <2>2, <2>4, <3>2 DEF RequestToken, PresentToken, LogoutRead, ChangePassword,
         DeleteAccount, ChangeEmail, RegisterCommit
  <2>5. ASSUME NEW r \in Calls, CommitExpire(r) \/ LogoutCommit(r) PROVE SweepApart'
    <3>1. \A q \in Calls : call'[q].at = "slide" => call'[q] = call[q]
      BY <2>5, IdleTyped DEF CommitExpire, LogoutCommit, Reply, AccountsTypeOK
    <3>2. \A s \in Sessions : session'[s].expires = session[s].expires /\ (Here(s) => Here(s)')
      BY <2>5 DEF CommitExpire, LogoutCommit, Here, AccountsTypeOK
    <3> QED
      BY <2>0, <2>5, <3>1, <3>2, ApartKept DEF CommitExpire, LogoutCommit
  <2>6. ASSUME NEW r \in Calls, CommitSlide(r) PROVE SweepApart'
    <3>1. \A q \in Calls : call'[q].at = "slide" => call'[q] = call[q]
      BY <2>6, IdleTyped DEF CommitSlide, Reply, Step, AccountsTypeOK
    <3>2. call[r].row \in Sessions /\ session[call[r].row].expires >= now
      BY <2>6 DEF CommitSlide, SweepApart
    <3>3. call[r].row \notin sweeping
      BY <3>2 DEF SweepApart, Stale, AccountsTypeOK
    <3>4. /\ \A s \in Sessions : s # call[r].row => session'[s] = session[s]
          /\ session'[call[r].row].expires \in {session[call[r].row].expires, now + Ttl}
      BY <2>6, <3>2 DEF CommitSlide, Slid, AccountsTypeOK
    <3>5. now \in Nat /\ now + Ttl >= now
      BY DEF AccountsTypeOK
    <3>6. \A s \in Sessions : session'[s].expires >= session[s].expires \/ session'[s].expires >= now
      BY <2>0, <3>4, <3>5
    <3>7. \A s \in sweeping : session'[s].expires = session[s].expires /\ Here(s)'
      BY <2>0, <3>3, <3>4 DEF Here
    <3> QED
      BY <2>6, <3>1, <3>6, <3>7, ApartKept DEF CommitSlide
  <2>7. ASSUME NEW r \in Calls, Issue(r) PROVE SweepApart'
    <3>1. \A q \in Calls : call'[q].at = "slide" => call'[q] = call[q]
      BY <2>7, IdleTyped DEF Issue, Reply, AccountsTypeOK
    <3>2. PICK t \in Sessions :
            /\ session[t].status = "none"
            /\ session' = [session EXCEPT ![t] = [status |-> "active", user |-> call[r].user,
                                                  expires |-> now + Ttl]]
      BY <2>7 DEF Issue
    <3>3. t \notin sweeping
      BY <2>0, <3>2 DEF Here
    <3>4. now \in Nat /\ now + Ttl >= now
      BY DEF AccountsTypeOK
    <3>5. /\ \A s \in Sessions : s # t => session'[s] = session[s]
          /\ session'[t].expires = now + Ttl
      BY <3>2 DEF AccountsTypeOK
    <3>6. \A s \in Sessions : session'[s].expires >= session[s].expires \/ session'[s].expires >= now
      BY <2>0, <3>4, <3>5
    <3>7. \A s \in sweeping : session'[s].expires = session[s].expires /\ Here(s)'
      BY <2>0, <3>3, <3>5 DEF Here
    <3> QED
      BY <2>7, <3>1, <3>6, <3>7, ApartKept DEF Issue
  <2>8. ASSUME NEW p \in People, CreateUser(p) \/ DeleteUsers(p) PROVE SweepApart'
    BY <2>2, <2>8 DEF CreateUser, DeleteUsers
  <2>9. CASE SweepRead
    BY <2>9 DEF SweepRead, SweepApart, Here, Stale
  <2>10. CASE SweepCommit
    <3>1. \A s \in Sessions : session'[s].expires = session[s].expires
      BY <2>10 DEF SweepCommit, AccountsTypeOK
    <3> QED
      BY <2>10, <3>1 DEF SweepCommit, SweepApart
  <2>11. CASE Tick
    BY <2>11 DEF Tick, SweepApart
  <2>12. CASE UNCHANGED accountVars
    BY <2>2, <2>12 DEF accountVars
  <2> QED
    BY <2>1, <2>3, <2>4, <2>5, <2>6, <2>7, <2>8, <2>9, <2>10, <2>11, <2>12 DEF AccountsNext, Handler
<1>3. AccountsTypeOK /\ SweepApart /\ [AccountsNext]_accountVars
        => [\A s \in Sessions : Live(s) => session'[s].status # "gone"]_accountVars
  <2> SUFFICES ASSUME AccountsTypeOK, SweepApart, [AccountsNext]_accountVars,
                      NEW s \in Sessions, Live(s)
               PROVE  session'[s].status # "gone"
    OBVIOUS
  <2>0. session[s].status = "active" /\ session[s].expires >= now
    BY DEF Live
  <2>1. ASSUME NEW r \in Calls, CommitExpire(r) \/ CommitSlide(r) \/ LogoutCommit(r) \/ Issue(r)
        PROVE  session'[s].status # "gone"
    <3>1. CASE CommitExpire(r) \/ LogoutCommit(r)
      BY <2>0, <3>1 DEF CommitExpire, LogoutCommit, AccountsTypeOK
    <3>2. CASE CommitSlide(r)
      <4>1. \/ session' = session
            \/ session' = [session EXCEPT ![call[r].row] = Slid(session[call[r].row])]
        BY <3>2 DEF CommitSlide
      <4>2. session'[s] = session[s] \/ session'[s] = Slid(session[s])
        BY <4>1 DEF AccountsTypeOK
      <4>3. Slid(session[s]).status = session[s].status
        BY DEF Slid, AccountsTypeOK
      <4> QED
        BY <2>0, <4>2, <4>3
    <3>3. CASE Issue(r)
      BY <2>0, <3>3 DEF Issue, AccountsTypeOK
    <3> QED
      BY <2>1, <3>1, <3>2, <3>3
  <2>2. CASE SweepCommit
    <3>1. s \notin sweeping
      BY <2>0 DEF SweepApart, Stale, AccountsTypeOK
    <3> QED
      BY <2>0, <2>2, <3>1 DEF SweepCommit, AccountsTypeOK
  <2>3. CASE UNCHANGED session
    BY <2>0, <2>3
  <2> QED
    BY <2>1, <2>2, <2>3, OthersKeepSessions
<1> QED
  BY <1>1, <1>2, <1>3, AccountsTypeCorrect, PTL DEF AccountsSpec, SweepKeepsLive

(***************************************************************************)
(* RefreshTokens, for any clients, requests, families, times to live and   *)
(* failures.                                                               *)
(*                                                                         *)
(* The argument: a family gets a token only from a request that is between *)
(* its read of an active row and its issue.  A revocation is quiet when    *)
(* there was no such request since it read the rows: then it revoked all   *)
(* that is active, and no request can begin to refresh the family again.   *)
(***************************************************************************)

LEMMA QuietTyped ==
  Quiet \in [at : {"idle", "rotate", "issue", "reuse", "logout"}, jar : Jars,
             row : Rows \cup {NoToken}, read : SUBSET Rows, alone : BOOLEAN]
BY RefreshAssumption DEF Quiet

\* What Read leaves in request.
LEMMA ReadTyped ==
  ASSUME RefreshTypeOK, NEW q \in Requests, NEW to \in {"rotate", "reuse", "logout"},
         NEW j \in Jars, NEW t \in Rows, NEW S \in SUBSET Rows, row[t].family \in Families,
         Read(q, to, j, t, S)
  PROVE  /\ request' \in [Requests -> [at : {"idle", "rotate", "issue", "reuse", "logout"},
                                       jar : Jars, row : Rows \cup {NoToken},
                                       read : SUBSET Rows, alone : BOOLEAN]]
         /\ raced' \subseteq Families
<1> DEFINE Type == [at : {"idle", "rotate", "issue", "reuse", "logout"}, jar : Jars,
                    row : Rows \cup {NoToken}, read : SUBSET Rows, alone : BOOLEAN]
<1>1. request \in [Requests -> Type]
  BY DEF RefreshTypeOK
<1>2. \A b \in BOOLEAN : [at |-> to, jar |-> j, row |-> t, read |-> S, alone |-> b] \in Type
  OBVIOUS
<1>3. \A p \in Requests : [request[p] EXCEPT !.alone = FALSE] \in Type
  BY <1>1
<1>4. (Issuing(row[t].family) = {}) \in BOOLEAN
  OBVIOUS
<1>5. request' = [p \in Requests |->
         IF p = q THEN [at |-> to, jar |-> j, row |-> t, read |-> S,
                        alone |-> Issuing(row[t].family) = {}]
         ELSE IF p \in Running(row[t].family) /\ to = "rotate" THEN [request[p] EXCEPT !.alone = FALSE]
         ELSE request[p]]
  BY DEF Read
<1>6. raced' \subseteq Families
  BY DEF Read, RefreshTypeOK
<1> HIDE DEF Type
<1>7. request' \in [Requests -> Type]
  BY <1>1, <1>2, <1>3, <1>4, <1>5
<1> QED
  BY <1>6, <1>7 DEF Type

\* Revoking rows changes their status, and that of no new row.
LEMMA RevokedTyped ==
  ASSUME RefreshTypeOK, NEW S \in SUBSET Rows, row' = Revoked(S)
  PROVE  /\ row' \in [Rows -> [status : {"none", "active", "rotated", "revoked"},
                               family : Families \cup {NoFamily}, expires : 0..(MaxTime + RefreshTtl)]]
         /\ \A t \in Rows : row'[t].family = row[t].family
         /\ \A t \in Rows : row'[t].status = IF t \in S THEN "revoked" ELSE row[t].status
BY DEF Revoked, RefreshTypeOK

\* A row has a family from its insertion on; what is held, or worked on, has been
\* inserted.
RowsWell ==
  /\ \A t \in Rows : row[t].status = "none" <=> row[t].family = NoFamily
  /\ \A j \in Jars : held[j] # NoToken => row[held[j]].status # "none"
  /\ \A q \in Requests :
       request[q].at # "idle" =>
         /\ request[q].row \in Rows /\ row[request[q].row].status # "none"
         /\ \A t \in request[q].read : row[t].status # "none"

Well == RefreshTypeOK /\ RowsWell

\* The types, with RowsWell: refresh and logout work on rows of auth_refresh_tokens
\* that exist and belong to a family.
THEOREM RefreshTypeCorrect == RefreshSpec => []Well
<1> USE RefreshAssumption
<1>1. RefreshInit => Well
  BY QuietTyped DEF RefreshInit, Well, RefreshTypeOK, RowsWell, Free, Quiet
<1>2. Well /\ [RefreshNext]_refreshVars => Well'
  <2> SUFFICES ASSUME Well, [RefreshNext]_refreshVars PROVE Well'
    OBVIOUS
  <2> USE DEF Well
  <2>1. ASSUME NEW q \in Requests, NEW j \in Jars, LogIn(q, j) PROVE Well'
    BY <2>1, QuietTyped DEF LogIn, End, RefreshTypeOK, RowsWell, Quiet
  <2>2. ASSUME NEW q \in Requests, NEW j \in Jars, Present(q, j) PROVE Well'
    <3>1. held[j] \in Rows /\ row[held[j]].status # "none" /\ row[held[j]].family \in Families
      BY <2>2 DEF Present, MayCall, RefreshTypeOK, RowsWell
    <3>2. CASE End(q) /\ UNCHANGED raced
      BY <2>2, <3>2, QuietTyped DEF Present, End, RefreshTypeOK, RowsWell, Quiet
    <3>3. ASSUME NEW to \in {"rotate", "reuse", "logout"}, NEW S \in SUBSET Rows,
                 \A t \in S : row[t].status # "none", Read(q, to, j, held[j], S)
          PROVE  Well'
      <4>0. /\ request' \in [Requests -> [at : {"idle", "rotate", "issue", "reuse", "logout"},
                                           jar : Jars, row : Rows \cup {NoToken},
                                           read : SUBSET Rows, alone : BOOLEAN]]
            /\ raced' \subseteq Families
        BY <3>1, <3>3, ReadTyped
      <4>1. RefreshTypeOK'
        BY <2>2, <4>0 DEF Present, RefreshTypeOK
      <4>2. RowsWell'
        BY <2>2, <3>1, <3>3 DEF Present, Read, RefreshTypeOK, RowsWell
      <4> QED
        BY <4>1, <4>2
    <3>4. Reads(row[held[j]].status) \in {"rotate", "reuse", "refused"}
      BY DEF Reads
    <3>5. /\ Members(row[held[j]].family) \subseteq Rows
          /\ \A t \in Members(row[held[j]].family) : row[t].status # "none"
      BY <3>1 DEF Members, RowsWell
    <3> QED
      BY <2>2, <3>1, <3>2, <3>3, <3>4, <3>5 DEF Present
  <2>3. ASSUME NEW q \in Requests, NEW j \in Jars, LogOutRead(q, j) PROVE Well'
    <3>1. held[j] \in Rows /\ row[held[j]].status # "none" /\ row[held[j]].family \in Families
      BY <2>3 DEF LogOutRead, MayCall, RefreshTypeOK, RowsWell
    <3>2. CASE End(q) /\ held' = [held EXCEPT ![j] = NoToken] /\ UNCHANGED raced
      BY <2>3, <3>2, QuietTyped DEF LogOutRead, End, RefreshTypeOK, RowsWell, Quiet
    <3>3. CASE Read(q, "logout", j, held[j], Active(row[held[j]].family)) /\ UNCHANGED held
      <4>1. Active(row[held[j]].family) \in SUBSET Rows
        BY DEF Active
      <4>2. RefreshTypeOK'
        BY <2>3, <3>1, <3>3, <4>1, ReadTyped DEF LogOutRead, RefreshTypeOK
      <4>3. RowsWell'
        BY <2>3, <3>1, <3>3 DEF LogOutRead, Read, Active, RefreshTypeOK, RowsWell
      <4> QED
        BY <4>2, <4>3
    <3> QED
      BY <2>3, <3>2, <3>3 DEF LogOutRead
  <2>4. ASSUME NEW q \in Requests, Rotate(q) PROVE Well'
    BY <2>4 DEF Rotate, Rotated, RefreshTypeOK, RowsWell
  <2>5. ASSUME NEW q \in Requests, IssuePair(q) PROVE Well'
    <3>1. request[q].row \in Rows /\ Fam(q) \in Families /\ request[q].jar \in Jars
      BY <2>5 DEF IssuePair, Fam, RefreshTypeOK, RowsWell
    <3> QED
      BY <2>5, <3>1, QuietTyped DEF IssuePair, End, RefreshTypeOK, RowsWell, Quiet
  <2>6. ASSUME NEW q \in Requests, RevokeFamily(q) PROVE Well'
    <3>1. Fam(q) \in Families /\ request[q].row \in Rows /\ request[q].read \in SUBSET Rows
      BY <2>6 DEF RevokeFamily, Fam, RefreshTypeOK, RowsWell
    <3>2. /\ \A t \in Rows : row'[t].family = row[t].family
          /\ \A t \in Rows : row'[t].status = IF t \in request[q].read THEN "revoked"
                                              ELSE row[t].status
          /\ row' \in [Rows -> [status : {"none", "active", "rotated", "revoked"},
                                family : Families \cup {NoFamily},
                                expires : 0..(MaxTime + RefreshTtl)]]
      BY <2>6, <3>1, RevokedTyped DEF RevokeFamily
    <3>3. RefreshTypeOK'
      BY <2>6, <3>1, <3>2, QuietTyped DEF RevokeFamily, Closed, End, RefreshTypeOK
    <3>4. \A t \in Rows : row'[t].status = "none" <=> row[t].status = "none"
      BY <2>6, <3>2 DEF RevokeFamily, RowsWell
    <3>5. RowsWell'
      BY <2>6, <3>1, <3>2, <3>4 DEF RevokeFamily, End, RefreshTypeOK, RowsWell, Quiet
    <3> QED
      BY <3>3, <3>5
  <2>7. ASSUME NEW q \in Requests, LogOutCommit(q) PROVE Well'
    <3>1. Fam(q) \in Families /\ request[q].row \in Rows /\ request[q].read \in SUBSET Rows
      BY <2>7 DEF LogOutCommit, Fam, RefreshTypeOK, RowsWell
    <3>2. /\ \A t \in Rows : row'[t].family = row[t].family
          /\ \A t \in Rows : row'[t].status = IF t \in request[q].read THEN "revoked"
                                              ELSE row[t].status
          /\ row' \in [Rows -> [status : {"none", "active", "rotated", "revoked"},
                                family : Families \cup {NoFamily},
                                expires : 0..(MaxTime + RefreshTtl)]]
      BY <2>7, <3>1, RevokedTyped DEF LogOutCommit
    <3>3. RefreshTypeOK'
      BY <2>7, <3>1, <3>2, QuietTyped DEF LogOutCommit, Closed, End, RefreshTypeOK
    <3>4. \A t \in Rows : row'[t].status = "none" <=> row[t].status = "none"
      BY <2>7, <3>2 DEF LogOutCommit, RowsWell
    <3>5. RowsWell'
      BY <2>7, <3>1, <3>2, <3>4 DEF LogOutCommit, End, RefreshTypeOK, RowsWell, Quiet
    <3> QED
      BY <3>3, <3>5
  <2>8. ASSUME NEW q \in Requests, Fail(q) PROVE Well'
    <3>1. Fam(q) \in Families
      BY <2>8 DEF Fail, Fam, RefreshTypeOK, RowsWell
    <3> QED
      BY <2>8, <3>1, QuietTyped DEF Fail, End, RefreshTypeOK, RowsWell, Quiet
  <2>9. CASE RemoveUser
    BY <2>9 DEF RemoveUser, RefreshTypeOK, RowsWell
  <2>10. CASE PassTime
    BY <2>10 DEF PassTime, RefreshTypeOK, RowsWell
  <2>11. CASE UNCHANGED refreshVars
    BY <2>11 DEF refreshVars, RefreshTypeOK, RowsWell
  <2> QED
    BY <2>1, <2>2, <2>3, <2>4, <2>5, <2>6, <2>7, <2>8, <2>9, <2>10, <2>11 DEF RefreshNext
<1> QED
  BY <1>1, <1>2, PTL DEF RefreshSpec
-----------------------------------------------------------------------------
\* A family that was closed has no active token and no refresh under way; a
\* revocation that was left alone has read all that is active.
QuietFamily(f) ==
  f \in closed => Active(f) = {} /\ Issuing(f) = {} /\ Members(f) # {}

QuietRequest(q) ==
  request[q].at \in {"reuse", "logout"} /\ request[q].alone
    => Issuing(Fam(q)) = {} /\ Active(Fam(q)) \subseteq request[q].read

QuietInv == (\A f \in Families : QuietFamily(f)) /\ (\A q \in Requests : QuietRequest(q))

\* A step that gives no family an active token or a refresh, that leaves rows
\* their families and other requests alone.
Subdued ==
  /\ \A t \in Rows : row[t].status # "none" => row'[t].family = row[t].family
  /\ \A f \in Families : Members(f) \subseteq Members(f)'
  /\ \A f \in Families : Active(f)' \subseteq Active(f) /\ Issuing(f)' \subseteq Issuing(f)

LEMMA SubduedRequest ==
  ASSUME Well, Subdued, NEW q \in Requests, QuietRequest(q),
         request'[q].at \in {"reuse", "logout"} => request'[q] = request[q]
  PROVE  QuietRequest(q)'
<1> SUFFICES ASSUME request'[q].at \in {"reuse", "logout"}, request'[q].alone
             PROVE  Issuing(Fam(q))' = {} /\ Active(Fam(q))' \subseteq request'[q].read
  BY DEF QuietRequest
<1>1. request'[q] = request[q] /\ request[q].row \in Rows /\ row[request[q].row].status # "none"
  BY DEF Well, RowsWell
<1>2. Fam(q)' = Fam(q) /\ Fam(q) \in Families
  BY <1>1 DEF Fam, Subdued, Well, RefreshTypeOK, RowsWell
<1>3. Issuing(Fam(q)) = {} /\ Active(Fam(q)) \subseteq request[q].read
  BY <1>1 DEF QuietRequest
<1>4. Active(Fam(q))' \subseteq Active(Fam(q)) /\ Issuing(Fam(q))' \subseteq Issuing(Fam(q))
  <2>1. \A f \in Families : f = Fam(q) =>
          Active(f)' \subseteq Active(f) /\ Issuing(f)' \subseteq Issuing(f)
    BY DEF Subdued
  <2> QED
    BY <1>2, <2>1 DEF Active, Issuing, Running
<1> QED
  BY <1>1, <1>3, <1>4

LEMMA SubduedFamily ==
  ASSUME Subdued, NEW f \in Families, QuietFamily(f), f \in closed
  PROVE  Active(f)' = {} /\ Issuing(f)' = {} /\ Members(f)' # {}
BY DEF Subdued, QuietFamily

\* Such a step keeps the invariant, but for what it closes or begins to revoke.
LEMMA SubduedInv ==
  ASSUME Well, QuietInv, Subdued, closed' = closed,
         \A q \in Requests : request'[q].at \in {"reuse", "logout"} => request'[q] = request[q]
  PROVE  QuietInv'
<1>1. ASSUME NEW f \in Families PROVE QuietFamily(f)'
  BY SubduedFamily DEF QuietInv, QuietFamily
<1>2. ASSUME NEW q \in Requests PROVE QuietRequest(q)'
  BY SubduedRequest DEF QuietInv
<1> QED
  BY <1>1, <1>2 DEF QuietInv

\* The family of a request has a row, which says so.
LEMMA FamHasRow ==
  ASSUME Well, NEW q \in Requests, request[q].at # "idle"
  PROVE  /\ Fam(q) \in Families /\ request[q].row \in Rows
         /\ request[q].row \in Members(Fam(q))
BY DEF Well, RowsWell, RefreshTypeOK, Fam, Members

\* A request that ends without a write.
LEMMA EndSubdued ==
  ASSUME Well, NEW q \in Requests, End(q), UNCHANGED row
  PROVE  /\ Subdued
         /\ \A p \in Requests : request'[p].at \in {"reuse", "logout"} => request'[p] = request[p]
<1>1. \A p \in Requests : request'[p] = IF p = q THEN Quiet ELSE request[p]
  BY DEF End, Well, RefreshTypeOK
<1>2. \A p \in Requests : request'[p].at # "idle" => request'[p] = request[p]
  <2>1. Quiet.at = "idle"
    BY DEF Quiet
  <2> QED
    BY <1>1, <2>1
<1>3. \A f \in Families : Issuing(f)' \subseteq Issuing(f)
  BY <1>2 DEF Issuing, Running, Fam
<1> QED
  BY <1>2, <1>3 DEF Subdued, Members, Active

\* What a request that reads its rows makes of itself.
LEMMA ReadWrites ==
  ASSUME NEW q \in Requests, NEW to, NEW j, NEW t, NEW S, Read(q, to, j, t, S)
  PROVE  /\ request'[q].at = to /\ request'[q].row = t /\ request'[q].read = S
         /\ request'[q].alone => Issuing(row[t].family) = {}
<1>1. request'[q] = [at |-> to, jar |-> j, row |-> t, read |-> S,
                     alone |-> Issuing(row[t].family) = {}]
  BY DEF Read
<1>2. ASSUME Issuing(row[t].family) # {} PROVE request'[q].alone = FALSE
  <2>1. (Issuing(row[t].family) = {}) = FALSE
    BY <1>2
  <2>2. request'[q] = [at |-> to, jar |-> j, row |-> t, read |-> S, alone |-> FALSE]
    BY <1>1, <2>1, Zenon
  <2> QED
    BY <2>2
<1>3. request'[q].at = to /\ request'[q].row = t /\ request'[q].read = S
  BY <1>1
<1> QED
  BY <1>2, <1>3

\* refresh of a rotated token, and logout, read what is active.
LEMMA RevokerReads ==
  ASSUME Well, QuietInv, NEW q \in Requests, NEW to \in {"reuse", "logout"}, NEW j \in Jars,
         NEW t \in Rows, row[t].status # "none", NEW S, request[q].at = "idle",
         Active(row[t].family) \subseteq S, Read(q, to, j, t, S), UNCHANGED <<row, closed>>
  PROVE  QuietInv'
<1> DEFINE f == row[t].family
<1>0. f \in Families
  BY DEF Well, RefreshTypeOK, RowsWell
<1>1. /\ request'[q].at = to /\ request'[q].row = t /\ request'[q].read = S
      /\ request'[q].alone => Issuing(f) = {}
      /\ \A p \in Requests \ {q} : request'[p] = request[p]
  <2>1. \A p \in Requests \ {q} : request'[p] = request[p]
    BY DEF Read, Well, RefreshTypeOK
  <2> QED
    BY <2>1, ReadWrites
<1>2. \A g \in Families : Issuing(g)' \subseteq Issuing(g)
  BY <1>1 DEF Issuing, Running, Fam
<1>3. Subdued
  BY <1>2 DEF Subdued, Members, Active
<1>4. ASSUME NEW g \in Families PROVE QuietFamily(g)'
  BY <1>3, SubduedFamily DEF QuietInv, QuietFamily
<1>5. ASSUME NEW p \in Requests, p # q PROVE QuietRequest(p)'
  BY <1>1, <1>3, <1>5, SubduedRequest DEF QuietInv
<1>6. QuietRequest(q)'
  <2>1. Fam(q)' = f
    BY <1>1 DEF Fam
  <2>2. Active(f)' = Active(f)
    BY DEF Active
  <2>3. Issuing(f) = {} => Issuing(f)' = {}
    BY <1>0, <1>2
  <2> QED
    BY <1>1, <2>1, <2>2, <2>3 DEF QuietRequest, Active, Issuing, Running
<1> QED
  BY <1>4, <1>5, <1>6 DEF QuietInv

\* The revocation: it closes a family that it read alone.
LEMMA RevokerWrites ==
  ASSUME Well, QuietInv, NEW q \in Requests, request[q].at \in {"reuse", "logout"},
         row' = Revoked(request[q].read), closed' = closed \cup Closed(q), End(q)
  PROVE  QuietInv'
<1>1. request[q].read \in SUBSET Rows /\ Fam(q) \in Families
  BY FamHasRow DEF Well, RefreshTypeOK
<1>2. /\ \A t \in Rows : row'[t].family = row[t].family
      /\ \A t \in Rows : row'[t].status = IF t \in request[q].read THEN "revoked"
                                          ELSE row[t].status
  BY <1>1, RevokedTyped DEF Well
<1>3. \A p \in Requests : request'[p].at # "idle" => request'[p] = request[p] /\ p # q
  BY DEF End, Quiet, Well, RefreshTypeOK
<1>4. \A f \in Families : Issuing(f)' \subseteq Issuing(f)
  BY <1>2, <1>3 DEF Issuing, Running, Fam, Well, RowsWell
<1>5. \A f \in Families : Active(f)' \subseteq Active(f) \ request[q].read /\ Members(f)' = Members(f)
  BY <1>2 DEF Active, Members
<1>6. Subdued
  BY <1>2, <1>4, <1>5 DEF Subdued
<1>7. ASSUME NEW p \in Requests PROVE QuietRequest(p)'
  BY <1>3, <1>6, SubduedRequest DEF QuietInv
<1>8. ASSUME NEW f \in Families, f \in closed' PROVE Active(f)' = {} /\ Issuing(f)' = {} /\ Members(f)' # {}
  <2>1. CASE f \in closed
    BY <1>6, <2>1, SubduedFamily DEF QuietInv
  <2>2. CASE f = Fam(q) /\ request[q].alone
    <3>1. Issuing(f) = {} /\ Active(f) \subseteq request[q].read
      BY <2>2 DEF QuietInv, QuietRequest
    <3>2. Members(f) # {}
      BY <2>2, FamHasRow
    <3> QED
      BY <1>4, <1>5, <3>1, <3>2
  <2> QED
    BY <1>8, <2>1, <2>2 DEF Closed
<1> QED
  BY <1>7, <1>8 DEF QuietInv, QuietFamily

\* refresh of an active token begins: nobody who is about to revoke the family is
\* alone any more.
LEMMA RotationBegins ==
  ASSUME Well, QuietInv, NEW q \in Requests, NEW j \in Jars, NEW t \in Rows,
         row[t].status = "active", NEW S, request[q].at = "idle",
         Read(q, "rotate", j, t, S), UNCHANGED <<row, closed>>
  PROVE  QuietInv'
<1> DEFINE f == row[t].family
<1>0. f \in Families /\ t \in Active(f)
  BY DEF Well, RefreshTypeOK, RowsWell, Active
<1>1. f \notin closed
  BY <1>0 DEF QuietInv, QuietFamily
<1>2. /\ request'[q].at = "rotate" /\ request'[q].row = t
      /\ \A p \in Requests \ {q} : request'[p] =
           IF p \in Running(f) THEN [request[p] EXCEPT !.alone = FALSE] ELSE request[p]
  <2>1. \A p \in Requests \ {q} : request'[p] =
          IF p \in Running(f) THEN [request[p] EXCEPT !.alone = FALSE] ELSE request[p]
    BY DEF Read
  <2> QED
    BY <2>1, ReadWrites
<1>3. \A p \in Requests \ {q} :
        /\ request'[p].at = request[p].at /\ request'[p].row = request[p].row
        /\ request'[p].read = request[p].read
        /\ request'[p].alone => request[p].alone /\ p \notin Running(f)
  <2> SUFFICES ASSUME NEW p \in Requests \ {q}
               PROVE  /\ request'[p].at = request[p].at /\ request'[p].row = request[p].row
                      /\ request'[p].read = request[p].read
                      /\ request'[p].alone => request[p].alone /\ p \notin Running(f)
    OBVIOUS
  <2>1. request[p] \in [at : {"idle", "rotate", "issue", "reuse", "logout"}, jar : Jars,
                        row : Rows \cup {NoToken}, read : SUBSET Rows, alone : BOOLEAN]
    BY DEF Well, RefreshTypeOK
  <2>2. CASE p \in Running(f)
    <3>1. request'[p] = [request[p] EXCEPT !.alone = FALSE]
      BY <1>2, <2>2
    <3> QED
      BY <2>1, <3>1
  <2>3. CASE p \notin Running(f)
    BY <1>2, <2>3
  <2> QED
    BY <2>2, <2>3
<1>4. \A g \in Families \ {f} : Issuing(g)' \subseteq Issuing(g)
  BY <1>2, <1>3 DEF Issuing, Running, Fam
<1>5. \A g \in Families : Active(g)' = Active(g) /\ Members(g)' = Members(g)
  BY DEF Active, Members
<1>6. ASSUME NEW g \in Families PROVE QuietFamily(g)'
  BY <1>1, <1>4, <1>5 DEF QuietInv, QuietFamily
<1>7. ASSUME NEW p \in Requests, request'[p].at \in {"reuse", "logout"}, request'[p].alone
      PROVE  Issuing(Fam(p))' = {} /\ Active(Fam(p))' \subseteq request'[p].read
  <2>1. p # q
    BY <1>2, <1>7
  <2>2. request[p].at \in {"reuse", "logout"} /\ request[p].alone /\ p \notin Running(f)
    BY <1>3, <1>7, <2>1
  <2>3. Fam(p) \in Families \ {f} /\ Fam(p)' = Fam(p)
    BY <1>3, <2>1, <2>2, FamHasRow DEF Running, Fam
  <2>4. Issuing(Fam(p)) = {} /\ Active(Fam(p)) \subseteq request[p].read
    BY <2>2 DEF QuietInv, QuietRequest
  <2>5. \A g \in Families \ {f} : g = Fam(p) => Issuing(g)' = {} /\ Active(g)' \subseteq request'[p].read
    BY <1>3, <1>4, <1>5, <2>1, <2>4
  <2> QED
    BY <2>3, <2>5 DEF Issuing, Running, Active
<1> QED
  BY <1>6, <1>7 DEF QuietInv, QuietRequest

\* A new token of family f, which is neither closed nor about to be: login gives
\* one to a new family, refresh to one that is being refreshed.
LEMMA TokenComes ==
  ASSUME Well, QuietInv, NEW q \in Requests, NEW t \in Rows, NEW f \in Families,
         row[t].status = "none", NEW e, row' = [row EXCEPT ![t] = [status |-> "active", family |-> f, expires |-> e]],
         End(q), UNCHANGED closed, f \notin closed,
         \A p \in Requests : (request[p].at \in {"reuse", "logout"} /\ request[p].alone) => Fam(p) # f
  PROVE  QuietInv'
<1>1. \A p \in Requests : request'[p].at # "idle" => request'[p] = request[p]
  BY DEF End, Quiet, Well, RefreshTypeOK
<1>2. \A x \in Rows : x # t => row'[x] = row[x]
  BY DEF Well, RefreshTypeOK
<1>2a. row'[t].family = f /\ row[t].family = NoFamily
  BY DEF Well, RefreshTypeOK, RowsWell
<1>3. \A p \in Requests : request'[p].at # "idle" => Fam(p)' = Fam(p) /\ Fam(p) \in Families
  BY <1>1, <1>2, FamHasRow DEF Fam, Well, RowsWell
<1>4. \A g \in Families : Issuing(g)' \subseteq Issuing(g)
  BY <1>1, <1>3 DEF Issuing, Running
<1>5. \A g \in Families \ {f} : Active(g)' \subseteq Active(g)
  BY <1>2, <1>2a DEF Active
<1>6. \A g \in Families : Members(g) \subseteq Members(g)'
  BY <1>2, <1>2a, RefreshAssumption DEF Members
<1>7. ASSUME NEW g \in Families PROVE QuietFamily(g)'
  BY <1>4, <1>5, <1>6 DEF QuietInv, QuietFamily
<1>8. ASSUME NEW p \in Requests, request'[p].at \in {"reuse", "logout"}, request'[p].alone
      PROVE  Issuing(Fam(p))' = {} /\ Active(Fam(p))' \subseteq request'[p].read
  <2>1. request'[p] = request[p] /\ Fam(p)' = Fam(p) /\ Fam(p) \in Families \ {f}
    BY <1>1, <1>3, <1>8
  <2>2. Issuing(Fam(p)) = {} /\ Active(Fam(p)) \subseteq request[p].read
    BY <1>8, <2>1 DEF QuietInv, QuietRequest
  <2>3. \A g \in Families \ {f} : g = Fam(p) => Issuing(g)' = {} /\ Active(g)' \subseteq request'[p].read
    BY <1>4, <1>5, <2>1, <2>2
  <2> QED
    BY <2>1, <2>3 DEF Issuing, Running, Active
<1> QED
  BY <1>7, <1>8 DEF QuietInv, QuietRequest

\* A step that writes no row and begins no request.
LEMMA Idles ==
  ASSUME Well, QuietInv, UNCHANGED <<row, closed, request>>
  PROVE  QuietInv'
BY DEF QuietInv, QuietFamily, QuietRequest, Issuing, Running, Active, Members, Fam

\* A request in flight that will issue a token of its family: nobody who read the
\* rows of that family is alone.
LEMMA IssuerIsSeen ==
  ASSUME Well, QuietInv, NEW q \in Requests, request[q].at \in {"rotate", "issue"}
  PROVE  /\ Fam(q) \notin closed
         /\ \A p \in Requests : (request[p].at \in {"reuse", "logout"} /\ request[p].alone)
                                 => Fam(p) # Fam(q)
<1>1. q \in Issuing(Fam(q)) /\ Fam(q) \in Families
  BY FamHasRow DEF Issuing, Running
<1> QED
  BY <1>1 DEF QuietInv, QuietFamily, QuietRequest

\* Nobody works on a family that has no row.
LEMMA NewFamily ==
  ASSUME Well, QuietInv, NEW f \in Families, Members(f) = {}
  PROVE  /\ f \notin closed
         /\ \A p \in Requests : request[p].at # "idle" => Fam(p) # f
BY FamHasRow DEF QuietInv, QuietFamily

\* A family that was revoked while no refresh of it ran has no active token, then
\* or later, whatever its clients go on to present.
THEOREM QuietRevocation == RefreshSpec => []QuietRevocationHolds
<1> USE RefreshAssumption
<1>1. RefreshInit => QuietInv
  BY DEF RefreshInit, QuietInv, QuietFamily, QuietRequest, Quiet
<1>2. Well /\ QuietInv /\ [RefreshNext]_refreshVars => QuietInv'
  <2> SUFFICES ASSUME Well, QuietInv, [RefreshNext]_refreshVars PROVE QuietInv'
    OBVIOUS
  <2>1. ASSUME NEW q \in Requests, NEW j \in Jars, LogIn(q, j) PROVE QuietInv'
    <3>1. PICK t \in Rows, f \in Families :
            /\ row[t].status = "none" /\ Members(f) = {}
            /\ row' = [row EXCEPT ![t] = [status |-> "active", family |-> f,
                                          expires |-> time + RefreshTtl]]
      BY <2>1 DEF LogIn
    <3>2. End(q) /\ UNCHANGED closed
      BY <2>1 DEF LogIn
    <3> QED
      BY <3>1, <3>2, NewFamily, TokenComes
  <2>2. ASSUME NEW q \in Requests, NEW j \in Jars, Present(q, j) PROVE QuietInv'
    <3> DEFINE t == held[j]
    <3>1. /\ t \in Rows /\ row[t].status # "none" /\ request[q].at = "idle"
          /\ UNCHANGED <<row, closed>>
      BY <2>2 DEF Present, MayCall, Well, RefreshTypeOK, RowsWell
    <3>2. CASE End(q)
      BY <3>1, <3>2, EndSubdued, SubduedInv
    <3>3. CASE row[t].status = "active" /\ Read(q, "rotate", j, t, {t})
      BY <3>1, <3>3, RotationBegins
    <3>4. CASE row[t].status = "rotated" /\ Read(q, "reuse", j, t, Members(row[t].family))
      <4>1. Active(row[t].family) \subseteq Members(row[t].family)
        BY DEF Active, Members
      <4> QED
        BY <3>1, <3>4, <4>1, RevokerReads
    <3>5. \/ End(q)
          \/ row[t].status = "active" /\ Read(q, "rotate", j, t, {t})
          \/ row[t].status = "rotated" /\ Read(q, "reuse", j, t, Members(row[t].family))
      BY <2>2 DEF Present, Reads
    <3> QED
      BY <3>2, <3>3, <3>4, <3>5
  <2>3. ASSUME NEW q \in Requests, NEW j \in Jars, LogOutRead(q, j) PROVE QuietInv'
    <3> DEFINE t == held[j]
    <3>1. /\ t \in Rows /\ row[t].status # "none" /\ request[q].at = "idle"
          /\ UNCHANGED <<row, closed>>
      BY <2>3 DEF LogOutRead, MayCall, Well, RefreshTypeOK, RowsWell
    <3>2. CASE End(q)
      BY <3>1, <3>2, EndSubdued, SubduedInv
    <3>3. CASE Read(q, "logout", j, t, Active(row[t].family))
      BY <3>1, <3>3, RevokerReads
    <3> QED
      BY <2>3, <3>2, <3>3 DEF LogOutRead
  <2>4. ASSUME NEW q \in Requests, Rotate(q) PROVE QuietInv'
    <3>1. request[q].row \in Rows /\ row[request[q].row].status # "none"
      BY <2>4 DEF Rotate, Well, RowsWell
    <3>2. /\ \A t \in Rows : row'[t].family = row[t].family
          /\ \A t \in Rows : row'[t].status = "active" => row[t].status = "active"
      BY <2>4, <3>1 DEF Rotate, Rotated, Well, RefreshTypeOK
    <3>3. \A p \in Requests :
            /\ request'[p].at # "idle" => request[p].at # "idle"
            /\ request'[p].row = request[p].row
            /\ request'[p].at \in {"rotate", "issue"} => request[p].at \in {"rotate", "issue"}
            /\ request'[p].at \in {"reuse", "logout"} => request'[p] = request[p]
      BY <2>4 DEF Rotate, Well, RefreshTypeOK
    <3>4. \A p \in Requests : request'[p].at # "idle" => Fam(p)' = Fam(p)
      BY <3>2, <3>3 DEF Fam, Well, RowsWell
    <3>5. \A f \in Families : Issuing(f)' \subseteq Issuing(f)
      BY <3>3, <3>4 DEF Issuing, Running
    <3>6. Subdued
      BY <3>2, <3>5 DEF Subdued, Members, Active
    <3> QED
      BY <2>4, <3>3, <3>6, SubduedInv DEF Rotate
  <2>5. ASSUME NEW q \in Requests, IssuePair(q) PROVE QuietInv'
    <3>1. PICK t \in Rows :
            /\ row[t].status = "none"
            /\ row' = [row EXCEPT ![t] = [status |-> "active", family |-> Fam(q),
                                          expires |-> time + RefreshTtl]]
      BY <2>5 DEF IssuePair
    <3>2. End(q) /\ UNCHANGED closed /\ request[q].at = "issue"
      BY <2>5 DEF IssuePair
    <3>3. Fam(q) \in Families
      BY <3>2, FamHasRow
    <3>4. /\ Fam(q) \notin closed
          /\ \A p \in Requests : (request[p].at \in {"reuse", "logout"} /\ request[p].alone)
                                  => Fam(p) # Fam(q)
      BY <3>2, IssuerIsSeen
    <3> QED
      BY <3>1, <3>2, <3>3, <3>4, TokenComes
  <2>6. ASSUME NEW q \in Requests, RevokeFamily(q) PROVE QuietInv'
    BY <2>6, RevokerWrites DEF RevokeFamily
  <2>7. ASSUME NEW q \in Requests, LogOutCommit(q) PROVE QuietInv'
    BY <2>7, RevokerWrites DEF LogOutCommit
  <2>8. ASSUME NEW q \in Requests, Fail(q) PROVE QuietInv'
    <3>1. End(q) /\ UNCHANGED <<row, closed>>
      BY <2>8 DEF Fail
    <3> QED
      BY <3>1, EndSubdued, SubduedInv
  <2>9. CASE RemoveUser
    BY <2>9, Idles DEF RemoveUser
  <2>10. CASE PassTime
    BY <2>10, Idles DEF PassTime
  <2>11. CASE UNCHANGED refreshVars
    BY <2>11, Idles DEF refreshVars
  <2> QED
    BY <2>1, <2>2, <2>3, <2>4, <2>5, <2>6, <2>7, <2>8, <2>9, <2>10, <2>11 DEF RefreshNext
<1>3. Well /\ QuietInv => QuietRevocationHolds
  BY DEF Well, RefreshTypeOK, QuietInv, QuietFamily, QuietRevocationHolds
<1> QED
  BY <1>1, <1>2, <1>3, RefreshTypeCorrect, PTL DEF RefreshSpec
-----------------------------------------------------------------------------
\* What holds of a family none of whose requests overlapped or failed: one request
\* at most works on it, one token at most is active, and none is from the moment
\* the row is rotated to the issue of its successor.
LoneFamily(f) ==
  f \notin raced =>
    /\ \A p, q \in Running(f) : p = q
    /\ \A t, u \in Active(f) : t = u
    /\ \A q \in Running(f) : /\ request[q].at = "rotate" => Active(f) \subseteq {request[q].row}
                             /\ request[q].at = "issue" => Active(f) = {}

LoneInv == \A f \in Families : LoneFamily(f)

\* A step that makes no token active, and at which requests end or stay as they are.
LEMMA LoneShrinks ==
  ASSUME Well, LoneInv, raced \subseteq raced',
         \A t \in Rows : row'[t].family = row[t].family,
         \A t \in Rows : row'[t].status = "active" => row[t].status = "active",
         \A p \in Requests : request'[p].at # "idle" =>
           request'[p].at = request[p].at /\ request'[p].row = request[p].row
  PROVE  LoneInv'
<1> SUFFICES ASSUME NEW f \in Families, f \notin raced' PROVE LoneFamily(f)'
  BY DEF LoneInv, LoneFamily
<1>1. LoneFamily(f) /\ f \notin raced
  BY DEF LoneInv
<1>2. Active(f)' \subseteq Active(f)
  BY DEF Active
<1>3. \A p \in Running(f)' : p \in Running(f) /\ request'[p].at = request[p].at /\ request'[p].row = request[p].row
  <2> SUFFICES ASSUME NEW p \in Requests, request'[p].at # "idle", Fam(p)' = f
               PROVE  p \in Running(f) /\ request'[p].at = request[p].at /\ request'[p].row = request[p].row
    BY DEF Running
  <2>1. request'[p].at = request[p].at /\ request'[p].row = request[p].row /\ request[p].row \in Rows
    BY DEF Well, RowsWell
  <2> QED
    BY <2>1 DEF Running, Fam
<1> QED
  BY <1>1, <1>2, <1>3 DEF LoneFamily

\* The end of a request.
LEMMA LoneEnds ==
  ASSUME Well, NEW q \in Requests, End(q)
  PROVE  \A p \in Requests : request'[p].at # "idle" =>
           request'[p].at = request[p].at /\ request'[p].row = request[p].row
BY DEF End, Quiet, Well, RefreshTypeOK

\* A request begins: the first of its family, or the family counts as raced.
LEMMA LoneBegins ==
  ASSUME Well, LoneInv, NEW q \in Requests, NEW to \in {"rotate", "reuse", "logout"},
         NEW j \in Jars, NEW t \in Rows, NEW S \in SUBSET Rows, Read(q, to, j, t, S),
         row' = row, request[q].at = "idle", row[t].status # "none",
         to = "rotate" => row[t].status = "active"
  PROVE  LoneInv'
<1> DEFINE g == row[t].family
<1> SUFFICES ASSUME NEW f \in Families, f \notin raced' PROVE LoneFamily(f)'
  BY DEF LoneInv, LoneFamily
<1>1. LoneFamily(f) /\ f \notin raced
  BY DEF LoneInv, Read
<1>2. Active(f)' = Active(f)
  BY DEF Active
<1>3. \A p \in Requests : p # q => request'[p].at = request[p].at /\ request'[p].row = request[p].row
  BY DEF Read, Well, RefreshTypeOK
<1>4. request'[q].at = to /\ request'[q].row = t
  BY DEF Read
<1>5. \A p \in Requests : p # q => Fam(p)' = Fam(p)
  BY <1>3 DEF Fam
<1>6. Fam(q)' = g
  BY <1>4 DEF Fam
<1>7. CASE f # g
  <2>1. Running(f)' \subseteq Running(f) /\ q \notin Running(f)'
    BY <1>3, <1>5, <1>6, <1>7 DEF Running
  <2> QED
    BY <1>1, <1>2, <1>3, <2>1 DEF LoneFamily, Running
<1>8. CASE f = g
  <2>1. Running(f) = {}
    BY <1>8 DEF Read
  <2>2. \A p \in Running(f)' : p = q
    BY <1>3, <1>5, <2>1 DEF Running
  <2>3. request'[q].at = "rotate" => Active(f)' \subseteq {request'[q].row}
    BY <1>1, <1>2, <1>4, <1>8 DEF LoneFamily, Active
  <2>4. request'[q].at # "issue"
    BY <1>4
  <2>5. \A u, v \in Active(f)' : u = v
    BY <1>1, <1>2 DEF LoneFamily
  <2> QED
    BY <2>2, <2>3, <2>4, <2>5 DEF LoneFamily
<1> QED
  BY <1>7, <1>8

\* A token comes into a family none of whose tokens is active.
LEMMA LoneIssues ==
  ASSUME Well, LoneInv, NEW q \in Requests, End(q), raced' = raced,
         NEW t \in Rows, NEW g \in Families, NEW x, row[t].status = "none",
         row' = [row EXCEPT ![t] = [status |-> "active", family |-> g, expires |-> x]],
         g \notin raced => Active(g) = {} /\ Running(g) \subseteq {q}
  PROVE  LoneInv'
<1> SUFFICES ASSUME NEW f \in Families, f \notin raced PROVE LoneFamily(f)'
  BY DEF LoneInv, LoneFamily
<1>1. LoneFamily(f)
  BY DEF LoneInv
<1>2. /\ row'[t].family = g /\ row'[t].status = "active"
      /\ \A u \in Rows : u # t => row'[u] = row[u]
  BY DEF Well, RefreshTypeOK
<1>3. \A p \in Running(f)' : /\ p # q /\ p \in Running(f)
                             /\ request'[p].at = request[p].at /\ request'[p].row = request[p].row
  <2> SUFFICES ASSUME NEW p \in Requests, request'[p].at # "idle", Fam(p)' = f
               PROVE  /\ p # q /\ p \in Running(f)
                      /\ request'[p].at = request[p].at /\ request'[p].row = request[p].row
    BY DEF Running
  <2>1. p # q /\ request'[p] = request[p]
    BY DEF End, Quiet, Well, RefreshTypeOK
  <2>2. request[p].row \in Rows /\ request[p].row # t
    BY <2>1 DEF Well, RowsWell
  <2> QED
    BY <1>2, <2>1, <2>2 DEF Running, Fam
<1>4. CASE f # g
  <2>1. Active(f)' \subseteq Active(f)
    BY <1>2, <1>4 DEF Active
  <2> QED
    BY <1>1, <1>3, <2>1 DEF LoneFamily
<1>5. CASE f = g
  <2>1. Active(f)' \subseteq {t} /\ Running(f)' = {}
    BY <1>2, <1>3, <1>5 DEF Active
  <2> QED
    BY <2>1 DEF LoneFamily
<1> QED
  BY <1>4, <1>5

\* refresh rotates the row before it issues the successor, so a family whose
\* requests follow each other never has two active tokens.
THEOREM RotationKeepsOneHolds == RefreshSpec => []RotationKeepsOne
<1> USE RefreshAssumption
<1>1. RefreshInit => LoneInv
  BY DEF RefreshInit, LoneInv, LoneFamily, Active, Running, Free, Quiet
<1>2. Well /\ Well' /\ LoneInv /\ [RefreshNext]_refreshVars => LoneInv'
  <2> SUFFICES ASSUME Well, Well', LoneInv, [RefreshNext]_refreshVars PROVE LoneInv'
    OBVIOUS
  <2>1. ASSUME NEW q \in Requests, NEW j \in Jars, LogIn(q, j) PROVE LoneInv'
    <3>1. PICK t \in Rows, f \in Families :
            /\ row[t].status = "none" /\ Members(f) = {}
            /\ row' = [row EXCEPT ![t] = [status |-> "active", family |-> f,
                                          expires |-> time + RefreshTtl]]
      BY <2>1 DEF LogIn
    <3>2. End(q) /\ raced' = raced
      BY <2>1 DEF LogIn
    <3>3. Active(f) = {} /\ Running(f) \subseteq {q}
      BY <3>1, FamHasRow DEF Active, Members, Running
    <3> QED
      BY <3>1, <3>2, <3>3, LoneIssues
  <2>2. ASSUME NEW q \in Requests, NEW j \in Jars, Present(q, j) PROVE LoneInv'
    <3> DEFINE t == held[j]
    <3>1. t \in Rows /\ row[t].status # "none" /\ request[q].at = "idle" /\ row' = row
      BY <2>2 DEF Present, MayCall, Well, RefreshTypeOK, RowsWell
    <3>2. CASE End(q) /\ raced' = raced
      BY <3>1, <3>2, LoneEnds, LoneShrinks
    <3>3. CASE row[t].status = "active" /\ Read(q, "rotate", j, t, {t})
      BY <3>1, <3>3, LoneBegins
    <3>4. CASE Read(q, "reuse", j, t, Members(row[t].family))
      BY <3>1, <3>4, LoneBegins DEF Members
    <3>5. \/ End(q) /\ raced' = raced
          \/ row[t].status = "active" /\ Read(q, "rotate", j, t, {t})
          \/ Read(q, "reuse", j, t, Members(row[t].family))
      BY <2>2 DEF Present, Reads
    <3> QED
      BY <3>2, <3>3, <3>4, <3>5
  <2>3. ASSUME NEW q \in Requests, NEW j \in Jars, LogOutRead(q, j) PROVE LoneInv'
    <3> DEFINE t == held[j]
    <3>1. t \in Rows /\ row[t].status # "none" /\ request[q].at = "idle" /\ row' = row
      BY <2>3 DEF LogOutRead, MayCall, Well, RefreshTypeOK, RowsWell
    <3>2. CASE End(q) /\ raced' = raced
      BY <3>1, <3>2, LoneEnds, LoneShrinks
    <3>3. CASE Read(q, "logout", j, t, Active(row[t].family))
      BY <3>1, <3>3, LoneBegins DEF Active
    <3> QED
      BY <2>3, <3>2, <3>3 DEF LogOutRead
  <2>4. ASSUME NEW q \in Requests, Rotate(q) PROVE LoneInv'
    <3> DEFINE t == request[q].row
    <3>1. t \in Rows /\ raced' = raced /\ request[q].at = "rotate"
      BY <2>4 DEF Rotate, Well, RowsWell
    <3>2. /\ \A u \in Rows : row'[u].family = row[u].family
          /\ \A u \in Rows : row'[u].status = "active" => row[u].status = "active" /\ u # t
      BY <2>4, <3>1 DEF Rotate, Rotated, Well, RefreshTypeOK
    <3>3. \A p \in Requests :
            /\ request'[p].row = request[p].row
            /\ request'[p].at = IF p = q THEN "issue" ELSE request[p].at
      BY <2>4 DEF Rotate, Well, RefreshTypeOK
    <3> SUFFICES ASSUME NEW f \in Families, f \notin raced PROVE LoneFamily(f)'
      BY <3>1 DEF LoneInv, LoneFamily
    <3>4. LoneFamily(f)
      BY DEF LoneInv
    <3>5. Active(f)' \subseteq Active(f) \ {t}
      BY <3>2 DEF Active
    <3>6. \A p \in Requests : request[p].at # "idle" => Fam(p)' = Fam(p)
      BY <3>2, <3>3 DEF Fam, Well, RowsWell
    <3>7. Running(f)' \subseteq Running(f)
      BY <3>1, <3>3, <3>6 DEF Running
    <3>8. ASSUME NEW p \in Running(f)'
          PROVE  /\ request'[p].at = "rotate" => Active(f)' \subseteq {request'[p].row}
                 /\ request'[p].at = "issue" => Active(f)' = {}
      <4>1. p \in Requests /\ p \in Running(f)
        BY <3>7 DEF Running
      <4>2. CASE p = q
        BY <3>1, <3>3, <3>4, <3>5, <4>1, <4>2 DEF LoneFamily
      <4>3. CASE p # q
        BY <3>3, <3>4, <3>5, <4>1, <4>3 DEF LoneFamily
      <4> QED
        BY <4>2, <4>3
    <3> QED
      BY <3>4, <3>5, <3>7, <3>8 DEF LoneFamily
  <2>5. ASSUME NEW q \in Requests, IssuePair(q) PROVE LoneInv'
    <3>1. PICK t \in Rows :
            /\ row[t].status = "none"
            /\ row' = [row EXCEPT ![t] = [status |-> "active", family |-> Fam(q),
                                          expires |-> time + RefreshTtl]]
      BY <2>5 DEF IssuePair
    <3>2. End(q) /\ raced' = raced /\ request[q].at = "issue"
      BY <2>5 DEF IssuePair
    <3>3. Fam(q) \in Families
      BY <3>2, FamHasRow
    <3>4. Fam(q) \notin raced => Active(Fam(q)) = {} /\ Running(Fam(q)) \subseteq {q}
      <4>1. LoneFamily(Fam(q)) /\ q \in Running(Fam(q))
        BY <3>2, <3>3 DEF LoneInv, Running
      <4> QED
        BY <3>2, <4>1 DEF LoneFamily
    <3> QED
      BY <3>1, <3>2, <3>3, <3>4, LoneIssues
  <2>6. ASSUME NEW q \in Requests, RevokeFamily(q) \/ LogOutCommit(q) PROVE LoneInv'
    <3>1. request[q].read \in SUBSET Rows /\ row' = Revoked(request[q].read) /\ End(q) /\ raced' = raced
      BY <2>6 DEF RevokeFamily, LogOutCommit, Well, RefreshTypeOK
    <3>2. /\ \A t \in Rows : row'[t].family = row[t].family
          /\ \A t \in Rows : row'[t].status = "active" => row[t].status = "active"
      BY <3>1, RevokedTyped DEF Well
    <3> QED
      BY <3>1, <3>2, LoneEnds, LoneShrinks
  <2>7. ASSUME NEW q \in Requests, Fail(q) PROVE LoneInv'
    <3>1. End(q) /\ row' = row /\ raced \subseteq raced'
      BY <2>7 DEF Fail
    <3> QED
      BY <3>1, LoneEnds, LoneShrinks
  <2>8. CASE RemoveUser \/ PassTime \/ UNCHANGED refreshVars
    BY <2>8, LoneShrinks DEF RemoveUser, PassTime, refreshVars
  <2> QED
    BY <2>1, <2>2, <2>3, <2>4, <2>5, <2>6, <2>7, <2>8 DEF RefreshNext
<1>3. LoneInv => RotationKeepsOne
  <2> SUFFICES ASSUME LoneInv, NEW f \in Families \ raced PROVE Cardinality(Active(f)) <= 1
    BY DEF RotationKeepsOne
  <2>1. \A t, u \in Active(f) : t = u
    BY DEF LoneInv, LoneFamily
  <2>2. CASE Active(f) = {}
    BY <2>2, FS_EmptySet
  <2>3. CASE Active(f) # {}
    <3>1. PICK t : t \in Active(f)
      BY <2>3
    <3>2. Active(f) = {t}
      BY <2>1, <3>1
    <3>3. Cardinality({t}) = 1
      BY FS_Singleton, Zenon
    <3>4. Cardinality(Active(f)) = 1
      BY <3>2, <3>3, Zenon
    <3> QED
      BY <3>4
  <2> QED
    BY <2>2, <2>3
<1> QED
  BY <1>1, <1>2, <1>3, RefreshTypeCorrect, PTL DEF RefreshSpec
=================================================================================
