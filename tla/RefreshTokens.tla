------------------------------ MODULE RefreshTokens ------------------------------
(***************************************************************************)
(* The refresh tokens of JWTBackend, the other backend of lib/auth, behind *)
(* the routes /login, /refresh and /logout and on an AsyncEngine: rotation *)
(* and the revocation of families.  A refresh reads its row and rotates it *)
(* in one database session and issues the successor in another; a logout   *)
(* and a reuse revoke the rows they have read.  One user is modelled.      *)
(*                                                                         *)
(* The sweep calls s.delete without an await, which deletes nothing: rows  *)
(* are never deleted.                                                      *)
(***************************************************************************)
EXTENDS Naturals, FiniteSets

CONSTANTS
  Families,   \* ids that logins take
  Rows,       \* token_ids that new rows of auth_refresh_tokens take
  Jars,       \* clients
  WebJars,    \* those that are browsers: their cookie is what a response set
  Requests,   \* requests that can be in flight at once
  RefreshTtl, \* refresh_ttl
  AccessTtl,  \* access_ttl
  MaxTime,    \* bound: time
  MaxFailures, \* bound: requests that fail or are killed
  NoToken, NoFamily

ASSUME RefreshAssumption ==
  /\ RefreshTtl \in Nat /\ AccessTtl \in Nat /\ MaxTime \in Nat /\ MaxFailures \in Nat
  /\ WebJars \subseteq Jars /\ Jars # {}
  /\ NoToken \notin Rows /\ NoFamily \notin Families

Free  == [status |-> "none", family |-> NoFamily, expires |-> 0]
Quiet == [at |-> "idle", jar |-> CHOOSE j \in Jars : TRUE, row |-> NoToken, read |-> {}, alone |-> TRUE]

VARIABLES
  time,     \* the time
  alive,    \* whether the user's account is there
  row,      \* row[t]: the status, the family and the expiry of token t
  held,     \* held[j]: the refresh token client j presents
  access,   \* access[j]: the expiry of its access token
  request,  \* request[q]: what request q does and has loaded; alone (history)
            \* is whether no refresh of its family ran since it read the rows
  failures, \* history: requests that failed
  closed,   \* history: families revoked while none of their refreshes ran
  raced     \* history: families with overlapping or failed requests

refreshVars == <<time, alive, row, held, access, request, failures, closed, raced>>

\* A type for every variable.
RefreshTypeOK ==
  /\ time \in 0..MaxTime /\ alive \in BOOLEAN /\ failures \in 0..MaxFailures
  /\ row \in [Rows -> [status : {"none", "active", "rotated", "revoked"},
                       family : Families \cup {NoFamily}, expires : 0..(MaxTime + RefreshTtl)]]
  /\ held \in [Jars -> Rows \cup {NoToken}]
  /\ access \in [Jars -> 0..(MaxTime + AccessTtl)]
  /\ request \in [Requests -> [at : {"idle", "rotate", "issue", "reuse", "logout"}, jar : Jars,
                               row : Rows \cup {NoToken}, read : SUBSET Rows, alone : BOOLEAN]]
  /\ closed \subseteq Families /\ raced \subseteq Families

RefreshInit ==
  /\ time = 0 /\ alive = TRUE /\ failures = 0 /\ closed = {} /\ raced = {}
  /\ row = [t \in Rows |-> Free]
  /\ held = [j \in Jars |-> NoToken]
  /\ access = [j \in Jars |-> 0]
  /\ request = [q \in Requests |-> Quiet]

-----------------------------------------------------------------------------
Active(f)  == {t \in Rows : row[t].family = f /\ row[t].status = "active"}
Members(f) == {t \in Rows : row[t].family = f}
Fam(q)     == row[request[q].row].family

\* The requests of family f that are in flight; those that will issue a token.
Running(f) == {q \in Requests : request[q].at # "idle" /\ Fam(q) = f}
Issuing(f) == {q \in Running(f) : request[q].at \in {"rotate", "issue"}}

End(q) == request' = [request EXCEPT ![q] = Quiet]

\* A request that has read its rows; one that will issue leaves no other alone.
Read(q, to, j, t, S) ==
  LET f == row[t].family IN
  /\ request' = [p \in Requests |->
       IF p = q THEN [at |-> to, jar |-> j, row |-> t, read |-> S, alone |-> Issuing(f) = {}]
       ELSE IF p \in Running(f) /\ to = "rotate" THEN [request[p] EXCEPT !.alone = FALSE]
       ELSE request[p]]
  /\ raced' = IF Running(f) = {} THEN raced ELSE raced \cup {f}

\* login: _issue_pair with a new family, and the refresh token in the cookie.
LogIn(q, j) ==
  /\ request[q].at = "idle" /\ alive
  /\ \E t \in Rows, f \in Families :
       /\ row[t].status = "none" /\ Members(f) = {}
       /\ row' = [row EXCEPT ![t] = [status |-> "active", family |-> f, expires |-> time + RefreshTtl]]
       /\ held' = [held EXCEPT ![j] = t]
  /\ access' = [access EXCEPT ![j] = time + AccessTtl]
  /\ End(q)
  /\ UNCHANGED <<time, alive, failures, closed, raced>>

\* The dependency of both routes: an access token that has not expired, and the
\* user.  (That the expired one could not be refreshed is the code's.)
MayCall(q, j) == request[q].at = "idle" /\ held[j] # NoToken /\ access[j] > time /\ alive

\* decode_refresh: the claims expire with the row, so the row's own expiry test,
\* which comes later, never finds one.
Decodes(j) == row[held[j]].expires > time

\* Mutant of Reads: a revoked row is rotated like an active one.
ReadsRevoked(s) == IF s = "rotated" THEN "reuse" ELSE "rotate"

\* What the status of the row that was presented leads to.
Reads(s) == CASE s = "active" -> "rotate" [] s = "rotated" -> "reuse" [] OTHER -> "refused"

\* refresh, up to the first commit.
Present(q, j) ==
  LET t == held[j]
      to == Reads(row[t].status) IN
  /\ MayCall(q, j)
  /\ IF ~Decodes(j) \/ to = "refused" THEN End(q) /\ UNCHANGED raced
     ELSE Read(q, to, j, t, IF to = "reuse" THEN Members(row[t].family) ELSE {t})
  /\ UNCHANGED <<time, alive, row, held, access, failures, closed>>

\* Mutant of Rotated: the row is left as it is.
NotRotated(t) == row[t]

\* The row that was presented, rotated: the status alone is written, whatever
\* another request has made of it since.
Rotated(t) == [row[t] EXCEPT !.status = "rotated"]

Rotate(q) ==
  /\ request[q].at = "rotate"
  /\ row' = [row EXCEPT ![request[q].row] = Rotated(request[q].row)]
  /\ request' = [request EXCEPT ![q].at = "issue"]
  /\ UNCHANGED <<time, alive, held, access, failures, closed, raced>>

\* _issue_pair with the family of the claims.  The pair is in the body and, as
\* the route passes no response to refresh, in no cookie; a client that is not a
\* browser can present it all the same.
IssuePair(q) ==
  LET j == request[q].jar IN
  /\ request[q].at = "issue"
  /\ \E t \in Rows :
       /\ row[t].status = "none"
       /\ row' = [row EXCEPT ![t] = [status |-> "active", family |-> Fam(q), expires |-> time + RefreshTtl]]
       /\ held' = IF j \in WebJars THEN held ELSE [held EXCEPT ![j] = t]
  /\ access' = [access EXCEPT ![j] = time + AccessTtl]
  /\ End(q)
  /\ UNCHANGED <<time, alive, failures, closed, raced>>

Revoked(S) == [t \in Rows |-> IF t \in S THEN [row[t] EXCEPT !.status = "revoked"] ELSE row[t]]

\* The family that request q revokes, when no refresh has run since it read it.
Closed(q) == IF request[q].alone THEN {Fam(q)} ELSE {}

\* A rotated token was presented: every row of the family that was read is revoked.
RevokeFamily(q) ==
  /\ request[q].at = "reuse"
  /\ row' = Revoked(request[q].read)
  /\ closed' = closed \cup Closed(q)
  /\ End(q)
  /\ UNCHANGED <<time, alive, held, access, failures, raced>>

\* logout: the active rows of the family are read, if the token decodes.
LogOutRead(q, j) ==
  /\ MayCall(q, j)
  /\ IF Decodes(j)
     THEN Read(q, "logout", j, held[j], Active(row[held[j]].family)) /\ UNCHANGED held
     ELSE End(q) /\ held' = [held EXCEPT ![j] = NoToken] /\ UNCHANGED raced
  /\ UNCHANGED <<time, alive, row, access, failures, closed>>

\* They are revoked, and the cookie is deleted.
LogOutCommit(q) ==
  /\ request[q].at = "logout"
  /\ row' = Revoked(request[q].read)
  /\ closed' = closed \cup Closed(q)
  /\ held' = [held EXCEPT ![request[q].jar] = NoToken]
  /\ End(q)
  /\ UNCHANGED <<time, alive, access, failures, raced>>

\* A request fails at a database call, or its process dies: what it committed
\* stays, a token it rotated without a successor included.
Fail(q) ==
  /\ request[q].at # "idle" /\ failures < MaxFailures
  /\ failures' = failures + 1
  /\ raced' = raced \cup {Fam(q)}
  /\ End(q)
  /\ UNCHANGED <<time, alive, row, held, access, closed>>

\* delete_users.
RemoveUser ==
  /\ alive /\ alive' = FALSE
  /\ UNCHANGED <<time, row, held, access, request, failures, closed, raced>>

\* A unit of time is longer than a request.
PassTime ==
  /\ time < MaxTime /\ \A q \in Requests : request[q].at = "idle"
  /\ time' = time + 1
  /\ UNCHANGED <<alive, row, held, access, request, failures, closed, raced>>

RefreshNext ==
  \/ \E q \in Requests, j \in Jars : LogIn(q, j) \/ Present(q, j) \/ LogOutRead(q, j)
  \/ \E q \in Requests : Rotate(q) \/ IssuePair(q) \/ RevokeFamily(q) \/ LogOutCommit(q) \/ Fail(q)
  \/ RemoveUser \/ PassTime

RefreshSpec == RefreshInit /\ [][RefreshNext]_refreshVars

-----------------------------------------------------------------------------
\* A family that was revoked, by a logout or by the reuse of a rotated token,
\* while none of its refreshes was between its read and its issue, has no active
\* token, then or later.
QuietRevocationHolds == \A f \in closed : Active(f) = {}

\* A family whose requests followed each other, and did not fail, has one active
\* token at most: the successor comes after the rotation.
RotationKeepsOne ==
  \A f \in Families \ raced : Cardinality(Active(f)) <= 1
=============================================================================
