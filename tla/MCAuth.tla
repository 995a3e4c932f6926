------------------------------- MODULE MCAuth -------------------------------
(***************************************************************************)
(* The two backends of lib/auth for TLC, each in a scene of its own: the   *)
(* session backend with the accounts and one-time tokens, and the JWT      *)
(* backend.  The scene that was not chosen stays in its initial state.     *)
(***************************************************************************)
EXTENDS Accounts, RefreshTokens

VARIABLE scene

authVars == <<accountVars, refreshVars, scene>>

\* New rows and families take the lowest free number: the numbers are
\* interchangeable.
InOrder ==
  /\ \A s \in Sessions : session[s].status # "none"
        => \A i \in Sessions : i < s => session[i].status # "none"
  /\ \A t \in Rows : row[t].status # "none" => \A i \in Rows : i < t => row[i].status # "none"
  /\ \A f \in Families : Members(f) # {} => \A i \in Families : i < f => Members(i) # {}

Init == AccountsInit /\ RefreshInit /\ scene \in {"sessions", "jwt"}
Next ==
  /\ \/ scene = "sessions" /\ AccountsNext /\ UNCHANGED refreshVars
     \/ scene = "jwt" /\ RefreshNext /\ UNCHANGED accountVars
  /\ InOrder' /\ UNCHANGED scene

InScene(A) == scene = "sessions" /\ A /\ UNCHANGED <<refreshVars, scene>>
Fairness == WF_authVars(InScene(SweepRead)) /\ WF_authVars(InScene(SweepCommit))

Spec     == Init /\ [][Next]_authVars
FairSpec == Spec /\ Fairness
=============================================================================
