------------------------------ MODULE JobContract ------------------------------
(***************************************************************************)
(* What perform_later promises its callers, whatever adapter carries it    *)
(* out: a submitted job is executed by one worker at a time, an execution  *)
(* that fails or is lost puts it back in line, and once it has an outcome  *)
(* it is never executed again.                                             *)
(***************************************************************************)
CONSTANTS
  Jobs,        \* jobs that may be submitted
  Resolvable   \* those whose class the workers can resolve

VARIABLE stage \* stage[j]: how far j has come

Stage == {"unknown", "waiting", "executing", "settled"}

Init == stage = [j \in Jobs |-> "unknown"]

Move(j, from, to) == stage[j] = from /\ stage' = [stage EXCEPT ![j] = to]

Submit(j) == Move(j, "unknown", "waiting")
Begin(j)  == Move(j, "waiting", "executing")
Settle(j) == Move(j, "executing", "settled")

\* Executions that raise, or that die together with their process.
GiveBack(S) ==
  /\ \A j \in S : stage[j] = "executing"
  /\ stage' = [j \in Jobs |-> IF j \in S THEN "waiting" ELSE stage[j]]

Next ==
  \/ \E j \in Jobs : Submit(j) \/ Begin(j) \/ Settle(j)
  \/ \E S \in SUBSET Jobs : GiveBack(S)

Spec == Init /\ [][Next]_stage

Delivery == \A j \in Resolvable : stage[j] # "unknown" ~> stage[j] = "settled"
================================================================================
