-------------------------- MODULE JobQueueRefinement --------------------------
(***************************************************************************)
(* The job queue implements JobContract as long as nothing in progress     *)
(* outlasts its row's timer (MaxSlips = 0).                                *)
(***************************************************************************)
EXTENDS JobQueue

Executing(j) == \E p \in Procs, t \in Threads : Executes(p, t, j)

stage == [j \in Jobs |->
  IF status[j] = "absent" THEN "unknown"
  ELSE IF status[j] \in Terminal THEN "settled"
  ELSE IF Executing(j) THEN "executing" ELSE "waiting"]

Contract == INSTANCE JobContract WITH Resolvable <- Served \ Broken

\* perform_later's promise, as JobContract states it: a submitted job is never
\* executed twice at once and never after it settled.
KeepsContract == Contract!Spec

\* ... and every submitted job that can be executed settles.
DeliversJobs == Contract!Delivery

(***************************************************************************)
(* The inductive invariant behind it.  Every row is in one pair of hands:  *)
(* the table while it waits, one poll, one sweep, or one process.          *)
(***************************************************************************)

\* A selected row is still to be polled, and in no other hands.
SelectedInv ==
  \A p \in Procs : phase[p] = "selected" => \A j \in batch[p] :
    /\ status[j] \in Pollable /\ timer[j]
    /\ \A q \in Procs : ~Holds(q, j)
    /\ \A q \in Procs \ {p} : phase[q] # "idle" => j \notin batch[q]

\* A row a process holds is RUNNING, not stale, and in no other hands.
HeldInv ==
  \A p \in Procs, j \in Jobs : Holds(p, j) =>
    /\ status[j] = "running" /\ ~timer[j]
    /\ \A q \in Procs :
         /\ q # p => ~Holds(q, j)
         /\ phase[q] \in {"selected", "swept"} => j \notin batch[q]

\* Within the process it is in one place.
PlaceInv ==
  \A p \in Procs, j \in Jobs :
    /\ backlog[p][j] \in {0, 1}
    /\ phase[p] = "claimed" /\ j \in batch[p] => backlog[p][j] = 0
    /\ \A t \in Threads : Executes(p, t, j) =>
         /\ backlog[p][j] = 0
         /\ phase[p] = "claimed" => j \notin batch[p]
         /\ \A u \in Threads : Executes(p, u, j) => u = t

\* A row a sweep read is still stale, or another sweep has just reset it.
SweptInv ==
  \A p \in Procs :
    /\ spent[p] = {}
    /\ phase[p] = "swept" => \A j \in batch[p] :
         \/ status[j] = "running" /\ timer[j]
         \/ status[j] = "retrying" /\ ~timer[j]

\* A row without an outcome has an attempt left, and its worker's copy is current.
AttemptsInv ==
  /\ \A j \in Jobs :
       /\ attempts[j] <= MaxAttempts
       /\ status[j] \notin Terminal => attempts[j] < MaxAttempts
  /\ \A p \in Procs, t \in Threads :
       task[p][t] # Idle =>
         /\ task[p][t].status = "running"
         /\ task[p][t].attempts = attempts[task[p][t].job]

\* Executions, attempts and crashes add up.
LedgerInv ==
  \A j \in Jobs :
    /\ attempts[j] + (IF Executing(j) THEN 1 ELSE 0) <= runs[j]
    /\ runs[j] <= attempts[j] + crashes + (IF Executing(j) THEN 1 ELSE 0)

OwnershipInv == SelectedInv /\ HeldInv /\ PlaceInv /\ SweptInv /\ AttemptsInv
IInv == OwnershipInv /\ NothingStranded /\ LedgerInv
===============================================================================
