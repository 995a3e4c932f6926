------------------------------ MODULE MCJobOutbox ------------------------------
(***************************************************************************)
(* Instances of JobOutbox for TLC.                                         *)
(***************************************************************************)
EXTENDS JobOutbox, TLC

CONSTANTS
  p1,    \* the process the callers run in
  t1, t2 \* its threads

MCPriority == [j \in Jobs |-> 0]
MCHome     == [j \in Jobs |-> p1]

\* Threads are interchangeable: t2 takes a job only while t1 has one.
FirstThreadFirst ==
  \A p \in Procs : task[p][t1] = Idle => task'[p][t2] \in {Idle, task[p][t2]}

OrderedSpec == OutboxInit /\ [][OutboxNext /\ FirstThreadFirst]_ovars /\ OutboxFairness
================================================================================
