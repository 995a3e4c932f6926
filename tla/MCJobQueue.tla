------------------------------ MODULE MCJobQueue ------------------------------
(***************************************************************************)
(* Instances of JobQueue for TLC.                                          *)
(***************************************************************************)
EXTENDS JobQueueRefinement, TLC

CONSTANT j1 \* the row of high priority

\* One row outranks the others.
MCPriority == [j \in Jobs |-> IF j = j1 THEN 1 ELSE 0]

\* Processes and threads are interchangeable.
Symmetry == Permutations(Procs) \cup Permutations(Threads)
===============================================================================
