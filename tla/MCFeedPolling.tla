----------------------------- MODULE MCFeedPolling -----------------------------
(***************************************************************************)
(* Instances of FeedPolling for TLC.                                       *)
(***************************************************************************)
EXTENDS FeedPolling, FiniteSetsExt, TLC

CONSTANT g1, g2 \* guids

\* The first version lists one entry, the second both.
MCEntries == [f \in Feeds |-> [v \in 1..MaxVersion |-> IF v = 1 THEN {g1} ELSE {g1, g2}]]

\* Bound: at most three crashes, failed fetches and new versions altogether.
Eventful ==
  crashes + MapThenSumSet(LAMBDA f : failures[f] + version[f] - 1, Feeds) <= 3

Symmetry == Permutations(Workers)
================================================================================
