----------------------------- MODULE MCSubscriptions ---------------------------------
(***************************************************************************)
(* Instances of Subscriptions for TLC.  The scene chosen at the start says *)
(* what the requests do: race for the same feeds, or change the folders.   *)
(***************************************************************************)
EXTENDS Subscriptions, TLC

CONSTANTS f1, f2, n1, n2, r1
VARIABLE scene

MCDocument == <<[kind |-> "folder", name |-> n1, within |-> 0],
                [kind |-> "feed", feed |-> f1, within |-> 1],
                [kind |-> "folder", name |-> n1, within |-> 1],
                [kind |-> "feed", feed |-> f2, within |-> 3]>>
\* What each request may do in a scene.
Allowed ==
  [feeds |-> [r \in Requests |-> {"idle", "subscribe", "import"}],
   folders |-> [r \in Requests |-> {"idle", "create", "rename", "delete", "move"}
                                    \cup (IF r = r1 THEN {"import"} ELSE {})]]
Init == SubsInit /\ scene \in DOMAIN Allowed
Next == SubsNext /\ (\A r \in Requests : op'[r] \in Allowed[scene][r]) /\ UNCHANGED scene
Fairness ==
  \A f \in Watched : WF_<<subsVars, scene>>(PollFeed(f) /\ UNCHANGED scene)
Spec == Init /\ [][Next]_<<subsVars, scene>> /\ Fairness
===================================================================================
