-------------------------------- MODULE MCReader --------------------------------
(***************************************************************************)
(* What readers meet, for TLC: the status of articles, the lists and the   *)
(* Fever pages they see, the digests they are mailed, the notifications    *)
(* they get, the slugs of new articles, and the list and the reading pane  *)
(* in the browser, each in a scene of its own.                             *)
(* The scenes that were not chosen stay in one of their initial states.    *)
(***************************************************************************)
EXTENDS ArticleStatus, ArticleDigest, ArticleList, Slugs, FeverSync, Notifications,
        ListView, ArticlePane, TLC

CONSTANT MaxShown \* bound: elements in the list

VARIABLE scene

readerVars ==
  <<statusVars, digestVars, listVars, slugVars, feverVars, notifyVars, viewVars, paneVars, scene>>

\* Two titles: the second variant of one is the first of the other.
MCVariants ==
  [c \in Candidates |->
     CASE c = "title" -> <<"title", "title-2", "title-3">>
       [] c = "title 2" -> <<"title-2", "title-2-2">>
       [] OTHER -> << >>]

\* Bounds: one view besides "all", with one article, and a list that late answers
\* make this long.
ViewBound == (\A v \in Views \ {"all"} : listing[v] = {2}) /\ Len(list) <= MaxShown

\* Bound: of the records of a message, the first may be archived.
NotifyBound == hidden \subseteq Messages \X {1}

Scenes == {"status", "digest", "list", "slugs", "fever", "notify", "view", "pane"}

Init ==
  /\ scene \in Scenes
  /\ StatusInit /\ DigestInit /\ ListInit /\ SlugsInit /\ FeverInit /\ NotifyInit
  /\ ViewInit /\ PaneInit
  /\ ViewBound
  /\ scene # "list" => rank = [i \in Ids |-> Absent]
  /\ scene # "notify" => commits
  /\ scene # "view" => listing = [v \in Views |-> {2}] /\ view = "all"
  /\ scene # "pane" => chosen = Nothing /\ stored = {}
Next ==
  /\ UNCHANGED scene
  /\ \/ /\ scene = "status" /\ StatusNext
        /\ UNCHANGED <<digestVars, listVars, slugVars, feverVars, notifyVars, viewVars, paneVars>>
     \/ /\ scene = "digest" /\ DigestNext
        /\ UNCHANGED <<statusVars, listVars, slugVars, feverVars, notifyVars, viewVars, paneVars>>
     \/ /\ scene = "list" /\ ListNext
        /\ UNCHANGED <<statusVars, digestVars, slugVars, feverVars, notifyVars, viewVars, paneVars>>
     \/ /\ scene = "slugs" /\ SlugsNext
        /\ UNCHANGED <<statusVars, digestVars, listVars, feverVars, notifyVars, viewVars, paneVars>>
     \/ /\ scene = "fever" /\ FeverNext
        /\ UNCHANGED <<statusVars, digestVars, listVars, slugVars, notifyVars, viewVars, paneVars>>
     \/ /\ scene = "notify" /\ NotifyNext /\ NotifyBound'
        /\ UNCHANGED <<statusVars, digestVars, listVars, slugVars, feverVars, viewVars, paneVars>>
     \/ /\ scene = "view" /\ ViewNext /\ ViewBound'
        /\ UNCHANGED <<statusVars, digestVars, listVars, slugVars, feverVars, notifyVars, paneVars>>
     \/ /\ scene = "pane" /\ PaneNext
        /\ UNCHANGED <<statusVars, digestVars, listVars, slugVars, feverVars, notifyVars, viewVars>>
Spec == Init /\ [][Next]_readerVars

\* A type for every variable of the eight parts: those of idle scenes do not change.
ReaderTypeOK ==
  CASE scene = "status" -> StatusTypeOK
    [] scene = "digest" -> DigestTypeOK
    [] scene = "list"   -> ListTypeOK
    [] scene = "slugs"  -> SlugsTypeOK
    [] scene = "fever"  -> FeverTypeOK
    [] scene = "notify" -> NotifyTypeOK
    [] scene = "view"   -> ViewTypeOK
    [] scene = "pane"   -> PaneTypeOK

\* Clients, sessions, streams and pieces go by the same two names, which can be
\* swapped in every scene.
Interchangeable == Permutations(Clients)
=============================================================================
