----------------------------- MODULE MCReaderProofs -----------------------------
(***************************************************************************)
(* The composition of MCReader, for all values of the constants: it only   *)
(* behaves as the modules it is put together from, so that what is proved  *)
(* about each of them holds of it.                                         *)
(***************************************************************************)
EXTENDS MCReader, ReaderProofs, NotificationsProofs, FrontEndProofs

\* The specifications of the eight parts.
PartSpecs ==
  /\ StatusSpec /\ DigestSpec /\ ListSpec /\ SlugsSpec
  /\ FeverSpec /\ NotifySpec /\ ViewSpec /\ PaneSpec

\* A step of a scene is a step of its part, and leaves the others alone.
LEMMA SceneStep ==
  ASSUME [Next]_readerVars
  PROVE  /\ [StatusNext]_statusVars /\ [DigestNext]_digestVars /\ [ListNext]_listVars
         /\ [SlugsNext]_slugVars /\ [FeverNext]_feverVars /\ [NotifyNext]_notifyVars
         /\ [ViewNext]_viewVars /\ [PaneNext]_paneVars
         /\ UNCHANGED scene
<1>1. CASE Next
  BY <1>1, Zenon DEF Next
<1>2. CASE UNCHANGED readerVars
  BY <1>2 DEF readerVars
<1> QED
  BY <1>1, <1>2

\* The composition implements each of its parts: nothing that one of them does in it,
\* and no bound of it, is beyond what that part may do by itself.
THEOREM ScenesArePartSteps == Spec => PartSpecs
<1>1. Init => /\ StatusInit /\ DigestInit /\ ListInit /\ SlugsInit
              /\ FeverInit /\ NotifyInit /\ ViewInit /\ PaneInit
  BY DEF Init
<1> QED
  BY <1>1, SceneStep, PTL DEF Spec, PartSpecs, StatusSpec, DigestSpec, ListSpec,
     SlugsSpec, FeverSpec, NotifySpec, ViewSpec, PaneSpec

\* Every variable keeps its type, in every part: from the type correctness of each.
THEOREM ReaderTypeCorrect == Spec => []ReaderTypeOK
<1> DEFINE Types == /\ StatusTypeOK /\ DigestTypeOK /\ ListTypeOK /\ SlugsTypeOK
                    /\ FeverTypeOK /\ NotifyTypeOK /\ ViewTypeOK /\ PaneTypeOK
           AScene == scene \in Scenes
<1>1. Init => AScene
  BY DEF Init
<1>2. AScene /\ [Next]_readerVars => AScene'
  BY SceneStep
<1>3. Types /\ AScene => ReaderTypeOK
  BY Zenon DEF ReaderTypeOK, Scenes
<1>4. Spec => []AScene
  BY <1>1, <1>2, PTL DEF Spec
<1>5. Spec => []Types
  BY ScenesArePartSteps, StatusTypeCorrect, DigestTypeCorrect, ListTypeCorrect,
     SlugsTypeCorrect, FeverTypeCorrect, NotifyTypeCorrect, ViewTypeCorrect,
     PaneTypeCorrect, PTL DEF PartSpecs
<1> QED
  BY <1>3, <1>4, <1>5, PTL
===============================================================================
