------------------------------- MODULE Uploads -------------------------------
(***************************************************************************)
(* The parts of the system that keep files, on one disk: the materials of  *)
(* a session, the files of an account and the content of the site.         *)
(***************************************************************************)
EXTENDS Materials, Profile, SiteContent

uvars == <<disk, materials, account, content>>

TypeOK ==
  /\ stored \subseteq Files /\ lost \subseteq Files /\ taken \subseteq Files
  /\ overlap \in BOOLEAN
  /\ faults \in 0..MaxFaults
  /\ request \in [Requests -> {Idle} \cup MaterialsRequest \cup ProfileRequest \cup ContentRequest]
  /\ MaterialsType /\ ProfileType /\ ContentType

Init == DiskInit /\ MaterialsInit /\ ProfileInit /\ ContentInit

Next ==
  \/ MaterialsNext /\ UNCHANGED <<account, content>>
  \/ ProfileNext /\ UNCHANGED <<materials, content>>
  \/ ContentNext /\ UNCHANGED <<materials, account>>
  \/ Fails /\ CutShort /\ UNCHANGED <<materials, profile, student, content>>

Spec == Init /\ [][Next]_uvars

----------------------------------------------------------------------------
(* Every link to a file of a session and every image of the site leads to  *)
(* a file that is on disk or that the driver failed to write, although     *)
(* deletions, profile updates and descriptions of the site unlink theirs   *)
(* and write lists back that they have read before.                        *)
LinksResolve ==
  /\ ListedIsStored
  /\ (UNION AllMaterialsWithSession) \cup ItemsPage \subseteq stored \cup lost
=============================================================================
