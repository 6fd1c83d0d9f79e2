------------------------------ MODULE Materials ------------------------------
(***************************************************************************)
(* uploadMaterials and deleteMaterialFromSession of                        *)
(* modules/teacher/teacher.service.ts: the files of one session, on disk   *)
(* and in the session's column pdf_attachment.                             *)
(*                                                                         *)
(* An upload appends with the database's push; a deletion writes back the  *)
(* list it read, less one name.                                            *)
(***************************************************************************)
EXTENDS Disk

CONSTANT MaxUpload  \* bound: files of one upload

VARIABLES
  attachments,  \* pdf_attachment of the session, NULL once it is deleted
  uploaded,     \* files a teacher was told are saved
  deleted       \* files a teacher was told are deleted

materials == <<attachments, uploaded, deleted>>

MaterialsType ==
  /\ attachments \in (SUBSET Files) \cup {NULL}
  /\ uploaded \subseteq Files /\ deleted \subseteq Files

MaterialsRequest ==
  [pc: {"material.put", "material.push"}, left: 0..MaxUpload, files: SUBSET Files]
  \cup [pc: {"material.write"}, list: SUBSET Files, file: Files]

MaterialsInit == attachments = {} /\ uploaded = {} /\ deleted = {}

Live == attachments # NULL

----------------------------------------------------------------------------
(* uploadMaterials: the files are put on disk one by one, then all names   *)
(* are appended to the column.                                             *)

Upload(r, n) ==
  /\ Live
  /\ Arrive(r, [pc |-> "material.put", left |-> n, files |-> {}])
  /\ UNCHANGED materials

PutMaterial(r, f) ==
  LET left == request[r].left - 1 IN
  /\ At(r, "material.put")
  /\ Put(f)
  /\ Goto(r, [pc |-> IF left = 0 THEN "material.push" ELSE "material.put",
              left |-> left, files |-> request[r].files \cup {f}])
  /\ UNCHANGED materials

(* The update throws if the session is gone; the files stay on disk.       *)
PushReplaces(r) ==  \* mutant: sets the column to the new names
  /\ At(r, "material.push")
  /\ attachments' = IF Live THEN request[r].files ELSE NULL
  /\ uploaded' = IF Live THEN uploaded \cup request[r].files ELSE uploaded
  /\ UNCHANGED deleted
  /\ Finish(r)

Push(r) ==
  /\ At(r, "material.push")
  /\ IF Live
       THEN /\ attachments' = attachments \cup request[r].files
            /\ uploaded' = uploaded \cup request[r].files
       ELSE UNCHANGED <<attachments, uploaded>>
  /\ UNCHANGED deleted
  /\ Finish(r)

----------------------------------------------------------------------------
(* deleteMaterialFromSession; the file on disk is left alone.              *)

DeleteMaterial(r, f) ==
  /\ Live
  /\ f \in attachments
  /\ Arrive(r, [pc |-> "material.write", list |-> attachments \ {f}, file |-> f])
  /\ UNCHANGED materials

WriteListUnlinks(r) ==  \* mutant: also unlinks what is not in its list
  /\ At(r, "material.write")
  /\ attachments' = IF Live THEN request[r].list ELSE NULL
  /\ deleted' = deleted \cup {request[r].file}
  /\ stored' = stored \cap request[r].list
  /\ Goto(r, Idle)
  /\ UNCHANGED <<uploaded, lost, taken, overlap, faults>>

WriteList(r) ==
  /\ At(r, "material.write")
  /\ IF Live
       THEN /\ attachments' = request[r].list
            /\ deleted' = deleted \cup {request[r].file}
       ELSE UNCHANGED <<attachments, deleted>>
  /\ UNCHANGED uploaded
  /\ Finish(r)

(* The session is deleted by its teacher or an admin.                      *)
DeleteSession ==
  /\ Live
  /\ attachments' = NULL
  /\ UNCHANGED <<uploaded, deleted, disk>>

----------------------------------------------------------------------------
(* The pages that list the column (getMaterialsForSession,                 *)
(* getAllMaterialsWithSession): a link for each name.                      *)
MaterialsForSession == IF Live THEN attachments ELSE {}

AllMaterialsWithSession == IF Live THEN {attachments} ELSE {}

MaterialsNext ==
  \/ \E r \in Requests :
       \/ \E n \in 1..MaxUpload : Upload(r, n)
       \/ \E f \in Files : PutMaterial(r, f) \/ DeleteMaterial(r, f)
       \/ Push(r) \/ WriteList(r)
  \/ DeleteSession

----------------------------------------------------------------------------
(* Every link a session's page shows, and every name on its way back to    *)
(* the column, is a file that is on disk or that the driver failed to      *)
(* write, which it tells nobody: no order of uploads, deletions and        *)
(* failures leaves a link to a file that was never put or is removed.      *)
ListedIsStored ==
  /\ MaterialsForSession \subseteq (stored \cup lost) \cap uploaded
  /\ \A r \in Requests : At(r, "material.write") =>
       request[r].list \subseteq (stored \cup lost) \cap uploaded

(* 'Files uploaded and saved successfully', 'Material deleted successfully *)
(* from session': the column holds what was uploaded and not deleted.      *)
(* This holds as long as no two requests have overlapped.                  *)
ListIsExact ==
  ~overlap /\ Live => attachments = uploaded \ deleted
=============================================================================
