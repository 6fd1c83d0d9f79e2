--------------------------- MODULE UploadsProofs ---------------------------
(***************************************************************************)
(* The theorems about Uploads, for any number of files, requests and rows: *)
(* every link to a material or an image of the site leads to a file that   *)
(* is there, the list of a session is exact while no two requests overlap, *)
(* the site has one description, or as many as requests race to make, and  *)
(* a name in a column of a profile names no file only while an update is   *)
(* about to replace the column, or after one was cut short.                *)
(*                                                                         *)
(* The argument is about who may unlink a name.  Names are given out once, *)
(* so the names that sessions and items hold or are about to hold (Kept)   *)
(* are never among those that a profile or a description of the site holds *)
(* or has read (Doomed), which are all that anybody unlinks.               *)
(* The profile's names are told apart further: those a request has made    *)
(* are its own until it writes them, and those of the row are read by      *)
(* updates of the same column only (OwnNames).                             *)
(***************************************************************************)
EXTENDS Uploads, Integers, FiniteSetTheorems, TLAPS

PutState  == [pc: {"material.put", "material.push"}, left: Int, files: SUBSET Files]
ListState == [pc: {"material.write"}, list: SUBSET Files, file: Files]
RegisterState ==
  [pc: {"register"}, column: Columns, old: SUBSET Files, left: [Columns -> Int],
   made: [Columns -> SUBSET Files]]
UpdateState ==
  [pc: {"update.find", "update.delete", "update.put", "update.row"},
   column: Columns, old: SUBSET Files, left: [Columns -> Int], made: Made]
FileState == RegisterState \cup UpdateState
ItemState == [pc: {"item.row"}, file: Files]
InfosState ==
  [pc: {"info.find", "info.delete", "info.put", "info.check", "info.create", "info.update"},
   logo: BOOLEAN, names: {{}} \cup {{f} : f \in Files}, of: Infos \cup {NULL}]

State ==
  {Idle} \cup PutState \cup ListState \cup FileState \cup [pc: {"item.put"}]
         \cup ItemState \cup InfosState

TablesType ==
  /\ attachments \in (SUBSET Files) \cup {NULL}
  /\ uploaded \subseteq Files /\ deleted \subseteq Files
  /\ profile \in [Columns -> SUBSET Files] \cup {NULL}
  /\ item \in [Items -> Files \cup {NULL}]
  /\ info \in [Infos -> {{}} \cup {{f} : f \in Files} \cup {NULL}]
  /\ overlap \in BOOLEAN

UType == TablesType /\ request \in [Requests -> State]

----------------------------------------------------------------------------
(* Names a request is about to hand to a session or an item, and names it  *)
(* has made or read for a profile or a description.                        *)
KeepsFile(st, f) ==
  \/ st.pc \in {"material.put", "material.push"} /\ f \in st.files
  \/ st.pc = "material.write" /\ f \in st.list
  \/ st.pc = "item.row" /\ st.file = f

ProfilePcs == {"register", "update.find", "update.delete", "update.put", "update.row"}
InfoPcs == {"info.find", "info.delete", "info.put", "info.check", "info.create", "info.update"}

DoomsFile(st, f) ==
  \/ /\ st.pc \in ProfilePcs
     /\ f \in st.old \/ \E c \in Columns : st.made[c] # NULL /\ f \in st.made[c]
  \/ st.pc \in InfoPcs /\ f \in st.names

TableKeeps(f) ==
  \/ Live /\ f \in attachments
  \/ \E i \in Items : item[i] = f

TableDooms(f) ==
  \/ profile # NULL /\ \E c \in Columns : f \in profile[c]
  \/ \E i \in Infos : info[i] # NULL /\ f \in info[i]

Kept(f)   == TableKeeps(f) \/ \E r \in Requests : KeepsFile(request[r], f)
Doomed(f) == TableDooms(f) \/ \E r \in Requests : DoomsFile(request[r], f)

Apart ==
  \A f \in Files :
    /\ Kept(f) => f \in taken /\ f \in stored \cup lost /\ ~Doomed(f)
    /\ Doomed(f) => f \in taken

Uploaded ==
  /\ Live => attachments \subseteq uploaded
  /\ deleted \subseteq uploaded /\ uploaded \subseteq taken
  /\ \A r \in Requests : At(r, "material.write") =>
       request[r].list \subseteq uploaded /\ request[r].file \in uploaded

(* What a request that is alone knows of the session.                      *)
Alone ==
  ~overlap =>
    /\ \A r, q \in Requests : r # q => At(r, "idle") \/ At(q, "idle")
    /\ Live => attachments = uploaded \ deleted
    /\ \A r \in Requests :
         /\ request[r].pc \in {"material.put", "material.push"} =>
              request[r].files \cap uploaded = {}
         /\ At(r, "material.write") /\ Live =>
              request[r].list = attachments \ {request[r].file}

UInv == UType /\ Apart /\ Uploaded /\ Alone

----------------------------------------------------------------------------
(* Request r goes on in state st.  What it keeps or dooms from now on was  *)
(* kept or doomed before, or is a new name; and no kept file is unlinked.  *)
LEMMA Moves ==
  ASSUME UInv, NEW r \in Requests, NEW st \in State, request' = [request EXCEPT ![r] = st],
         taken \subseteq taken',
         \A f \in Files : TableKeeps(f)' => Kept(f),
         \A f \in Files : TableDooms(f)' => Doomed(f),
         \A f \in Files : KeepsFile(st, f) =>
           Kept(f) \/ (f \notin taken /\ f \in taken' /\ f \in stored' \cup lost'),
         \A f \in Files : DoomsFile(st, f) => Doomed(f) \/ (f \notin taken /\ f \in taken'),
         \A f \in Files : Kept(f) /\ f \in stored \cup lost => f \in stored' \cup lost'
  PROVE  Apart'
<1> SUFFICES ASSUME NEW f \in Files
             PROVE  /\ Kept(f)' => f \in taken' /\ f \in (stored' \cup lost') /\ ~Doomed(f)'
                    /\ Doomed(f)' => f \in taken'
  BY DEF Apart
<1>1. /\ Kept(f) => f \in taken /\ f \in stored \cup lost /\ ~Doomed(f)
      /\ Doomed(f) => f \in taken
  BY DEF UInv, Apart
<1>2. Kept(f)' => Kept(f) \/ KeepsFile(st, f)
  <2>1. \A q \in Requests : request'[q] = request[q] \/ request'[q] = st
    BY DEF UInv, UType
  <2> QED
    BY <2>1 DEF Kept, KeepsFile
<1>3. Doomed(f)' => Doomed(f) \/ DoomsFile(st, f)
  <2>1. \A q \in Requests : request'[q] = request[q] \/ request'[q] = st
    BY DEF UInv, UType
  <2> QED
    BY <2>1 DEF Doomed, DoomsFile
<1>4. ~(KeepsFile(st, f) /\ DoomsFile(st, f))
  BY DEF KeepsFile, DoomsFile, ProfilePcs, InfoPcs
<1> QED
  BY <1>1, <1>2, <1>3, <1>4

(* How a step may change overlap: by arriving, or not at all.              *)
Overlaps(r) ==
  \/ At(r, "idle") /\ overlap' = (overlap \/ \E q \in Requests : ~At(q, "idle"))
  \/ ~At(r, "idle") /\ UNCHANGED overlap

MaterialPcs == {"material.put", "material.push", "material.write"}

(* Steps that have nothing to do with the session.                         *)
LEMMA OtherMoves ==
  ASSUME UInv, NEW r \in Requests, NEW st \in State, request' = [request EXCEPT ![r] = st],
         UNCHANGED materials, taken \subseteq taken', st.pc \notin MaterialPcs, Overlaps(r)
  PROVE  Uploaded' /\ Alone' /\ overlap' \in BOOLEAN /\ request' \in [Requests -> State]
<1>1. request' \in [Requests -> State] /\ \A q \in Requests : q # r => request'[q] = request[q]
  BY DEF UInv, UType
<1>2. overlap \in BOOLEAN
  BY DEF UInv, UType, TablesType
<1>3. overlap' \in BOOLEAN
  BY <1>2 DEF Overlaps
<1>4. Uploaded'
  BY <1>1 DEF UInv, Uploaded, materials, Live, At, MaterialPcs
<1>5. ~overlap' => ~overlap /\ \A p, q \in Requests : p # q => At(p, "idle")' \/ At(q, "idle")'
  BY <1>1, <1>2 DEF UInv, Alone, Overlaps, At
<1>6. Alone'
  BY <1>1, <1>5 DEF UInv, Alone, materials, Live, At, MaterialPcs
<1> QED
  BY <1>1, <1>3, <1>4, <1>6

----------------------------------------------------------------------------
(* The materials of the session.                                           *)

(* What Put does to the disk.                                              *)
LEMMA PutNew ==
  ASSUME NEW f \in Files, Put(f)
  PROVE  /\ f \notin taken /\ taken' = taken \cup {f} /\ f \in stored' \cup lost'
         /\ stored \subseteq stored' /\ lost \subseteq lost' /\ UNCHANGED overlap
BY DEF Put

(* Steps that leave the disk alone, profile and content as well.           *)
Quiet == UNCHANGED <<stored, lost, taken, account, content>>

LEMMA UploadStep ==
  ASSUME UInv, NEW r \in Requests, NEW n \in 1..MaxUpload, Upload(r, n),
         UNCHANGED <<account, content>>
  PROVE  UInv'
<1> DEFINE st == [pc |-> "material.put", left |-> n, files |-> {}]
<1>1. st \in State /\ st.pc = "material.put" /\ st.files = {}
  BY DEF State, PutState
<1>2. /\ At(r, "idle") /\ request' = [request EXCEPT ![r] = st] /\ Quiet
      /\ overlap' = (overlap \/ \E q \in Requests : ~At(q, "idle"))
      /\ UNCHANGED materials
  BY DEF Upload, Arrive, Goto, Quiet
<1> HIDE DEF st
<1>3. UType'
  BY <1>1, <1>2 DEF UInv, UType, TablesType, Quiet, materials, account, content
<1>4. Apart'
  <2>1. \A f \in Files : ~KeepsFile(st, f) /\ ~DoomsFile(st, f)
    BY <1>1 DEF KeepsFile, DoomsFile, ProfilePcs, InfoPcs
  <2>2. \A f \in Files : (TableKeeps(f)' => TableKeeps(f)) /\ (TableDooms(f)' => TableDooms(f))
    BY <1>2 DEF Quiet, materials, account, content, TableKeeps, TableDooms, Live
  <2> QED
    BY <1>1, <1>2, <2>1, <2>2, Moves DEF Quiet, Kept, Doomed
<1>5. \A q \in Requests : q # r => request'[q] = request[q]
  BY <1>2 DEF UInv, UType
<1>6. request'[r] = st
  BY <1>2 DEF UInv, UType
<1>7. Uploaded'
  BY <1>1, <1>2, <1>5, <1>6 DEF UInv, Uploaded, materials, Quiet, Live, At
<1>8. ~overlap' => ~overlap /\ \A q \in Requests : At(q, "idle")
  BY <1>2
<1>9. Alone'
  BY <1>1, <1>2, <1>5, <1>6, <1>8 DEF UInv, Alone, materials, Live, At
<1> QED
  BY <1>3, <1>4, <1>7, <1>9 DEF UInv

LEMMA PutMaterialStep ==
  ASSUME UInv, NEW r \in Requests, NEW f \in Files, PutMaterial(r, f),
         UNCHANGED <<account, content>>
  PROVE  UInv'
<1>1. /\ At(r, "material.put") /\ request[r] \in PutState
      /\ request[r].left \in Int /\ request[r].files \subseteq Files
  BY DEF PutMaterial, At, UInv, UType, State, PutState, ListState, FileState, RegisterState, UpdateState, ItemState,
         InfosState, Idle
<1>2. PICK st \in State :
        /\ request' = [request EXCEPT ![r] = st]
        /\ st.pc \in {"material.put", "material.push"} /\ st.files = request[r].files \cup {f}
  <2>1. PICK left \in Int : left = request[r].left - 1
    BY <1>1
  <2>2. PICK pc \in {"material.put", "material.push"} :
          pc = IF left = 0 THEN "material.push" ELSE "material.put"
    OBVIOUS
  <2>3. PICK files \in SUBSET Files : files = request[r].files \cup {f}
    BY <1>1
  <2>4. [pc |-> pc, left |-> left, files |-> files] \in State
    BY DEF State, PutState
  <2> QED
    BY <2>1, <2>2, <2>3, <2>4 DEF PutMaterial, Goto
<1>3. /\ f \notin taken /\ taken' = taken \cup {f} /\ f \in stored' \cup lost'
      /\ stored \subseteq stored' /\ lost \subseteq lost' /\ UNCHANGED <<overlap, materials>>
  BY PutNew DEF PutMaterial
<1>4. UType'
  BY <1>2, <1>3 DEF UInv, UType, TablesType, materials, account, content
<1>5. Apart'
  <2>1. \A g \in Files : /\ KeepsFile(st, g) => KeepsFile(request[r], g) \/ g = f
                         /\ ~DoomsFile(st, g)
    BY <1>1, <1>2 DEF KeepsFile, DoomsFile, ProfilePcs, InfoPcs, At
  <2>2. \A g \in Files : (TableKeeps(g)' => TableKeeps(g)) /\ (TableDooms(g)' => TableDooms(g))
    BY <1>3 DEF materials, account, content, TableKeeps, TableDooms, Live
  <2> QED
    BY <1>2, <1>3, <2>1, <2>2, Moves DEF Kept, Doomed
<1>6. \A q \in Requests : q # r => request'[q] = request[q]
  BY <1>2 DEF UInv, UType
<1>7. request'[r] = st
  BY <1>2 DEF UInv, UType
<1>8. Uploaded'
  BY <1>2, <1>3, <1>6, <1>7 DEF UInv, Uploaded, materials, Live, At
<1>9. ~overlap => st.files \cap uploaded = {}
  BY <1>1, <1>2, <1>3 DEF UInv, Alone, Uploaded, At
<1>10. Alone'
  BY <1>1, <1>2, <1>3, <1>6, <1>7, <1>9 DEF UInv, Alone, materials, Live, At
<1> QED
  BY <1>4, <1>5, <1>8, <1>10 DEF UInv

(* A request is over.                                                      *)
LEMMA Finished ==
  ASSUME UInv, NEW r \in Requests, Finish(r)
  PROVE  /\ request' = [request EXCEPT ![r] = Idle] /\ Idle \in State /\ Idle.pc = "idle"
         /\ \A q \in Requests : q # r => request'[q] = request[q]
         /\ request'[r] = Idle
         /\ \A f : ~KeepsFile(Idle, f) /\ ~DoomsFile(Idle, f)
         /\ UNCHANGED <<stored, lost, taken, overlap>>
BY DEF Finish, Goto, UInv, UType, State, Idle, KeepsFile, DoomsFile, ProfilePcs, InfoPcs

LEMMA PushStep ==
  ASSUME UInv, NEW r \in Requests, Push(r), UNCHANGED <<account, content>>
  PROVE  UInv'
<1>1. /\ At(r, "material.push") /\ request[r] \in PutState
      /\ request[r].files \subseteq Files
  BY DEF Push, At, UInv, UType, State, PutState, ListState, FileState, RegisterState, UpdateState, ItemState,
         InfosState, Idle
<1>2. PICK files \in SUBSET Files : files = request[r].files
  BY <1>1
<1>3. \A f \in files : KeepsFile(request[r], f)
  BY <1>1, <1>2 DEF KeepsFile, At
<1>4. files \subseteq taken
  BY <1>3 DEF UInv, Apart, Kept
<1>5. /\ UNCHANGED deleted
      /\ IF Live THEN attachments' = attachments \cup files /\ uploaded' = uploaded \cup files
                 ELSE UNCHANGED <<attachments, uploaded>>
  BY <1>2 DEF Push
<1>6. Finish(r)
  BY DEF Push
<1>7. UType'
  BY <1>5, <1>6, Finished DEF UInv, UType, TablesType, account, content, Live
<1>8. Apart'
  <2>1. \A f \in Files : TableDooms(f)' => TableDooms(f)
    BY DEF account, content, TableDooms
  <2>2. \A f \in Files : TableKeeps(f)' => Kept(f)
    BY <1>3, <1>5 DEF TableKeeps, Kept, Live, content
  <2> QED
    BY <1>6, <2>1, <2>2, Finished, Moves DEF Doomed
<1>9. Uploaded'
  BY <1>4, <1>5, <1>6, Finished DEF UInv, Uploaded, Live, At
<1>10. Alone'
  <2> SUFFICES ASSUME ~overlap PROVE Alone'
    BY <1>6, Finished DEF Alone
  <2>1. files \cap uploaded = {}
    BY <1>1, <1>2 DEF UInv, Alone, At
  <2>2. \A q \in Requests : request'[q].pc = "idle"
    BY <1>1, <1>6, Finished DEF UInv, Alone, At
  <2>3. Live' => attachments' = uploaded' \ deleted'
    BY <1>5, <2>1 DEF UInv, Uploaded, Alone, Live
  <2> QED
    BY <2>2, <2>3 DEF Alone, At
<1> QED
  BY <1>7, <1>8, <1>9, <1>10 DEF UInv

LEMMA DeleteMaterialStep ==
  ASSUME UInv, NEW r \in Requests, NEW f \in Files, DeleteMaterial(r, f),
         UNCHANGED <<account, content>>
  PROVE  UInv'
<1>1. Live /\ f \in attachments /\ attachments \subseteq Files /\ attachments \subseteq uploaded
  BY DEF DeleteMaterial, Live, UInv, UType, TablesType, Uploaded
<1>2. PICK list \in SUBSET Files : list = attachments \ {f}
  BY <1>1
<1>3. PICK st \in State :
        /\ st = [pc |-> "material.write", list |-> list, file |-> f]
        /\ st.pc = "material.write" /\ st.list = list /\ st.file = f
  <2>1. PICK st : st = [pc |-> "material.write", list |-> list, file |-> f]
    OBVIOUS
  <2>2. st \in ListState /\ st.pc = "material.write" /\ st.list = list /\ st.file = f
    BY <2>1 DEF ListState
  <2> QED
    BY <2>1, <2>2, Zenon DEF State
<1>4. /\ At(r, "idle") /\ request' = [request EXCEPT ![r] = st] /\ Quiet
      /\ overlap' = (overlap \/ \E q \in Requests : ~At(q, "idle"))
      /\ UNCHANGED materials
  BY <1>2, <1>3 DEF DeleteMaterial, Arrive, Goto, Quiet
<1>5. UType'
  BY <1>4 DEF UInv, UType, TablesType, Quiet, materials, account, content
<1>6. Apart'
  <2>1. \A g \in Files : (KeepsFile(st, g) => TableKeeps(g)) /\ ~DoomsFile(st, g)
    BY <1>1, <1>2, <1>3 DEF KeepsFile, DoomsFile, ProfilePcs, InfoPcs, TableKeeps
  <2>2. \A g \in Files : (TableKeeps(g)' => TableKeeps(g)) /\ (TableDooms(g)' => TableDooms(g))
    BY <1>4 DEF Quiet, materials, account, content, TableKeeps, TableDooms, Live
  <2> QED
    BY <1>4, <2>1, <2>2, Moves DEF Quiet, Kept, Doomed
<1>7. request'[r] = st /\ \A q \in Requests : q # r => request'[q] = request[q]
  BY <1>4 DEF UInv, UType
<1>8. Uploaded'
  BY <1>1, <1>2, <1>3, <1>4, <1>7 DEF UInv, Uploaded, materials, Quiet, Live, At
<1>9. ~overlap' => ~overlap /\ \A q \in Requests : At(q, "idle")
  BY <1>4
<1>10. Alone'
  BY <1>2, <1>3, <1>4, <1>7, <1>9 DEF UInv, Alone, materials, Live, At
<1> QED
  BY <1>5, <1>6, <1>8, <1>10 DEF UInv

LEMMA WriteListStep ==
  ASSUME UInv, NEW r \in Requests, WriteList(r), UNCHANGED <<account, content>>
  PROVE  UInv'
<1>1. /\ At(r, "material.write") /\ request[r] \in ListState
      /\ request[r].list \subseteq Files /\ request[r].file \in Files
  BY DEF WriteList, At, UInv, UType, State, PutState, ListState, FileState, RegisterState, UpdateState, ItemState,
         InfosState, Idle
<1>2. PICK list \in SUBSET Files, f \in Files : list = request[r].list /\ f = request[r].file
  BY <1>1
<1>3. /\ \A g \in list : KeepsFile(request[r], g)
      /\ list \subseteq uploaded /\ f \in uploaded
  BY <1>1, <1>2 DEF KeepsFile, At, UInv, Uploaded
<1>4. /\ UNCHANGED uploaded
      /\ IF Live THEN attachments' = list /\ deleted' = deleted \cup {f}
                 ELSE UNCHANGED <<attachments, deleted>>
  BY <1>2 DEF WriteList
<1>5. Finish(r)
  BY DEF WriteList
<1>6. UType'
  BY <1>4, <1>5, Finished DEF UInv, UType, TablesType, account, content, Live
<1>7. Apart'
  <2>1. \A g \in Files : TableDooms(g)' => TableDooms(g)
    BY DEF account, content, TableDooms
  <2>2. \A g \in Files : TableKeeps(g)' => Kept(g)
    BY <1>3, <1>4 DEF TableKeeps, Kept, Live, content
  <2> QED
    BY <1>5, <2>1, <2>2, Finished, Moves DEF Doomed
<1>8. Uploaded'
  BY <1>3, <1>4, <1>5, Finished DEF UInv, Uploaded, Live, At
<1>9. Alone'
  <2> SUFFICES ASSUME ~overlap PROVE Alone'
    BY <1>5, Finished DEF Alone
  <2>1. \A q \in Requests : request'[q].pc = "idle"
    BY <1>1, <1>5, Finished DEF UInv, Alone, At
  <2>2. Live' => attachments' = uploaded' \ deleted'
    <3>1. CASE Live
      <4>1. list = attachments \ {f} /\ attachments = uploaded \ deleted
        BY <1>1, <1>2, <3>1 DEF UInv, Alone
      <4> QED
        BY <1>4, <3>1, <4>1
    <3>2. CASE ~Live
      BY <1>4, <3>2 DEF Live
    <3> QED
      BY <3>1, <3>2
  <2> QED
    BY <2>1, <2>2 DEF Alone, At
<1> QED
  BY <1>6, <1>7, <1>8, <1>9 DEF UInv

(* No request moves.                                                       *)
LEMMA RowsOnly ==
  ASSUME UInv, UNCHANGED <<disk, uploaded, deleted>>, TablesType',
         attachments' = NULL \/ UNCHANGED attachments,
         \A f \in Files : TableKeeps(f)' => TableKeeps(f),
         \A f \in Files : TableDooms(f)' => TableDooms(f)
  PROVE  UInv'
<1>1. UType'
  BY DEF UInv, UType, disk
<1>2. Apart'
  <2>1. \A f \in Files : (Kept(f)' => Kept(f)) /\ (Doomed(f)' => Doomed(f))
    BY DEF Kept, Doomed, disk
  <2> QED
    BY <2>1 DEF UInv, Apart, disk
<1>3. Uploaded' /\ Alone'
  BY DEF UInv, Uploaded, Alone, Live, At, disk
<1> QED
  BY <1>1, <1>2, <1>3 DEF UInv

LEMMA MaterialsStep ==
  ASSUME UInv, MaterialsNext, UNCHANGED <<account, content>>
  PROVE  UInv'
<1>1. CASE DeleteSession
  <2>1. attachments' = NULL /\ UNCHANGED <<uploaded, deleted, disk>>
    BY <1>1 DEF DeleteSession
  <2>2. TablesType'
    <3>1. UNCHANGED <<overlap, profile, item, info>>
      BY <2>1 DEF disk, account, content
    <3> QED
      BY <2>1, <3>1 DEF UInv, UType, TablesType
  <2>3. \A f \in Files : (TableKeeps(f)' => TableKeeps(f)) /\ (TableDooms(f)' => TableDooms(f))
    BY <2>1 DEF TableKeeps, TableDooms, Live, account, content
  <2> QED
    BY <2>1, <2>2, <2>3, RowsOnly
<1> QED
  BY <1>1, UploadStep, PutMaterialStep, PushStep, DeleteMaterialStep, WriteListStep
  DEF MaterialsNext

----------------------------------------------------------------------------
(* Accounts and the content of the site.                                   *)

AccountType == profile \in [Columns -> SUBSET Files] \cup {NULL}
PagesType ==
  /\ item \in [Items -> Files \cup {NULL}]
  /\ info \in [Infos -> {{}} \cup {{f} : f \in Files} \cup {NULL}]

LEMMA OtherStep ==
  ASSUME UInv, NEW r \in Requests, NEW st \in State, request' = [request EXCEPT ![r] = st],
         UNCHANGED materials, taken \subseteq taken', st.pc \notin MaterialPcs, Overlaps(r),
         AccountType', PagesType',
         \A f \in Files : TableKeeps(f)' => Kept(f),
         \A f \in Files : TableDooms(f)' => Doomed(f),
         \A f \in Files : KeepsFile(st, f) =>
           Kept(f) \/ (f \notin taken /\ f \in taken' /\ f \in stored' \cup lost'),
         \A f \in Files : DoomsFile(st, f) => Doomed(f) \/ (f \notin taken /\ f \in taken'),
         \A f \in Files : Kept(f) /\ f \in stored \cup lost => f \in stored' \cup lost'
  PROVE  UInv'
<1>1. Uploaded' /\ Alone' /\ overlap' \in BOOLEAN /\ request' \in [Requests -> State]
  BY OtherMoves
<1>2. Apart'
  BY Moves
<1>3. TablesType'
  BY <1>1 DEF UInv, UType, TablesType, AccountType, PagesType, materials
<1> QED
  BY <1>1, <1>2, <1>3 DEF UInv, UType

(* Steps that change nothing but the request.                              *)
LEMMA RequestStep ==
  ASSUME UInv, NEW r \in Requests, NEW st \in State, request' = [request EXCEPT ![r] = st],
         UNCHANGED materials, Quiet, st.pc \notin MaterialPcs, Overlaps(r),
         \A f \in Files : ~KeepsFile(st, f) /\ (DoomsFile(st, f) => Doomed(f))
  PROVE  UInv'
<1>1. AccountType' /\ PagesType'
  BY DEF Quiet, account, content, AccountType, PagesType, UInv, UType, TablesType
<1>2. \A f \in Files : (TableKeeps(f)' => TableKeeps(f)) /\ (TableDooms(f)' => TableDooms(f))
  BY DEF Quiet, materials, account, content, TableKeeps, TableDooms, Live
<1>3. UNCHANGED <<stored, lost, taken>>
  BY DEF Quiet
<1> QED
  BY <1>1, <1>2, <1>3, OtherStep DEF Kept, Doomed

(* A request that made new file f goes on in a state of the profile.       *)
LEMMA PutStep ==
  ASSUME UInv, NEW r \in Requests, NEW f \in Files, Put(f), ~At(r, "idle"),
         NEW st \in State, request' = [request EXCEPT ![r] = st],
         UNCHANGED <<materials, account, content>>, st.pc \notin MaterialPcs,
         \A g \in Files : KeepsFile(st, g) => g = f,
         \A g \in Files : DoomsFile(st, g) => DoomsFile(request[r], g) \/ g = f
  PROVE  UInv'
<1>1. AccountType' /\ PagesType'
  BY DEF account, content, AccountType, PagesType, UInv, UType, TablesType
<1>2. \A g \in Files : (TableKeeps(g)' => TableKeeps(g)) /\ (TableDooms(g)' => TableDooms(g))
  BY DEF materials, account, content, TableKeeps, TableDooms, Live
<1>3. Overlaps(r) /\ f \notin taken /\ taken' = taken \cup {f} /\ f \in stored' \cup lost'
      /\ stored \subseteq stored' /\ lost \subseteq lost'
  BY PutNew DEF Overlaps
<1> QED
  BY <1>1, <1>2, <1>3, OtherStep DEF Kept, Doomed

(* A request that unlinks a file it dooms.                                 *)
LEMMA DeleteStep ==
  ASSUME UInv, NEW r \in Requests, NEW f \in Files, Delete(f), ~At(r, "idle"),
         NEW st \in State, request' = [request EXCEPT ![r] = st],
         UNCHANGED <<materials, account, content>>, st.pc \notin MaterialPcs,
         DoomsFile(request[r], f),
         \A g \in Files : ~KeepsFile(st, g) /\ (DoomsFile(st, g) => DoomsFile(request[r], g))
  PROVE  UInv'
<1>1. AccountType' /\ PagesType'
  BY DEF account, content, AccountType, PagesType, UInv, UType, TablesType
<1>2. \A g \in Files : (TableKeeps(g)' => TableKeeps(g)) /\ (TableDooms(g)' => TableDooms(g))
  BY DEF materials, account, content, TableKeeps, TableDooms, Live
<1>3. ~Kept(f)
  BY DEF UInv, Apart, Doomed
<1>4. Overlaps(r) /\ UNCHANGED <<taken, lost>> /\ stored \ {f} \subseteq stored'
  BY DEF Overlaps, Delete
<1> QED
  BY <1>1, <1>2, <1>3, <1>4, OtherStep DEF Kept, Doomed

----------------------------------------------------------------------------
(* Accounts.                                                               *)

LEMMA AddMade ==
  ASSUME NEW made \in Made, NEW c \in Columns, NEW f \in Files
  PROVE  /\ Add(made, c, f) \in Made
         /\ \A d \in Columns, g \in Files : Add(made, c, f)[d] # NULL /\ g \in Add(made, c, f)[d] =>
              g = f \/ (made[d] # NULL /\ g \in made[d])
BY DEF Add, Made

(* The state of a request for an account.                                  *)
LEMMA ProfileState ==
  ASSUME UInv, NEW r \in Requests, request[r].pc \in ProfilePcs
  PROVE  /\ request[r] \in FileState /\ ~At(r, "idle")
         /\ \A f : ~KeepsFile(request[r], f)
<1>1. request[r] \in State /\ request[r].pc \in ProfilePcs
  BY DEF UInv, UType
<1> QED
  BY <1>1 DEF ProfilePcs, At, KeepsFile, State, PutState, ListState, FileState, RegisterState, UpdateState, ItemState,
              InfosState, Idle

LEMMA ProfileShape ==
  ASSUME NEW st \in FileState
  PROVE  /\ st \in State /\ st.pc \in ProfilePcs /\ st.pc \notin MaterialPcs
         /\ st.column \in Columns /\ st.old \subseteq Files
         /\ st.left \in [Columns -> Int] /\ st.made \in Made
         /\ st.pc = "register" => st \in RegisterState
         /\ st.pc # "register" => st \in UpdateState
         /\ \A f : ~KeepsFile(st, f)
         /\ \A f : DoomsFile(st, f) <=>
              f \in st.old \/ \E c \in Columns : st.made[c] # NULL /\ f \in st.made[c]
<1>1. /\ st.pc \in ProfilePcs /\ st.column \in Columns /\ st.old \subseteq Files
      /\ st.left \in [Columns -> Int] /\ st.made \in Made
      /\ st.pc = "register" => st \in RegisterState
      /\ st.pc # "register" => st \in UpdateState
  BY DEF FileState, RegisterState, UpdateState, ProfilePcs, Made
<1>2. st \in State
  BY Zenon DEF State
<1> QED
  BY <1>1, <1>2 DEF MaterialPcs, ProfilePcs, InfoPcs, KeepsFile, DoomsFile

LEMMA CountsInt == Counts \subseteq [Columns -> Int]
BY DEF Counts

LEMMA OneLess ==
  ASSUME NEW n \in [Columns -> Int], NEW c \in Columns
  PROVE  [n EXCEPT ![c] = @ - 1] \in [Columns -> Int]
OBVIOUS

LEMMA RegisterStep ==
  ASSUME UInv, NEW r \in Requests, NEW left \in Counts, Register(r, left),
         UNCHANGED <<materials, content>>
  PROVE  UInv'
<1>1. PICK made \in [Columns -> SUBSET Files] : made = [c \in Columns |-> {}]
  OBVIOUS
<1>2. PICK st : st = [pc |-> "register", column |-> "avatar", old |-> {}, left |-> left, made |-> made]
  OBVIOUS
<1>3. st \in FileState /\ st.old = {} /\ st.made = made
  BY <1>2, CountsInt DEF FileState, RegisterState, Columns
<1>4. \A f : ~DoomsFile(st, f)
  BY <1>1, <1>3, ProfileShape
<1>5. /\ At(r, "idle") /\ request' = [request EXCEPT ![r] = st] /\ Quiet
      /\ overlap' = (overlap \/ \E q \in Requests : ~At(q, "idle"))
  BY <1>1, <1>2 DEF Register, Arrive, Goto, Quiet
<1> QED
  BY <1>3, <1>4, <1>5, ProfileShape, RequestStep DEF Overlaps

LEMMA RegisterPutStep ==
  ASSUME UInv, NEW r \in Requests, NEW c \in Columns, NEW f \in Files, RegisterPut(r, c, f),
         UNCHANGED <<materials, content>>
  PROVE  UInv'
<1>1. request[r] \in RegisterState /\ request[r] \in FileState /\ ~At(r, "idle")
  BY ProfileState, ProfileShape DEF RegisterPut, At, ProfilePcs
<1>2. /\ request[r].made \in [Columns -> SUBSET Files] /\ request[r].made \in Made
      /\ request[r].left \in [Columns -> Int]
  BY <1>1, ProfileShape DEF RegisterState
<1>3. PICK made \in [Columns -> SUBSET Files] : made = Add(request[r].made, c, f)
  BY <1>2 DEF Add
<1>4. PICK left \in [Columns -> Int] : left = [request[r].left EXCEPT ![c] = @ - 1]
  BY <1>2, OneLess
<1>5. PICK st : st = [request[r] EXCEPT !.left = left, !.made = made]
  OBVIOUS
<1>6. st \in FileState /\ st.old = request[r].old /\ st.made = made
  BY <1>1, <1>5 DEF FileState, RegisterState
<1>7. request' = [request EXCEPT ![r] = st]
  <2>1. st = [request[r] EXCEPT !.left[c] = @ - 1, !.made = Add(@, c, f)]
    BY <1>1, <1>3, <1>4, <1>5 DEF RegisterState
  <2> QED
    BY <2>1 DEF RegisterPut, Goto
<1>8. \A g \in Files : DoomsFile(st, g) => DoomsFile(request[r], g) \/ g = f
  <2>1. \A d \in Columns, g \in Files : made[d] # NULL /\ g \in made[d] =>
          g = f \/ (request[r].made[d] # NULL /\ g \in request[r].made[d])
    BY <1>2, <1>3, AddMade
  <2> QED
    BY <1>1, <1>6, <2>1, ProfileShape
<1> QED
  BY <1>1, <1>6, <1>7, <1>8, ProfileShape, PutStep DEF RegisterPut

(* The row of the account gets names that a request has made.              *)
LEMMA RegisterRowStep ==
  ASSUME UInv, NEW r \in Requests, RegisterRow(r), UNCHANGED <<materials, content>>
  PROVE  UInv'
<1>1. request[r] \in RegisterState /\ request[r] \in FileState /\ ~At(r, "idle")
  BY ProfileState, ProfileShape DEF RegisterRow, At, ProfilePcs
<1>2. request[r].made \in [Columns -> SUBSET Files]
  BY <1>1 DEF RegisterState
<1>3. profile' = profile \/ (profile' = request[r].made /\ profile = NULL)
  BY DEF RegisterRow
<1>4. Finish(r)
  BY DEF RegisterRow
<1>5. AccountType' /\ PagesType'
  BY <1>2, <1>3 DEF content, AccountType, PagesType, UInv, UType, TablesType
<1>6. \A g \in Files : TableKeeps(g)' => TableKeeps(g)
  BY DEF materials, content, TableKeeps, Live
<1>7. \A g \in Files : TableDooms(g)' => Doomed(g)
  <2>1. \A c \in Columns : request[r].made[c] # NULL
    BY <1>2, DiskAssumption
  <2>2. \A g, c : c \in Columns /\ g \in request[r].made[c] => DoomsFile(request[r], g)
    BY <1>1, <2>1, ProfileShape
  <2> QED
    BY <1>3, <2>2 DEF TableDooms, Doomed, content
<1>8. Overlaps(r) /\ Idle.pc \notin MaterialPcs /\ UNCHANGED <<stored, lost, taken>>
  BY <1>1, <1>4, Finished DEF Overlaps, MaterialPcs
<1> QED
  BY <1>4, <1>5, <1>6, <1>7, <1>8, Finished, OtherStep DEF Kept

LEMMA UpdateStarts ==
  ASSUME NEW left \in [Columns -> Int], NEW made \in Made
  PROVE  /\ UpdateStart(left, made) \in FileState
         /\ UpdateStart(left, made).old = {} /\ UpdateStart(left, made).made = made
BY DEF UpdateStart, FileState, UpdateState, Columns

LEMMA UpdateUserStep ==
  ASSUME UInv, NEW r \in Requests, NEW left \in Counts, UpdateUser(r, left),
         UNCHANGED <<materials, content>>
  PROVE  UInv'
<1>1. PICK made \in Made : made = [c \in Columns |-> NULL]
  BY DEF Made
<1>2. PICK st \in FileState : st = UpdateStart(left, made) /\ st.old = {} /\ st.made = made
  BY CountsInt, UpdateStarts
<1>3. \A f : ~DoomsFile(st, f)
  BY <1>1, <1>2, ProfileShape
<1>4. /\ At(r, "idle") /\ request' = [request EXCEPT ![r] = st] /\ Quiet
      /\ overlap' = (overlap \/ \E q \in Requests : ~At(q, "idle"))
  BY <1>1, <1>2 DEF UpdateUser, Arrive, Goto, Quiet
<1> QED
  BY <1>2, <1>3, <1>4, ProfileShape, RequestStep DEF Overlaps

LEMMA IdleShape ==
  /\ Idle \in State /\ Idle.pc \notin MaterialPcs
  /\ \A f : ~KeepsFile(Idle, f) /\ ~DoomsFile(Idle, f)
BY DEF Idle, State, MaterialPcs, ProfilePcs, InfoPcs, KeepsFile, DoomsFile

(* The old names it reads are those of the account's row.                  *)
LEMMA UpdateFindStep ==
  ASSUME UInv, NEW r \in Requests, UpdateFind(r), UNCHANGED <<materials, content>>
  PROVE  UInv'
<1>1. request[r] \in UpdateState /\ request[r] \in FileState /\ ~At(r, "idle")
  BY ProfileState, ProfileShape DEF UpdateFind, At, ProfilePcs
<1>2. PICK c \in Columns : c = request[r].column
  BY <1>1, ProfileShape
<1>3. PICK old \in SUBSET Files :
        old = (IF profile = NULL THEN {} ELSE profile[c])
  BY <1>2 DEF UInv, UType, TablesType
<1>4. PICK pc \in {"update.put", "update.delete"} :
        pc = IF old = {} THEN "update.put" ELSE "update.delete"
  OBVIOUS
<1>5. PICK st : st = [request[r] EXCEPT !.old = old, !.pc = pc]
  OBVIOUS
<1>6. st \in FileState /\ st.old = old /\ st.made = request[r].made
  BY <1>1, <1>5 DEF FileState, UpdateState
<1>7. request' = [request EXCEPT ![r] = Idle] \/ request' = [request EXCEPT ![r] = st]
  BY <1>2, <1>3, <1>4, <1>5 DEF UpdateFind, Goto
<1>8. \A f \in Files : DoomsFile(st, f) => Doomed(f)
  <2>1. \A f \in old : TableDooms(f)
    BY <1>3 DEF TableDooms
  <2> QED
    BY <1>1, <1>6, <2>1, ProfileShape DEF Doomed
<1>9. Overlaps(r) /\ Quiet
  BY <1>1 DEF UpdateFind, Overlaps, Quiet
<1> QED
  BY <1>6, <1>7, <1>8, <1>9, IdleShape, ProfileShape, RequestStep

LEMMA UpdateDeleteStep ==
  ASSUME UInv, NEW r \in Requests, NEW f \in Files, UpdateDelete(r, f),
         UNCHANGED <<materials, content>>
  PROVE  UInv'
<1>1. /\ request[r] \in UpdateState /\ request[r] \in FileState /\ ~At(r, "idle")
      /\ f \in request[r].old /\ request[r].old \subseteq Files
  BY ProfileState, ProfileShape DEF UpdateDelete, At, ProfilePcs
<1>2. PICK old \in SUBSET Files : old = request[r].old \ {f}
  BY <1>1
<1>3. PICK pc \in {"update.put", "update.delete"} :
        pc = IF request[r].old = {f} THEN "update.put" ELSE "update.delete"
  OBVIOUS
<1>4. PICK st : st = [request[r] EXCEPT !.old = old, !.pc = pc]
  OBVIOUS
<1>5. st \in FileState /\ st.old = old /\ st.made = request[r].made
  BY <1>1, <1>4 DEF FileState, UpdateState
<1>6. request' = [request EXCEPT ![r] = st]
  <2>1. st = [request[r] EXCEPT !.old = @ \ {f}, !.pc = pc]
    BY <1>1, <1>2, <1>4 DEF UpdateState
  <2> QED
    BY <1>3, <2>1 DEF UpdateDelete, Goto
<1>7. \A g \in Files : DoomsFile(st, g) => DoomsFile(request[r], g)
  BY <1>1, <1>2, <1>5, ProfileShape
<1> QED
  BY <1>1, <1>5, <1>6, <1>7, ProfileShape, DeleteStep DEF UpdateDelete

LEMMA UpdatePutStep ==
  ASSUME UInv, NEW r \in Requests, NEW f \in Files, UpdatePut(r, f),
         UNCHANGED <<materials, content>>
  PROVE  UInv'
<1>1. request[r] \in UpdateState /\ request[r] \in FileState /\ ~At(r, "idle")
  BY ProfileState, ProfileShape DEF UpdatePut, At, ProfilePcs
<1>2. PICK c \in Columns : c = request[r].column
  BY <1>1, ProfileShape
<1>3. request[r].made \in Made /\ request[r].left \in [Columns -> Int]
  BY <1>1, ProfileShape
<1>4. PICK left \in [Columns -> Int] : left = [request[r].left EXCEPT ![c] = @ - 1]
  BY <1>3, OneLess
<1>5. PICK made \in Made : made = Add(request[r].made, c, f)
  BY <1>3, AddMade
<1>6. PICK st \in FileState :
        /\ request' = [request EXCEPT ![r] = st]
        /\ st.made = made /\ (st.old = request[r].old \/ st.old = {})
  <2>1. CASE left[c] > 0
    <3>1. PICK st : st = [request[r] EXCEPT !.left = left, !.made = made]
      OBVIOUS
    <3>2. st \in FileState /\ st.old = request[r].old /\ st.made = made
      BY <1>1, <3>1 DEF FileState, UpdateState
    <3> QED
      BY <1>2, <1>4, <1>5, <2>1, <3>1, <3>2 DEF UpdatePut, Goto
  <2>2. CASE ~(left[c] > 0)
    <3>1. PICK st \in FileState : st = UpdateStart(left, made) /\ st.old = {} /\ st.made = made
      BY UpdateStarts
    <3> QED
      BY <1>2, <1>4, <1>5, <2>2, <3>1 DEF UpdatePut, Goto
  <2> QED
    BY <2>1, <2>2
<1>7. \A g \in Files : DoomsFile(st, g) => DoomsFile(request[r], g) \/ g = f
  <2>1. \A d \in Columns, g \in Files : made[d] # NULL /\ g \in made[d] =>
          g = f \/ (request[r].made[d] # NULL /\ g \in request[r].made[d])
    BY <1>3, <1>5, AddMade
  <2> QED
    BY <1>1, <1>6, <2>1, ProfileShape
<1> QED
  BY <1>1, <1>6, <1>7, ProfileShape, PutStep DEF UpdatePut

LEMMA UpdateRowStep ==
  ASSUME UInv, NEW r \in Requests, UpdateRow(r), UNCHANGED <<materials, content>>
  PROVE  UInv'
<1>1. request[r] \in FileState /\ ~At(r, "idle") /\ request[r].made \in Made
  BY ProfileState, ProfileShape DEF UpdateRow, At, ProfilePcs
<1>2. profile' = IF profile = NULL THEN NULL
                 ELSE [c \in Columns |-> IF request[r].made[c] = NULL THEN profile[c]
                                         ELSE request[r].made[c]]
  BY DEF UpdateRow
<1>3. Finish(r)
  BY DEF UpdateRow
<1>4. AccountType'
  BY <1>1, <1>2 DEF AccountType, UInv, UType, TablesType, Made
<1>5. PagesType'
  BY DEF content, PagesType, UInv, UType, TablesType
<1>6. \A g \in Files : TableKeeps(g)' => TableKeeps(g)
  BY DEF materials, content, TableKeeps, Live
<1>7. \A g \in Files : TableDooms(g)' => Doomed(g)
  BY <1>1, <1>2, ProfileShape DEF TableDooms, Doomed, content
<1>8. Overlaps(r) /\ Idle.pc \notin MaterialPcs /\ UNCHANGED <<stored, lost, taken>>
  BY <1>1, <1>3, Finished DEF Overlaps, MaterialPcs
<1> QED
  BY <1>3, <1>4, <1>5, <1>6, <1>7, <1>8, Finished, OtherStep DEF Kept

LEMMA ProfileStep ==
  ASSUME UInv, ProfileNext, UNCHANGED <<materials, content>>
  PROVE  UInv'
<1>1. CASE DeleteAccount
  <2>1. profile' = NULL /\ UNCHANGED <<disk, attachments, uploaded, deleted, item, info>>
    BY <1>1 DEF DeleteAccount, materials, content
  <2>2. TablesType'
    BY <2>1 DEF disk, UInv, UType, TablesType
  <2>3. \A f \in Files : (TableKeeps(f)' => TableKeeps(f)) /\ (TableDooms(f)' => TableDooms(f))
    BY <2>1 DEF TableKeeps, TableDooms, Live
  <2> QED
    BY <2>1, <2>2, <2>3, RowsOnly
<1> QED
  BY <1>1, RegisterStep, RegisterPutStep, RegisterRowStep, UpdateUserStep, UpdateFindStep,
     UpdateDeleteStep, UpdatePutStep, UpdateRowStep
  DEF ProfileNext

----------------------------------------------------------------------------
(* The content of the site.                                                *)

LEMMA InfosShape ==
  ASSUME NEW st \in InfosState
  PROVE  /\ st \in State /\ st.pc \in InfoPcs /\ st.pc \notin MaterialPcs
         /\ st.names \in {{}} \cup {{f} : f \in Files} /\ st.of \in Infos \cup {NULL}
         /\ \A f : ~KeepsFile(st, f) /\ (DoomsFile(st, f) <=> f \in st.names)
<1>1. /\ st.pc \in InfoPcs /\ st.names \in {{}} \cup {{f} : f \in Files}
      /\ st.of \in Infos \cup {NULL}
  BY DEF InfosState, InfoPcs
<1>2. st \in State
  BY Zenon DEF State
<1> QED
  BY <1>1, <1>2 DEF MaterialPcs, ProfilePcs, InfoPcs, KeepsFile, DoomsFile

LEMMA InfosRequest ==
  ASSUME UInv, NEW r \in Requests, request[r].pc \in InfoPcs
  PROVE  request[r] \in InfosState /\ ~At(r, "idle")
<1>1. request[r] \in State /\ request[r].pc \in InfoPcs
  BY DEF UInv, UType
<1> QED
  BY <1>1 DEF InfoPcs, At, State, PutState, ListState, FileState, RegisterState, UpdateState,
              ItemState, InfosState, Idle

LEMMA InfoStates ==
  ASSUME NEW pc \in InfoPcs, NEW logo \in BOOLEAN,
         NEW names \in {{}} \cup {{f} : f \in Files}, NEW i \in Infos \cup {NULL}
  PROVE  /\ InfoState(pc, logo, names, i) \in InfosState
         /\ InfoState(pc, logo, names, i).names = names
BY DEF InfoState, InfosState, InfoPcs

LEMMA ArriveStep ==
  ASSUME UInv, NEW r \in Requests, NEW st \in State, Arrive(r, st),
         UNCHANGED <<materials, account, content>>, st.pc \notin MaterialPcs,
         \A f \in Files : ~KeepsFile(st, f) /\ ~DoomsFile(st, f)
  PROVE  UInv'
<1>1. /\ request' = [request EXCEPT ![r] = st] /\ Quiet /\ Overlaps(r)
  BY DEF Arrive, Goto, Quiet, Overlaps
<1> QED
  BY <1>1, RequestStep

LEMMA ItemStep ==
  ASSUME UInv, NEW r \in Requests, UNCHANGED <<materials, account>>,
         \/ CreateItem(r)
         \/ \E f \in Files : ItemPut(r, f)
         \/ \E i \in Items : ItemRow(r, i)
  PROVE  UInv'
<1>1. CASE CreateItem(r)
  <2>1. PICK st : st = [pc |-> "item.put"]
    OBVIOUS
  <2>2. st \in [pc: {"item.put"}] /\ st.pc = "item.put"
    BY <2>1
  <2>3. st \in State
    BY <2>2, Zenon DEF State
  <2>4. st.pc \notin MaterialPcs /\ \A f : ~KeepsFile(st, f) /\ ~DoomsFile(st, f)
    BY <2>2 DEF KeepsFile, DoomsFile, ProfilePcs, InfoPcs, MaterialPcs
  <2> QED
    BY <1>1, <2>1, <2>3, <2>4, ArriveStep DEF CreateItem
<1>2. ASSUME NEW f \in Files, ItemPut(r, f) PROVE UInv'
  <2>1. PICK st : st = [pc |-> "item.row", file |-> f]
    OBVIOUS
  <2>2. st \in ItemState /\ st.pc = "item.row" /\ st.file = f
    BY <2>1 DEF ItemState
  <2>3. st \in State
    BY <2>2, Zenon DEF State
  <2>4. st.pc \notin MaterialPcs /\ \A g : (KeepsFile(st, g) => g = f) /\ ~DoomsFile(st, g)
    BY <2>2 DEF KeepsFile, DoomsFile, ProfilePcs, InfoPcs, MaterialPcs
  <2> QED
    BY <1>2, <2>1, <2>3, <2>4, PutStep DEF ItemPut, At, Goto
<1>3. ASSUME NEW i \in Items, ItemRow(r, i) PROVE UInv'
  <2>1. At(r, "item.row") /\ request[r] \in ItemState
    BY <1>3 DEF ItemRow, At, UInv, UType, State, PutState, ListState, FileState, RegisterState,
                UpdateState, ItemState, InfosState, Idle
  <2>2. PICK f \in Files : f = request[r].file
    BY <2>1 DEF ItemState
  <2>3. KeepsFile(request[r], f)
    BY <2>1, <2>2 DEF KeepsFile, At
  <2>4. item' = [item EXCEPT ![i] = f] /\ Finish(r) /\ UNCHANGED <<info, profile>>
    BY <1>3, <2>2 DEF ItemRow, account
  <2>5. AccountType' /\ PagesType'
    BY <2>4 DEF AccountType, PagesType, UInv, UType, TablesType
  <2>6. \A g \in Files : TableKeeps(g)' => Kept(g)
    BY <2>3, <2>4 DEF TableKeeps, Kept, Live, materials, UInv, UType, TablesType
  <2>7. \A g \in Files : TableDooms(g)' => TableDooms(g)
    BY <2>4 DEF TableDooms
  <2>8. Overlaps(r) /\ Idle.pc \notin MaterialPcs
    BY <2>1, <2>4, Finished DEF Overlaps, At, MaterialPcs
  <2> QED
    BY <2>4, <2>5, <2>6, <2>7, <2>8, Finished, OtherStep DEF Doomed
<1> QED
  BY <1>1, <1>2, <1>3

LEMMA InfoReads ==
  ASSUME UInv, NEW r \in Requests, UNCHANGED <<materials, account>>,
         \/ \E logo \in BOOLEAN : CreateInfo(r, logo)
         \/ \E i \in Infos \cup {NULL} : InfoFind(r, i) \/ InfoCheck(r, i)
  PROVE  UInv'
<1>1. ASSUME NEW logo \in BOOLEAN, CreateInfo(r, logo) PROVE UInv'
  <2>1. PICK pc \in InfoPcs : pc = IF logo THEN "info.find" ELSE "info.check"
    BY DEF InfoPcs
  <2>2. PICK st \in InfosState : st = InfoState(pc, logo, {}, NULL) /\ st.names = {}
    BY InfoStates
  <2> QED
    BY <1>1, <2>1, <2>2, InfosShape, ArriveStep DEF CreateInfo
<1>2. ASSUME NEW i \in Infos \cup {NULL}, InfoFind(r, i) PROVE UInv'
  <2>1. ~At(r, "idle") /\ FindsInfo(i) /\ Quiet /\ UNCHANGED overlap
    BY <1>2, InfosRequest DEF InfoFind, At, InfoPcs, Quiet
  <2>2. PICK names \in {{}} \cup {{f} : f \in Files} :
          names = IF i = NULL \/ info[i] = {} THEN {} ELSE info[i]
    BY <2>1 DEF FindsInfo, UInv, UType, TablesType
  <2>3. \A f \in names : TableDooms(f)
    BY <2>1, <2>2 DEF FindsInfo, TableDooms
  <2>4. PICK pc \in InfoPcs :
          pc = IF i = NULL \/ info[i] = {} THEN "info.put" ELSE "info.delete"
    BY DEF InfoPcs
  <2>5. PICK st \in InfosState : st = InfoState(pc, TRUE, names, NULL) /\ st.names = names
    BY InfoStates
  <2>6. request' = [request EXCEPT ![r] = st]
    BY <1>2, <2>2, <2>4, <2>5 DEF InfoFind, Goto
  <2>7. \A f : ~KeepsFile(st, f) /\ (DoomsFile(st, f) => Doomed(f))
    BY <2>3, <2>5, InfosShape DEF Doomed
  <2> QED
    BY <2>1, <2>6, <2>7, InfosShape, RequestStep DEF Overlaps
<1>3. ASSUME NEW i \in Infos \cup {NULL}, InfoCheck(r, i) PROVE UInv'
  <2>1. ~At(r, "idle") /\ Quiet /\ UNCHANGED overlap /\ request[r] \in InfosState
    BY <1>3, InfosRequest DEF InfoCheck, At, InfoPcs, Quiet
  <2>2. PICK pc \in {"info.create", "info.update"} :
          pc = IF i = NULL THEN "info.create" ELSE "info.update"
    OBVIOUS
  <2>3. PICK st : st = [request[r] EXCEPT !.pc = pc, !.of = i]
    OBVIOUS
  <2>4. st \in InfosState /\ st.names = request[r].names
    BY <2>1, <2>3 DEF InfosState
  <2>5. request' = [request EXCEPT ![r] = st]
    BY <1>3, <2>2, <2>3 DEF InfoCheck, Goto
  <2>6. \A f : ~KeepsFile(st, f) /\ (DoomsFile(st, f) => Doomed(f))
    BY <2>1, <2>4, InfosShape DEF Doomed
  <2> QED
    BY <2>1, <2>4, <2>5, <2>6, InfosShape, RequestStep DEF Overlaps
<1> QED
  BY <1>1, <1>2, <1>3

LEMMA InfoFiles ==
  ASSUME UInv, NEW r \in Requests, NEW f \in Files, UNCHANGED <<materials, account>>,
         InfoDelete(r, f) \/ InfoPut(r, f)
  PROVE  UInv'
<1>1. ~At(r, "idle") /\ request[r] \in InfosState /\ UNCHANGED content
  BY InfosRequest DEF InfoDelete, InfoPut, At, InfoPcs
<1>2. CASE InfoDelete(r, f)
  <2>1. PICK st \in InfosState : st = InfoState("info.put", TRUE, {}, NULL) /\ st.names = {}
    BY InfoStates DEF InfoPcs
  <2>2. DoomsFile(request[r], f)
    BY <1>1, <1>2, InfosShape DEF InfoDelete
  <2> QED
    BY <1>1, <1>2, <2>1, <2>2, InfosShape, DeleteStep DEF InfoDelete, Goto
<1>3. CASE InfoPut(r, f)
  <2>1. PICK st \in InfosState : st = InfoState("info.check", TRUE, {f}, NULL) /\ st.names = {f}
    BY InfoStates DEF InfoPcs
  <2>2. /\ f \notin taken /\ taken' = taken \cup {f} /\ lost' = lost \cup {f}
        /\ UNCHANGED <<stored, overlap>> /\ request' = [request EXCEPT ![r] = st]
    BY <1>3, <2>1 DEF InfoPut, Goto
  <2>3. AccountType' /\ PagesType'
    BY <1>1 DEF account, content, AccountType, PagesType, UInv, UType, TablesType
  <2>4. \A g \in Files : (TableKeeps(g)' => TableKeeps(g)) /\ (TableDooms(g)' => TableDooms(g))
    BY <1>1 DEF materials, account, content, TableKeeps, TableDooms, Live
  <2>5. Overlaps(r)
    BY <1>1, <2>2 DEF Overlaps
  <2>6. \A g : ~KeepsFile(st, g) /\ (DoomsFile(st, g) => g = f)
    BY <2>1, InfosShape
  <2> QED
    BY <2>2, <2>3, <2>4, <2>5, <2>6, InfosShape, OtherStep DEF Kept, Doomed
<1> QED
  BY <1>2, <1>3

LEMMA InfoRows ==
  ASSUME UInv, NEW r \in Requests, UNCHANGED <<materials, account>>,
         (\E i \in Infos : InfoCreate(r, i)) \/ InfoUpdate(r)
  PROVE  UInv'
<1>1. ~At(r, "idle") /\ request[r] \in InfosState
  BY InfosRequest DEF InfoCreate, InfoUpdate, At, InfoPcs
<1>2. PICK names \in {{}} \cup {{f} : f \in Files} : names = request[r].names
  BY <1>1, InfosShape
<1>3. \A f \in names : DoomsFile(request[r], f)
  BY <1>1, <1>2, InfosShape
<1>4. /\ Finish(r) /\ UNCHANGED <<item, profile>>
      /\ info' = info \/ \E i \in Infos \cup {NULL} : info' = [info EXCEPT ![i] = names]
  BY <1>1, <1>2, InfosShape DEF InfoCreate, InfoUpdate, account
<1>5. info \in [Infos -> {{}} \cup {{f} : f \in Files} \cup {NULL}]
  BY DEF UInv, UType, TablesType
<1>6. /\ info' \in [Infos -> {{}} \cup {{f} : f \in Files} \cup {NULL}]
      /\ \A i \in Infos : info'[i] = info[i] \/ info'[i] = names
  BY <1>4, <1>5
<1>7. AccountType' /\ PagesType'
  BY <1>4, <1>6 DEF AccountType, PagesType, UInv, UType, TablesType
<1>8. \A g \in Files : TableKeeps(g)' => TableKeeps(g)
  BY <1>4 DEF TableKeeps, Live, materials
<1>9. \A g \in Files : TableDooms(g)' => Doomed(g)
  BY <1>3, <1>4, <1>6 DEF TableDooms, Doomed
<1>10. Overlaps(r) /\ Idle.pc \notin MaterialPcs
  BY <1>1, <1>4, Finished DEF Overlaps, MaterialPcs
<1> QED
  BY <1>4, <1>7, <1>8, <1>9, <1>10, Finished, OtherStep DEF Kept

LEMMA ContentStep ==
  ASSUME UInv, ContentNext, UNCHANGED <<materials, account>>
  PROVE  UInv'
<1>1. ASSUME NEW i \in Items, RemoveItem(i) PROVE UInv'
  <2>1. /\ item' = [item EXCEPT ![i] = NULL]
        /\ UNCHANGED <<disk, attachments, uploaded, deleted, info, profile>>
    BY <1>1 DEF RemoveItem, materials, account
  <2>2. TablesType'
    BY <2>1 DEF disk, UInv, UType, TablesType
  <2>3. \A f \in Files : (TableKeeps(f)' => TableKeeps(f)) /\ (TableDooms(f)' => TableDooms(f))
    BY <2>1, DiskAssumption DEF TableKeeps, TableDooms, Live, UInv, UType, TablesType
  <2> QED
    BY <2>1, <2>2, <2>3, RowsOnly
<1> QED
  BY <1>1, ItemStep, InfoReads, InfoFiles, InfoRows DEF ContentNext

----------------------------------------------------------------------------
(* Failures, and the theorems.                                             *)

LEMMA FailStep ==
  ASSUME UInv, Fails, UNCHANGED <<materials, profile, content>>
  PROVE  UInv'
<1>1. PICK rs \in {Requests} \cup {{r} : r \in Requests} :
        request' = [r \in Requests |-> IF r \in rs THEN Idle ELSE request[r]]
  BY DEF Fails
<1>2. UNCHANGED <<stored, lost, taken, overlap, attachments, uploaded, deleted, profile, item, info>>
  BY DEF Fails, materials, content
<1>3. /\ request' \in [Requests -> State]
      /\ \A r \in Requests : request'[r] = request[r] \/ request'[r] = Idle
  BY <1>1, IdleShape DEF UInv, UType
<1>4. UType'
  BY <1>2, <1>3 DEF UInv, UType, TablesType
<1>5. \A f : ~KeepsFile(Idle, f) /\ ~DoomsFile(Idle, f)
  BY IdleShape
<1>6. Apart'
  <2>1. \A f \in Files : (Kept(f)' => Kept(f)) /\ (Doomed(f)' => Doomed(f))
    BY <1>2, <1>3, <1>5 DEF Kept, Doomed, TableKeeps, TableDooms, Live, KeepsFile, DoomsFile
  <2> QED
    BY <1>2, <2>1 DEF UInv, Apart
<1>7. Idle.pc = "idle"
  BY DEF Idle
<1>8. Uploaded' /\ Alone'
  BY <1>2, <1>3, <1>7 DEF UInv, Uploaded, Alone, Live, At
<1> QED
  BY <1>4, <1>6, <1>8 DEF UInv

LEMMA InitInv == Init => UInv
<1> SUFFICES ASSUME Init PROVE UInv
  OBVIOUS
<1>1. /\ stored = {} /\ lost = {} /\ taken = {} /\ overlap = FALSE
      /\ request = [r \in Requests |-> Idle]
      /\ attachments = {} /\ uploaded = {} /\ deleted = {} /\ profile = NULL
      /\ item = [i \in Items |-> NULL] /\ info = [i \in Infos |-> NULL]
  BY DEF Init, DiskInit, MaterialsInit, ProfileInit, ContentInit
<1>2. UType
  BY <1>1, IdleShape DEF UType, TablesType
<1>3. Apart
  BY <1>1, IdleShape, DiskAssumption
  DEF Apart, Kept, Doomed, TableKeeps, TableDooms, KeepsFile, DoomsFile
<1>4. Uploaded /\ Alone
  BY <1>1 DEF Uploaded, Alone, At, Idle
<1> QED
  BY <1>2, <1>3, <1>4 DEF UInv

(* What holds between any two statements of any requests that use files.   *)
THEOREM Invariance == Spec => []UInv
<1>1. UInv /\ [Next]_uvars => UInv'
  <2> SUFFICES ASSUME UInv, [Next]_uvars PROVE UInv'
    OBVIOUS
  <2>1. CASE UNCHANGED uvars
    <3>1. UNCHANGED <<disk, uploaded, deleted, attachments, profile, item, info>>
      BY <2>1 DEF uvars, materials, account, content
    <3>2. TablesType'
      BY <3>1 DEF disk, UInv, UType, TablesType
    <3>3. \A f \in Files : (TableKeeps(f)' => TableKeeps(f)) /\ (TableDooms(f)' => TableDooms(f))
      BY <3>1 DEF TableKeeps, TableDooms, Live
    <3> QED
      BY <3>1, <3>2, <3>3, RowsOnly
  <2> QED
    BY <2>1, MaterialsStep, ProfileStep, ContentStep, FailStep DEF Next
<1> QED
  BY <1>1, InitInv, PTL DEF Spec

(* Every link to a material and every image of the site leads to a file    *)
(* that was put on disk and that nobody unlinks, whatever requests delete  *)
(* files of theirs and write back lists they have read before.             *)
THEOREM LinksCorrect == Spec => []LinksResolve
<1>1. UInv => LinksResolve
  <2> SUFFICES ASSUME UInv PROVE LinksResolve
    OBVIOUS
  <2>1. \A f \in Files : Kept(f) => f \in stored \cup lost
    BY DEF UInv, Apart
  <2>2. \A r \in Requests : At(r, "material.write") =>
          /\ request[r].list \subseteq Files
          /\ \A f \in request[r].list : KeepsFile(request[r], f)
    BY DEF At, KeepsFile, UInv, UType, State, PutState, ListState, FileState, RegisterState,
           UpdateState, ItemState, InfosState, Idle
  <2>3. Live => attachments \subseteq Files /\ \A f \in attachments : Kept(f)
    BY DEF Live, UInv, UType, TablesType, Kept, TableKeeps
  <2>4. ListedIsStored
    BY <2>1, <2>2, <2>3 DEF ListedIsStored, MaterialsForSession, Kept, UInv, Uploaded
  <2>5. \A i \in Items : item[i] # NULL => item[i] \in Files /\ Kept(item[i])
    BY DEF UInv, UType, TablesType, Kept, TableKeeps
  <2>6. (UNION AllMaterialsWithSession) \cup ItemsPage \subseteq stored \cup lost
    BY <2>1, <2>3, <2>5 DEF AllMaterialsWithSession, ItemsPage
  <2> QED
    BY <2>4, <2>6 DEF LinksResolve
<1> QED
  BY <1>1, Invariance, PTL

(* As long as no two requests have overlapped, a session's list is what    *)
(* was uploaded to it and not deleted.                                     *)
THEOREM ListCorrect == Spec => []ListIsExact
<1>1. UInv => ListIsExact
  BY DEF UInv, Alone, ListIsExact
<1> QED
  BY <1>1, Invariance, PTL
----------------------------------------------------------------------------
(* How many descriptions the site gets.  Each row and each request that is *)
(* about to make one counts; a request starts to count only when there is  *)
(* no row, and then at most all the requests do.                           *)

Creating == {r \in Requests : At(r, "info.create")}

Described ==
  LET n == Cardinality(SiteRows) + Cardinality(Creating) IN
  /\ IsFiniteSet(SiteRows)
  /\ n <= Cardinality(Requests)
  /\ ~overlap => n <= 1

(* Rows are not removed: what a request has found it still updates.        *)
FoundStays == \A r \in Requests : At(r, "info.update") => request[r].of \in SiteRows

DescInv == Described /\ FoundStays

LEMMA CreatingFinite ==
  ASSUME IsFiniteSet(Requests)
  PROVE  /\ IsFiniteSet(Creating) /\ Cardinality(Creating) \in Nat
         /\ Cardinality(Creating) <= Cardinality(Requests) /\ Cardinality(Requests) \in Nat
<1>1. Creating \in SUBSET Requests
  BY DEF Creating
<1> QED
  BY <1>1, FS_Subset, FS_CardinalityType

(* Steps that make no description and bring no request to making one.      *)
LEMMA DescKept ==
  ASSUME IsFiniteSet(Requests), DescInv, overlap => overlap', SiteRows' = SiteRows,
         \A q \in Requests :
           request'[q].pc \in {"info.create", "info.update"} => request'[q] = request[q]
  PROVE  DescInv'
<1>1. FoundStays'
  BY Zenon DEF DescInv, FoundStays, At
<1>2. Creating' \in SUBSET Creating
  BY DEF Creating, At
<1>3. /\ IsFiniteSet(Creating) /\ IsFiniteSet(Creating')
      /\ Cardinality(Creating') <= Cardinality(Creating)
  BY <1>2, CreatingFinite, FS_Subset
<1>4. /\ Cardinality(Creating') \in Nat /\ Cardinality(Creating) \in Nat
      /\ Cardinality(Requests) \in Nat /\ Cardinality(SiteRows) \in Nat
  BY <1>3, FS_CardinalityType, CreatingFinite DEF DescInv, Described
<1> QED
  BY <1>1, <1>3, <1>4 DEF DescInv, Described

(* Of these, the steps of one request that leave the rows alone.           *)
LEMMA MoveDesc ==
  ASSUME IsFiniteSet(Requests), UInv, DescInv, UNCHANGED info, overlap => overlap',
         NEW r \in Requests, NEW st, request' = [request EXCEPT ![r] = st],
         st.pc \notin {"info.create", "info.update"}
  PROVE  DescInv'
<1>1. \A q \in Requests : request'[q] = IF q = r THEN st ELSE request[q]
  BY DEF UInv, UType
<1> QED
  BY <1>1, DescKept DEF SiteRows

LEMMA MaterialsDesc ==
  ASSUME IsFiniteSet(Requests), UInv, DescInv, MaterialsNext, UNCHANGED content
  PROVE  DescInv'
<1>1. ASSUME NEW r \in Requests,
             \/ \E n \in 1..MaxUpload : Upload(r, n)
             \/ \E f \in Files : PutMaterial(r, f) \/ DeleteMaterial(r, f)
             \/ Push(r) \/ WriteList(r)
      PROVE  DescInv'
  <2>1. ASSUME NEW st, request' = [request EXCEPT ![r] = st],
               st.pc \in {"material.put", "material.push", "material.write", "idle"},
               overlap => overlap'
        PROVE  DescInv'
    BY <2>1, MoveDesc DEF content
  <2>2. CASE \E n \in 1..MaxUpload : Upload(r, n)
    BY <2>1, <2>2 DEF Upload, Arrive, Goto
  <2>3. ASSUME NEW f \in Files, PutMaterial(r, f) PROVE DescInv'
    <3>1. PICK pc \in {"material.put", "material.push"} :
            pc = IF request[r].left - 1 = 0 THEN "material.push" ELSE "material.put"
      OBVIOUS
    <3>2. request' = [request EXCEPT ![r] =
            [pc |-> pc, left |-> request[r].left - 1, files |-> request[r].files \cup {f}]]
      BY <2>3, <3>1 DEF PutMaterial, Goto
    <3>3. UNCHANGED overlap
      BY <2>3 DEF PutMaterial, Put
    <3> QED
      BY <2>1, <3>1, <3>2, <3>3
  <2>4. ASSUME NEW f \in Files, DeleteMaterial(r, f) PROVE DescInv'
    BY <2>1, <2>4 DEF DeleteMaterial, Arrive, Goto
  <2>5. CASE Push(r) \/ WriteList(r)
    <3>1. request' = [request EXCEPT ![r] = Idle] /\ UNCHANGED overlap /\ Idle.pc = "idle"
      BY <2>5 DEF Push, WriteList, Finish, Goto, Idle
    <3> QED
      BY <2>1, <3>1
  <2> QED
    BY <1>1, <2>2, <2>3, <2>4, <2>5
<1>2. CASE DeleteSession
  BY <1>2, DescKept DEF DeleteSession, disk, content, SiteRows
<1> QED
  BY <1>1, <1>2 DEF MaterialsNext

LEMMA ProfileDesc ==
  ASSUME IsFiniteSet(Requests), UInv, DescInv, ProfileNext, UNCHANGED content
  PROVE  DescInv'
<1> DEFINE Elsewhere(st) == st.pc \in ProfilePcs \cup {"idle"}
<1>1. ASSUME NEW r \in Requests, NEW st, request' = [request EXCEPT ![r] = st],
             Elsewhere(st), overlap => overlap'
      PROVE  DescInv'
  BY <1>1, MoveDesc DEF content, ProfilePcs
<1>2. ASSUME NEW r \in Requests, NEW left \in Counts, Register(r, left) \/ UpdateUser(r, left)
      PROVE  DescInv'
  <2>1. CASE Register(r, left)
    BY <1>1, <2>1 DEF Register, Arrive, Goto, ProfilePcs
  <2>2. CASE UpdateUser(r, left)
    <3>1. PICK st : st = UpdateStart(left, [c \in Columns |-> NULL])
      OBVIOUS
    <3>2. Elsewhere(st)
      BY <3>1 DEF UpdateStart, ProfilePcs
    <3> QED
      BY <1>1, <2>2, <3>1, <3>2 DEF UpdateUser, Arrive, Goto
  <2> QED
    BY <1>2, <2>1, <2>2
<1>3. ASSUME NEW r \in Requests, NEW f \in Files,
             (\E c \in Columns : RegisterPut(r, c, f)) \/ UpdateDelete(r, f) \/ UpdatePut(r, f)
      PROVE  DescInv'
  <2>1. request[r] \in FileState /\ UNCHANGED overlap
    BY <1>3, ProfileState DEF RegisterPut, UpdateDelete, UpdatePut, At, ProfilePcs, Put, Delete
  <2>2. \A x, y, z : /\ Elsewhere([request[r] EXCEPT !.left = x, !.made = y])
                     /\ Elsewhere([request[r] EXCEPT !.left[z] = @ - 1, !.made = y])
    BY <2>1, ProfileShape DEF FileState, RegisterState, UpdateState
  <2>3. CASE UpdateDelete(r, f)
    <3>1. PICK st : st = [request[r] EXCEPT !.old = @ \ {f},
                            !.pc = IF request[r].old = {f} THEN "update.put" ELSE "update.delete"]
      OBVIOUS
    <3>2. Elsewhere(st)
      BY <2>1, <3>1 DEF FileState, RegisterState, UpdateState, ProfilePcs
    <3> QED
      BY <1>1, <2>1, <2>3, <3>1, <3>2 DEF UpdateDelete, Goto
  <2>4. CASE UpdatePut(r, f)
    <3>1. PICK left, made :
            request' = [request EXCEPT ![r] =
                          IF left[request[r].column] > 0
                            THEN [request[r] EXCEPT !.left = left, !.made = made]
                            ELSE UpdateStart(left, made)]
      BY <2>4 DEF UpdatePut, Goto
    <3>2. Elsewhere(UpdateStart(left, made))
      BY DEF UpdateStart, ProfilePcs
    <3> QED
      BY <1>1, <2>1, <2>2, <3>1, <3>2
  <2>5. ASSUME NEW c \in Columns, RegisterPut(r, c, f) PROVE DescInv'
    BY <1>1, <2>1, <2>2, <2>5 DEF RegisterPut, Goto
  <2> QED
    BY <1>3, <2>3, <2>4, <2>5
<1>4. ASSUME NEW r \in Requests, RegisterRow(r) \/ UpdateFind(r) \/ UpdateRow(r) PROVE DescInv'
  <2>1. CASE RegisterRow(r) \/ UpdateRow(r)
    <3>1. request' = [request EXCEPT ![r] = Idle] /\ UNCHANGED overlap /\ Elsewhere(Idle)
      BY <2>1 DEF RegisterRow, UpdateRow, Finish, Goto, Idle
    <3> QED
      BY <1>1, <3>1
  <2>2. CASE UpdateFind(r)
    <3>1. request[r] \in FileState /\ UNCHANGED overlap
      BY <2>2, ProfileState DEF UpdateFind, At, ProfilePcs
    <3> DEFINE old == IF profile = NULL THEN {} ELSE profile[request[r].column]
    <3>2. PICK pc \in {"update.put", "update.delete"} :
            pc = IF old = {} THEN "update.put" ELSE "update.delete"
      OBVIOUS
    <3>3. \/ request' = [request EXCEPT ![r] = Idle]
          \/ request' = [request EXCEPT ![r] = [request[r] EXCEPT !.old = old, !.pc = pc]]
      BY <2>2, <3>2 DEF UpdateFind, Goto
    <3>4. Elsewhere(Idle) /\ Elsewhere([request[r] EXCEPT !.old = old, !.pc = pc])
      BY <3>1 DEF Idle, FileState, RegisterState, UpdateState, ProfilePcs
    <3> QED
      BY <1>1, <3>1, <3>3, <3>4
  <2> QED
    BY <1>4, <2>1, <2>2
<1>5. CASE DeleteAccount
  BY <1>5, DescKept DEF DeleteAccount, disk, content, SiteRows
<1> QED
  BY <1>2, <1>3, <1>4, <1>5 DEF ProfileNext

(* A request has looked for a row.  If it is about to make one, there is   *)
(* none.                                                                   *)
LEMMA CheckDesc ==
  ASSUME IsFiniteSet(Requests), UInv, DescInv,
         NEW r \in Requests, NEW i \in Infos \cup {NULL}, InfoCheck(r, i)
  PROVE  DescInv'
<1>1. /\ request[r] \in InfosState /\ request[r].pc = "info.check"
      /\ FindsInfo(i) /\ UNCHANGED <<overlap, info>>
  BY InfosRequest DEF InfoCheck, At, InfoPcs, content
<1>2. PICK pc \in {"info.create", "info.update"} :
        pc = IF i = NULL THEN "info.create" ELSE "info.update"
  OBVIOUS
<1>3. PICK st : st = [request[r] EXCEPT !.pc = pc, !.of = i]
  OBVIOUS
<1>4. st.pc = pc /\ st.of = i
  BY <1>1, <1>3 DEF InfosState
<1>5. request'[r] = st /\ \A q \in Requests : q # r => request'[q] = request[q]
  BY <1>2, <1>3 DEF InfoCheck, Goto, UInv, UType
<1>6. SiteRows' = SiteRows
  BY <1>1 DEF SiteRows
<1>7. FoundStays'
  <2>1. pc = "info.update" => i \in SiteRows
    BY <1>1, <1>2 DEF FindsInfo, SiteRows
  <2> QED
    BY <1>2, <1>4, <1>5, <1>6, <2>1 DEF DescInv, FoundStays, At
<1>8. CASE pc = "info.update"
  <2>1. Creating' = Creating
    BY <1>1, <1>4, <1>5, <1>8 DEF Creating, At
  <2> QED
    BY <1>1, <1>6, <1>7, <2>1 DEF DescInv, Described
<1>9. CASE pc = "info.create"
  <2>1. SiteRows = {}
    BY <1>1, <1>2, <1>9, ContentAssumption DEF FindsInfo, SiteRows
  <2>2. Cardinality(SiteRows) = 0
    BY <2>1, FS_EmptySet
  <2>3. /\ Cardinality(Creating') <= Cardinality(Requests)
        /\ Cardinality(Requests) \in Nat /\ Cardinality(Creating') \in Nat
    <3>1. Creating' \in SUBSET Requests
      BY DEF Creating
    <3> QED
      BY <3>1, FS_Subset, FS_CardinalityType
  <2>4. ~overlap' => Cardinality(Creating') <= 1
    <3> SUFFICES ASSUME ~overlap' PROVE Cardinality(Creating') <= 1
      OBVIOUS
    <3>1. \A q \in Requests : q # r => At(q, "idle")
      BY <1>1 DEF UInv, Alone, At
    <3>2. Creating' \in SUBSET {r}
      BY <1>5, <3>1 DEF Creating, At
    <3>3. IsFiniteSet({r}) /\ Cardinality({r}) = 1
      BY FS_Singleton
    <3> QED
      BY <3>2, <3>3, FS_Subset
  <2> QED
    BY <1>6, <1>7, <2>2, <2>3, <2>4 DEF DescInv, Described
<1> QED
  BY <1>8, <1>9

(* A description is made: a row more, and a request less that is making    *)
(* one.                                                                    *)
LEMMA CreateDesc ==
  ASSUME IsFiniteSet(Requests), UInv, DescInv,
         NEW r \in Requests, NEW i \in Infos, InfoCreate(r, i)
  PROVE  DescInv'
<1>1. /\ At(r, "info.create") /\ request[r].names # NULL
      /\ info[i] = NULL /\ info' = [info EXCEPT ![i] = request[r].names]
      /\ request' = [request EXCEPT ![r] = Idle] /\ UNCHANGED overlap
  <2>1. request[r].names \subseteq Files
    BY InfosRequest, InfosShape DEF InfoCreate, At, InfoPcs
  <2> QED
    BY <2>1, DiskAssumption DEF InfoCreate, Finish, Goto
<1>2. /\ info'[i] # NULL /\ \A j \in Infos : j # i => info'[j] = info[j]
      /\ ~At(r, "info.create")' /\ ~At(r, "info.update")'
      /\ \A q \in Requests : q # r => request'[q] = request[q]
  BY <1>1 DEF UInv, UType, TablesType, At, Idle
<1>3. /\ SiteRows' = SiteRows \cup {i} /\ i \notin SiteRows
      /\ Creating' = Creating \ {r} /\ r \in Creating
  BY <1>1, <1>2 DEF SiteRows, Creating, At
<1>4. FoundStays'
  BY <1>2, <1>3 DEF DescInv, FoundStays, At
<1>5. IsFiniteSet(SiteRows) /\ IsFiniteSet(Creating)
  BY CreatingFinite DEF DescInv, Described
<1>6. IsFiniteSet(SiteRows \cup {i}) /\ Cardinality(SiteRows \cup {i}) = Cardinality(SiteRows) + 1
  BY <1>3, <1>5, FS_AddElement
<1>7. Cardinality(Creating \ {r}) = Cardinality(Creating) - 1
  BY <1>3, <1>5, FS_RemoveElement
<1>8. Cardinality(SiteRows) \in Nat /\ Cardinality(Creating) \in Nat
  BY <1>5, FS_CardinalityType
<1> QED
  BY <1>1, <1>3, <1>4, <1>6, <1>7, <1>8 DEF DescInv, Described

(* The row a request has found is still there: nothing more comes of it.   *)
LEMMA UpdateDesc ==
  ASSUME IsFiniteSet(Requests), UInv, DescInv, NEW r \in Requests, InfoUpdate(r)
  PROVE  DescInv'
<1>1. /\ request[r].names # NULL /\ request[r].of \in Infos /\ info[request[r].of] # NULL
      /\ info' = info \/ info' = [info EXCEPT ![request[r].of] = request[r].names]
      /\ request' = [request EXCEPT ![r] = Idle] /\ UNCHANGED overlap
  <2>1. request[r].names \subseteq Files /\ At(r, "info.update")
    BY InfosRequest, InfosShape DEF InfoUpdate, At, InfoPcs
  <2> QED
    BY <2>1, DiskAssumption DEF InfoUpdate, Finish, Goto, DescInv, FoundStays, SiteRows
<1>2. \A j \in Infos : info'[j] # NULL <=> info[j] # NULL
  BY <1>1 DEF UInv, UType, TablesType
<1>3. \A q \in Requests : request'[q] = IF q = r THEN Idle ELSE request[q]
  BY <1>1 DEF UInv, UType
<1> QED
  BY <1>1, <1>2, <1>3, DescKept DEF SiteRows, Idle

LEMMA ContentDesc ==
  ASSUME IsFiniteSet(Requests), UInv, DescInv, ContentNext
  PROVE  DescInv'
<1>1. ASSUME NEW r \in Requests, NEW st, request' = [request EXCEPT ![r] = st],
             st.pc \in {"item.put", "item.row", "info.find", "info.delete", "info.put",
                        "info.check", "idle"},
             overlap => overlap', UNCHANGED info
      PROVE  DescInv'
  BY <1>1, MoveDesc
<1>2. ASSUME NEW r \in Requests, CreateItem(r) \/ \E logo \in BOOLEAN : CreateInfo(r, logo)
      PROVE  DescInv'
  <2>1. CASE CreateItem(r)
    BY <1>1, <2>1 DEF CreateItem, Arrive, Goto, content
  <2>2. ASSUME NEW logo \in BOOLEAN, CreateInfo(r, logo) PROVE DescInv'
    <3>1. PICK pc \in {"info.find", "info.check"} :
            pc = IF logo THEN "info.find" ELSE "info.check"
      OBVIOUS
    <3> QED
      BY <1>1, <2>2, <3>1 DEF CreateInfo, InfoState, Arrive, Goto, content
  <2> QED
    BY <1>2, <2>1, <2>2
<1>3. ASSUME NEW r \in Requests, NEW f \in Files, ItemPut(r, f) \/ InfoDelete(r, f) \/ InfoPut(r, f)
      PROVE  DescInv'
  <2>1. UNCHANGED <<overlap, info>>
    BY <1>3 DEF ItemPut, InfoDelete, InfoPut, Put, Delete, content
  <2> QED
    BY <1>1, <1>3, <2>1 DEF ItemPut, InfoDelete, InfoPut, InfoState, Goto
<1>4. ASSUME NEW r \in Requests, NEW i \in Items, ItemRow(r, i) PROVE DescInv'
  BY <1>1, <1>4 DEF ItemRow, Finish, Goto, Idle
<1>5. ASSUME NEW r \in Requests, NEW i \in Infos \cup {NULL}, InfoFind(r, i) PROVE DescInv'
  <2>1. CASE i = NULL \/ info[i] = {}
    BY <1>1, <1>5, <2>1 DEF InfoFind, InfoState, Goto, content
  <2>2. CASE ~(i = NULL \/ info[i] = {})
    BY <1>1, <1>5, <2>2 DEF InfoFind, InfoState, Goto, content
  <2> QED
    BY <2>1, <2>2
<1>6. ASSUME NEW i \in Items, RemoveItem(i) PROVE DescInv'
  BY <1>6, DescKept DEF RemoveItem, disk, SiteRows
<1> QED
  BY <1>2, <1>3, <1>4, <1>5, <1>6, CheckDesc, CreateDesc, UpdateDesc DEF ContentNext

LEMMA DescStep ==
  ASSUME IsFiniteSet(Requests), UInv, DescInv, [Next]_uvars
  PROVE  DescInv'
<1>1. CASE Fails /\ UNCHANGED content
  <2>1. \A r \in Requests : request'[r] = request[r] \/ request'[r] = Idle
    BY <1>1 DEF Fails
  <2> QED
    BY <1>1, <2>1, DescKept DEF Fails, content, SiteRows, Idle
<1>2. CASE UNCHANGED uvars
  BY <1>2, DescKept DEF uvars, disk, content, SiteRows
<1> QED
  BY <1>1, <1>2, MaterialsDesc, ProfileDesc, ContentDesc DEF Next

(* The site has one description while no two requests overlap, and at most *)
(* as many as requests can race to make it: what was looked for is looked  *)
(* for by every one of them, and no row is removed.                        *)
THEOREM DescriptionCorrect ==
  ASSUME IsFiniteSet(Requests)
  PROVE  Spec => []OneDescription
<1>1. Init => DescInv
  <2> SUFFICES ASSUME Init PROVE DescInv
    OBVIOUS
  <2>1. SiteRows = {} /\ Creating = {} /\ FoundStays
    BY DEF Init, DiskInit, ContentInit, SiteRows, Creating, FoundStays, At, Idle
  <2> QED
    BY <2>1, FS_EmptySet, FS_CardinalityType DEF DescInv, Described
<1>2. DescInv => OneDescription
  <2> SUFFICES ASSUME DescInv PROVE OneDescription
    OBVIOUS
  <2>1. Described /\ Cardinality(Creating) \in Nat /\ Cardinality(Requests) \in Nat
    BY CreatingFinite DEF DescInv
  <2>2. Cardinality(SiteRows) \in Nat
    BY <2>1, FS_CardinalityType DEF Described
  <2> QED
    BY <2>1, <2>2 DEF Described, OneDescription, Creating
<1>3. UInv /\ DescInv /\ [Next]_uvars => DescInv'
  BY DescStep
<1> QED
  BY <1>1, <1>2, <1>3, Invariance, PTL DEF Spec

----------------------------------------------------------------------------
(* The files of the account.  Each name an update or a registration has    *)
(* made is its own until it writes it to the row; each name of the row is  *)
(* in one column, and only updates that will replace that column read it.  *)

MadeIn(st, c, f) == st.pc \in ProfilePcs /\ st.made[c] # NULL /\ f \in st.made[c]
OldIn(st, c, f)  == st.pc \in ProfilePcs /\ st.column = c /\ f \in st.old
HasIn(c, f)      == profile # NULL /\ f \in profile[c]

InfoName(f) ==
  \/ \E i \in Infos : info[i] # NULL /\ f \in info[i]
  \/ \E r \in Requests : request[r].pc \in InfoPcs /\ f \in request[r].names

OwnNames ==
  \A f \in Files, c, d \in Columns, r, q \in Requests :
    /\ MadeIn(request[r], c, f) =>
         /\ f \in stored \cup lost /\ ~InfoName(f) /\ ~HasIn(d, f) /\ ~OldIn(request[q], d, f)
         /\ MadeIn(request[q], d, f) => q = r /\ d = c
    /\ HasIn(c, f) =>
         /\ ~InfoName(f)
         /\ HasIn(d, f) => d = c
         /\ OldIn(request[r], d, f) => d = c
    /\ OldIn(request[r], c, f) => ~InfoName(f)

Resolved ==
  \A f \in Files, c \in Columns : HasIn(c, f) =>
    f \in stored \cup lost \/ (\E r \in Requests : Replaces(r, c)) \/ c \in cut

NameInv == OwnNames /\ Resolved

(* All these names have been given out.                                    *)
LEMMA AllTaken ==
  ASSUME UInv, NEW f \in Files, NEW c \in Columns, NEW r \in Requests,
         HasIn(c, f) \/ MadeIn(request[r], c, f) \/ OldIn(request[r], c, f) \/ InfoName(f)
  PROVE  f \in taken
<1>1. Doomed(f)
  BY DEF HasIn, MadeIn, OldIn, InfoName, Doomed, TableDooms, DoomsFile
<1> QED
  BY <1>1 DEF UInv, Apart

(* A new name: made in column k, and of nothing else.                      *)
NewIn(k, c, f) == c = k /\ f \notin taken /\ f \in (stored' \cup lost') /\ ~InfoName(f)'

(* Request r goes on in state st: what it has made, read and written from  *)
(* now on, and what may have been unlinked.                                *)
LEMMA NamesMove ==
  ASSUME UInv, OwnNames, Resolved,
         NEW r \in Requests, NEW st \in State, request' = [request EXCEPT ![r] = st],
         NEW k \in Columns,
         \A f \in Files, c \in Columns : MadeIn(st, c, f) => MadeIn(request[r], c, f) \/ NewIn(k, c, f),
         \A f \in Files, c \in Columns : OldIn(st, c, f) => OldIn(request[r], c, f) \/ HasIn(c, f),
         \A f \in Files, c \in Columns : HasIn(c, f)' =>
           HasIn(c, f) \/ (MadeIn(request[r], c, f) /\ \A d \in Columns : ~MadeIn(st, d, f)),
         \A f \in Files : InfoName(f)' => InfoName(f) \/ f \notin taken,
         \A f \in stored \cup lost : f \in (stored' \cup lost') \/ InfoName(f)
           \/ \E c \in Columns : OldIn(request[r], c, f) /\ Replaces(r, c)',
         \A c \in Columns :
           /\ Replaces(r, c) =>
                Replaces(r, c)' \/ \A f \in Files : HasIn(c, f)' => MadeIn(request[r], c, f)
           /\ c \in cut => c \in cut' \/ \A f \in Files : HasIn(c, f)' => MadeIn(request[r], c, f)
  PROVE  OwnNames' /\ Resolved'
<1>1. \A q \in Requests : request'[q] = IF q = r THEN st ELSE request[q]
  BY DEF UInv, UType
<1>2. \A f \in Files, c \in Columns, q \in Requests :
        /\ MadeIn(request'[q], c, f) => MadeIn(request[q], c, f) \/ (q = r /\ NewIn(k, c, f))
        /\ OldIn(request'[q], c, f) => OldIn(request[q], c, f) \/ (q = r /\ HasIn(c, f))
  BY <1>1
<1>3. \A f \in Files, c \in Columns, q \in Requests : f \notin taken =>
        ~HasIn(c, f) /\ ~MadeIn(request[q], c, f) /\ ~OldIn(request[q], c, f) /\ ~InfoName(f)
  BY AllTaken
<1>4. \A f \in Files, c \in Columns, q \in Requests : MadeIn(request[q], c, f) =>
        f \in (stored' \cup lost')
  BY DEF OwnNames
<1>5. \A f \in Files, c \in Columns, q \in Requests :
        HasIn(c, f) \/ MadeIn(request[q], c, f) \/ OldIn(request[q], c, f) => ~InfoName(f)'
  BY <1>3 DEF OwnNames
<1>6. OwnNames'
  <2> SUFFICES ASSUME NEW f \in Files, NEW c \in Columns, NEW d \in Columns,
                      NEW p \in Requests, NEW q \in Requests
               PROVE  /\ MadeIn(request'[p], c, f) =>
                           /\ f \in (stored' \cup lost') /\ ~InfoName(f)' /\ ~HasIn(d, f)'
                           /\ ~OldIn(request'[q], d, f)
                           /\ MadeIn(request'[q], d, f) => q = p /\ d = c
                      /\ HasIn(c, f)' =>
                           /\ ~InfoName(f)'
                           /\ HasIn(d, f)' => d = c
                           /\ OldIn(request'[p], d, f) => d = c
                      /\ OldIn(request'[p], c, f) => ~InfoName(f)'
    BY DEF OwnNames, OldIn, MadeIn
  <2>1. ASSUME MadeIn(request'[p], c, f)
        PROVE  /\ f \in (stored' \cup lost') /\ ~InfoName(f)' /\ ~HasIn(d, f)'
               /\ ~OldIn(request'[q], d, f)
               /\ MadeIn(request'[q], d, f) => q = p /\ d = c
    <3>1. CASE MadeIn(request[p], c, f)
      <4>1. /\ f \in taken /\ f \in (stored' \cup lost') /\ ~InfoName(f)' /\ ~HasIn(d, f)
            /\ ~OldIn(request[q], d, f)
            /\ MadeIn(request[q], d, f) => q = p /\ d = c
        BY <1>3, <1>4, <1>5, <3>1 DEF OwnNames
      <4>2. ~OldIn(request'[q], d, f) /\ (MadeIn(request'[q], d, f) => q = p /\ d = c)
        BY <1>2, <4>1 DEF NewIn
      <4>3. ~HasIn(d, f)'
        <5>1. SUFFICES ASSUME HasIn(d, f)' PROVE FALSE
          OBVIOUS
        <5>2. MadeIn(request[r], d, f) /\ ~MadeIn(st, c, f)
          BY <4>1, <5>1
        <5>3. p = r
          BY <3>1, <5>2 DEF OwnNames
        <5> QED
          BY <1>1, <2>1, <5>2, <5>3
      <4> QED
        BY <4>1, <4>2, <4>3
    <3>2. CASE p = r /\ NewIn(k, c, f)
      BY <1>2, <1>3, <3>2 DEF NewIn
    <3> QED
      BY <1>2, <2>1, <3>1, <3>2
  <2>2. ASSUME HasIn(c, f)'
        PROVE  /\ ~InfoName(f)'
               /\ HasIn(d, f)' => d = c
               /\ OldIn(request'[p], d, f) => d = c
    BY <1>2, <1>5, <2>2 DEF OwnNames
  <2>3. OldIn(request'[p], c, f) => ~InfoName(f)'
    BY <1>2, <1>5
  <2> QED
    BY <2>1, <2>2, <2>3
<1>7. Resolved'
  <2> SUFFICES ASSUME NEW f \in Files, NEW c \in Columns, HasIn(c, f)',
                      f \notin (stored' \cup lost')
               PROVE  (\E q \in Requests : Replaces(q, c)') \/ c \in cut'
    BY DEF Resolved
  <2>1. HasIn(c, f) /\ ~MadeIn(request[r], c, f)
    BY <1>4
  <2>2. CASE f \in stored \cup lost
    <3>1. PICK d \in Columns : OldIn(request[r], d, f) /\ Replaces(r, d)'
      BY <2>1, <2>2 DEF OwnNames
    <3> QED
      BY <2>1, <3>1 DEF OwnNames
  <2>3. ASSUME NEW q \in Requests, Replaces(q, c) PROVE Replaces(q, c)'
    BY <1>1, <2>1, <2>3 DEF Replaces
  <2>4. c \in cut => c \in cut'
    BY <2>1
  <2> QED
    BY <2>1, <2>2, <2>3, <2>4 DEF Resolved
<1> QED
  BY <1>6, <1>7

(* Requests of sessions and of the site.                                   *)
LEMMA NamesElsewhere ==
  ASSUME UInv, OwnNames, Resolved,
         NEW r \in Requests, NEW st \in State, request' = [request EXCEPT ![r] = st],
         request[r].pc \notin ProfilePcs, st.pc \notin ProfilePcs, UNCHANGED account,
         \A f \in Files : InfoName(f)' => InfoName(f) \/ f \notin taken,
         \A f \in stored \cup lost : f \in (stored' \cup lost') \/ InfoName(f)
  PROVE  OwnNames' /\ Resolved'
<1>1. "avatar" \in Columns /\ UNCHANGED cut /\ \A f, c : HasIn(c, f)' <=> HasIn(c, f)
  BY DEF Columns, HasIn, account
<1>2. \A f, c : ~MadeIn(st, c, f) /\ ~OldIn(st, c, f)
  BY DEF MadeIn, OldIn
<1>3. \A c : ~Replaces(r, c)
  BY DEF Replaces, ProfilePcs
<1> QED
  BY <1>1, <1>2, <1>3, NamesMove

(* No request moves.                                                       *)
LEMMA NamesStay ==
  ASSUME UInv, OwnNames, Resolved, UNCHANGED <<stored, lost, request>>,
         \A f \in Files, c \in Columns : HasIn(c, f)' => HasIn(c, f) /\ cut' = cut,
         \A f \in Files : InfoName(f)' => InfoName(f)
  PROVE  OwnNames' /\ Resolved'
<1>1. \A f \in Files, c \in Columns, q \in Requests :
        (HasIn(c, f) \/ MadeIn(request[q], c, f) \/ OldIn(request[q], c, f)) /\ ~InfoName(f) =>
        ~InfoName(f)'
  OBVIOUS
<1>2. OwnNames'
  <2> SUFFICES ASSUME NEW f \in Files, NEW c \in Columns, NEW d \in Columns,
                      NEW p \in Requests, NEW q \in Requests
               PROVE  /\ MadeIn(request[p], c, f) =>
                           /\ f \in stored \cup lost /\ ~InfoName(f)' /\ ~HasIn(d, f)'
                           /\ ~OldIn(request[q], d, f)
                           /\ MadeIn(request[q], d, f) => q = p /\ d = c
                      /\ HasIn(c, f)' =>
                           /\ ~InfoName(f)'
                           /\ HasIn(d, f)' => d = c
                           /\ OldIn(request[p], d, f) => d = c
                      /\ OldIn(request[p], c, f) => ~InfoName(f)'
    BY DEF OwnNames, MadeIn, OldIn
  <2> QED
    BY DEF OwnNames
<1>3. Resolved'
  BY DEF Resolved, Replaces
<1> QED
  BY <1>2, <1>3

(* A failure ends requests, and the columns they were replacing are cut    *)
(* short.                                                                  *)
LEMMA FailNames ==
  ASSUME UInv, OwnNames, Resolved, Fails, CutShort, UNCHANGED <<profile, content>>
  PROVE  OwnNames' /\ Resolved'
<1>1. /\ UNCHANGED <<stored, lost>>
      /\ \A q \in Requests : request'[q] = request[q] \/ request'[q] = Idle
  BY DEF Fails
<1>2. \A f \in Files, c \in Columns, q \in Requests :
        /\ MadeIn(request'[q], c, f) => MadeIn(request[q], c, f)
        /\ OldIn(request'[q], c, f) => OldIn(request[q], c, f)
  BY <1>1 DEF MadeIn, OldIn, Idle, ProfilePcs
<1>3. /\ \A f, c : HasIn(c, f)' <=> HasIn(c, f)
      /\ \A f \in Files : InfoName(f)' => InfoName(f)
  BY <1>1 DEF HasIn, InfoName, content, Idle, InfoPcs
<1>4. OwnNames'
  <2> SUFFICES ASSUME NEW f \in Files, NEW c \in Columns, NEW d \in Columns,
                      NEW p \in Requests, NEW q \in Requests
               PROVE  /\ MadeIn(request'[p], c, f) =>
                           /\ f \in (stored' \cup lost') /\ ~InfoName(f)' /\ ~HasIn(d, f)'
                           /\ ~OldIn(request'[q], d, f)
                           /\ MadeIn(request'[q], d, f) => q = p /\ d = c
                      /\ HasIn(c, f)' =>
                           /\ ~InfoName(f)'
                           /\ HasIn(d, f)' => d = c
                           /\ OldIn(request'[p], d, f) => d = c
                      /\ OldIn(request'[p], c, f) => ~InfoName(f)'
    BY DEF OwnNames, OldIn, MadeIn
  <2> QED
    BY <1>1, <1>2, <1>3 DEF OwnNames
<1>5. Resolved'
  <2> SUFFICES ASSUME NEW f \in Files, NEW c \in Columns, HasIn(c, f)',
                      f \notin (stored' \cup lost')
               PROVE  (\E q \in Requests : Replaces(q, c)') \/ c \in cut'
    BY DEF Resolved
  <2>1. (\E q \in Requests : Replaces(q, c)) \/ c \in cut
    BY <1>1, <1>3 DEF Resolved
  <2>2. ASSUME NEW q \in Requests, Replaces(q, c) PROVE Replaces(q, c)' \/ c \in cut'
    <3>1. CASE request'[q] = Idle
      BY <2>2, <3>1 DEF CutShort
    <3>2. CASE request'[q] = request[q]
      BY <2>2, <3>2 DEF Replaces
    <3> QED
      BY <1>1, <3>1, <3>2
  <2> QED
    BY <2>1, <2>2 DEF CutShort
<1> QED
  BY <1>4, <1>5

(* Of a session.                                                           *)
LEMMA MaterialsNames ==
  ASSUME UInv, OwnNames, Resolved, MaterialsNext, UNCHANGED <<account, content>>
  PROVE  OwnNames' /\ Resolved'
<1>1. ASSUME NEW r \in Requests, NEW st, request' = [request EXCEPT ![r] = st],
             request[r].pc \in MaterialPcs \cup {"idle"}, st.pc \in MaterialPcs \cup {"idle"},
             stored \subseteq stored', lost \subseteq lost'
      PROVE  OwnNames' /\ Resolved'
  <2>1. \A q \in Requests : request'[q] = IF q = r THEN st ELSE request[q]
    BY <1>1 DEF UInv, UType
  <2>2. st \in State
    BY <2>1, MaterialsStep DEF UInv, UType
  <2>3. \A f : InfoName(f)' => InfoName(f)
    BY <1>1, <2>1 DEF InfoName, content, InfoPcs, MaterialPcs
  <2> QED
    BY <1>1, <2>2, <2>3, NamesElsewhere DEF ProfilePcs, MaterialPcs
<1>2. ASSUME NEW r \in Requests,
             \/ \E n \in 1..MaxUpload : Upload(r, n)
             \/ \E f \in Files : PutMaterial(r, f) \/ DeleteMaterial(r, f)
             \/ Push(r) \/ WriteList(r)
      PROVE  OwnNames' /\ Resolved'
  <2>1. /\ request[r].pc \in MaterialPcs \cup {"idle"}
        /\ stored \subseteq stored' /\ lost \subseteq lost'
    BY <1>2 DEF Upload, PutMaterial, DeleteMaterial, Push, WriteList, Arrive, Finish, Put, At,
                MaterialPcs
  <2>2. CASE \E n \in 1..MaxUpload : Upload(r, n)
    BY <1>1, <2>1, <2>2 DEF Upload, Arrive, Goto, MaterialPcs
  <2>3. ASSUME NEW f \in Files, PutMaterial(r, f) PROVE OwnNames' /\ Resolved'
    <3>1. PICK pc \in MaterialPcs :
            pc = IF request[r].left - 1 = 0 THEN "material.push" ELSE "material.put"
      BY DEF MaterialPcs
    <3>2. request' = [request EXCEPT ![r] =
            [pc |-> pc, left |-> request[r].left - 1, files |-> request[r].files \cup {f}]]
      BY <2>3, <3>1 DEF PutMaterial, Goto
    <3> QED
      BY <1>1, <2>1, <3>1, <3>2
  <2>4. ASSUME NEW f \in Files, DeleteMaterial(r, f) PROVE OwnNames' /\ Resolved'
    BY <1>1, <2>1, <2>4 DEF DeleteMaterial, Arrive, Goto, MaterialPcs
  <2>5. CASE Push(r) \/ WriteList(r)
    <3>1. request' = [request EXCEPT ![r] = Idle] /\ Idle.pc = "idle"
      BY <2>5 DEF Push, WriteList, Finish, Goto, Idle
    <3> QED
      BY <1>1, <2>1, <3>1
  <2> QED
    BY <1>2, <2>2, <2>3, <2>4, <2>5
<1>3. CASE DeleteSession
  BY <1>3, NamesStay DEF DeleteSession, disk, HasIn, InfoName, account, content
<1> QED
  BY <1>2, <1>3 DEF MaterialsNext

(* Of the site: the names of descriptions are theirs alone.                *)
LEMMA ContentNames ==
  ASSUME UInv, OwnNames, Resolved, ContentNext, UNCHANGED <<materials, account>>
  PROVE  OwnNames' /\ Resolved'
<1>1. ASSUME NEW r \in Requests, NEW st, request' = [request EXCEPT ![r] = st],
             request[r].pc \notin ProfilePcs, st.pc \notin ProfilePcs,
             \A f \in Files, i \in Infos : info'[i] # NULL /\ f \in info'[i] => InfoName(f),
             \A f \in Files : st.pc \in InfoPcs /\ f \in st.names => InfoName(f) \/ f \notin taken,
             \A f \in stored \cup lost : f \in (stored' \cup lost') \/ InfoName(f)
      PROVE  OwnNames' /\ Resolved'
  <2>1. \A q \in Requests : request'[q] = IF q = r THEN st ELSE request[q]
    BY <1>1 DEF UInv, UType
  <2>2. st \in State
    BY <2>1, ContentStep DEF UInv, UType
  <2>3. \A f \in Files : InfoName(f)' => InfoName(f) \/ f \notin taken
    BY <1>1, <2>1 DEF InfoName
  <2> QED
    BY <1>1, <2>2, <2>3, NamesElsewhere
<1>2. \A f \in Files, i \in Infos : info[i] # NULL /\ f \in info[i] => InfoName(f)
  BY DEF InfoName
<1>3. ASSUME NEW r \in Requests, CreateItem(r) \/ \E logo \in BOOLEAN : CreateInfo(r, logo)
      PROVE  OwnNames' /\ Resolved'
  <2>1. request[r].pc \notin ProfilePcs /\ UNCHANGED <<stored, lost, info>>
    BY <1>3 DEF CreateItem, CreateInfo, Arrive, At, ProfilePcs, content
  <2>2. CASE CreateItem(r)
    <3>1. PICK st : st = [pc |-> "item.put"]
      OBVIOUS
    <3>2. request' = [request EXCEPT ![r] = st]
      BY <2>2, <3>1 DEF CreateItem, Arrive, Goto
    <3>3. st.pc \notin ProfilePcs /\ st.pc \notin InfoPcs
      BY <3>1 DEF ProfilePcs, InfoPcs
    <3> QED
      BY <1>1, <1>2, <2>1, <3>2, <3>3
  <2>3. ASSUME NEW logo \in BOOLEAN, CreateInfo(r, logo) PROVE OwnNames' /\ Resolved'
    <3>1. PICK pc \in {"info.find", "info.check"} :
            pc = IF logo THEN "info.find" ELSE "info.check"
      OBVIOUS
    <3>2. PICK st : st = InfoState(pc, logo, {}, NULL)
      OBVIOUS
    <3>3. request' = [request EXCEPT ![r] = st]
      BY <2>3, <3>1, <3>2 DEF CreateInfo, Arrive, Goto
    <3>4. st.pc \notin ProfilePcs /\ st.names = {}
      BY <3>1, <3>2 DEF InfoState, ProfilePcs
    <3> QED
      BY <1>1, <1>2, <2>1, <3>3, <3>4
  <2> QED
    BY <1>3, <2>2, <2>3
<1>4. ASSUME NEW r \in Requests, NEW f \in Files, ItemPut(r, f) PROVE OwnNames' /\ Resolved'
  <2>1. PICK st : st = [pc |-> "item.row", file |-> f]
    OBVIOUS
  <2>2. /\ request' = [request EXCEPT ![r] = st] /\ request[r].pc \notin ProfilePcs
        /\ UNCHANGED info /\ stored \subseteq stored' /\ lost \subseteq lost'
    BY <1>4, <2>1 DEF ItemPut, Put, Goto, At, ProfilePcs, content
  <2>3. st.pc \notin ProfilePcs /\ st.pc \notin InfoPcs
    BY <2>1 DEF ProfilePcs, InfoPcs
  <2> QED
    BY <1>1, <1>2, <2>2, <2>3
<1>5. ASSUME NEW r \in Requests, NEW i \in Items, ItemRow(r, i) PROVE OwnNames' /\ Resolved'
  <2>1. /\ request' = [request EXCEPT ![r] = Idle] /\ request[r].pc \notin ProfilePcs
        /\ UNCHANGED <<stored, lost, info>>
    BY <1>5 DEF ItemRow, Finish, Goto, At, ProfilePcs
  <2>2. Idle.pc \notin ProfilePcs /\ Idle.pc \notin InfoPcs
    BY DEF Idle, ProfilePcs, InfoPcs
  <2> QED
    BY <1>1, <1>2, <2>1, <2>2
<1>6. ASSUME NEW i \in Items, RemoveItem(i) PROVE OwnNames' /\ Resolved'
  BY <1>6, NamesStay DEF RemoveItem, disk, HasIn, InfoName, account
<1>7. ASSUME NEW r \in Requests, request[r].pc \in InfoPcs
      PROVE  /\ request[r].pc \notin ProfilePcs /\ request[r] \in InfosState
             /\ \A f \in request[r].names : InfoName(f)
  BY <1>7, InfosRequest DEF InfoName, ProfilePcs, InfoPcs
<1>8. ASSUME NEW r \in Requests, NEW f \in Files, InfoDelete(r, f) \/ InfoPut(r, f)
      PROVE  OwnNames' /\ Resolved'
  <2>1. request[r].pc \in InfoPcs /\ UNCHANGED info
    BY <1>8 DEF InfoDelete, InfoPut, At, InfoPcs, content
  <2>2. CASE InfoDelete(r, f)
    <3>1. PICK st : st = InfoState("info.put", TRUE, {}, NULL)
      OBVIOUS
    <3>2. /\ request' = [request EXCEPT ![r] = st] /\ f \in request[r].names
          /\ stored \ {f} \subseteq stored' /\ UNCHANGED lost
      BY <2>2, <3>1 DEF InfoDelete, Delete, Goto
    <3>3. st.pc \notin ProfilePcs /\ st.names = {}
      BY <3>1 DEF InfoState, ProfilePcs
    <3> QED
      BY <1>1, <1>2, <1>7, <2>1, <3>2, <3>3
  <2>3. CASE InfoPut(r, f)
    <3>1. PICK st : st = InfoState("info.check", TRUE, {f}, NULL)
      OBVIOUS
    <3>2. /\ request' = [request EXCEPT ![r] = st] /\ f \notin taken
          /\ stored \subseteq stored' /\ lost \subseteq lost'
      BY <2>3, <3>1 DEF InfoPut, Goto
    <3>3. st.pc \notin ProfilePcs /\ st.names = {f}
      BY <3>1 DEF InfoState, ProfilePcs
    <3> QED
      BY <1>1, <1>2, <1>7, <2>1, <3>2, <3>3
  <2> QED
    BY <1>8, <2>2, <2>3
<1>9. ASSUME NEW r \in Requests, NEW i \in Infos \cup {NULL}, InfoFind(r, i) \/ InfoCheck(r, i)
      PROVE  OwnNames' /\ Resolved'
  <2>1. /\ request[r].pc \in InfoPcs /\ request[r] \in InfosState
        /\ FindsInfo(i) /\ UNCHANGED <<stored, lost, info>>
    BY <1>7, <1>9 DEF InfoFind, InfoCheck, At, InfoPcs, content
  <2>2. CASE InfoFind(r, i)
    <3>1. PICK st : /\ request' = [request EXCEPT ![r] = st]
                    /\ st = IF i = NULL \/ info[i] = {} THEN InfoState("info.put", TRUE, {}, NULL)
                            ELSE InfoState("info.delete", TRUE, info[i], NULL)
      BY <2>2 DEF InfoFind, Goto
    <3>2. st.pc \notin ProfilePcs
      BY <3>1 DEF InfoState, ProfilePcs
    <3>3. st.names = {} \/ (i \in Infos /\ info[i] # NULL /\ st.names = info[i])
      BY <2>1, <3>1 DEF InfoState, FindsInfo
    <3> QED
      BY <1>1, <1>2, <1>7, <2>1, <3>1, <3>2, <3>3
  <2>3. CASE InfoCheck(r, i)
    <3>1. PICK pc \in {"info.create", "info.update"} :
            pc = IF i = NULL THEN "info.create" ELSE "info.update"
      OBVIOUS
    <3>2. PICK st : st = [request[r] EXCEPT !.pc = pc, !.of = i]
      OBVIOUS
    <3>3. st.pc = pc /\ st.names = request[r].names
      BY <2>1, <3>2 DEF InfosState
    <3>4. request' = [request EXCEPT ![r] = st]
      BY <2>3, <3>1, <3>2 DEF InfoCheck, Goto
    <3>5. st.pc \notin ProfilePcs
      BY <3>1, <3>3 DEF ProfilePcs
    <3> QED
      BY <1>1, <1>2, <1>7, <2>1, <3>3, <3>4, <3>5
  <2> QED
    BY <1>9, <2>2, <2>3
<1>10. ASSUME NEW r \in Requests, (\E i \in Infos : InfoCreate(r, i)) \/ InfoUpdate(r)
       PROVE  OwnNames' /\ Resolved'
  <2>1. request[r].pc \in InfoPcs /\ request[r] \in InfosState
    BY <1>7, <1>10 DEF InfoCreate, InfoUpdate, At, InfoPcs
  <2>2. /\ request' = [request EXCEPT ![r] = Idle] /\ UNCHANGED <<stored, lost>>
        /\ info' = info \/ \E i : info' = [info EXCEPT ![i] = request[r].names]
    BY <1>10 DEF InfoCreate, InfoUpdate, Finish, Goto
  <2>3. \A i \in Infos : info'[i] = info[i] \/ info'[i] = request[r].names
    BY <2>2 DEF UInv, UType, TablesType
  <2>4. Idle.pc \notin ProfilePcs /\ Idle.pc \notin InfoPcs
    BY DEF Idle, ProfilePcs, InfoPcs
  <2> QED
    BY <1>1, <1>2, <1>7, <2>1, <2>2, <2>3, <2>4
<1> QED
  BY <1>3, <1>4, <1>5, <1>6, <1>8, <1>9, <1>10 DEF ContentNext

----------------------------------------------------------------------------
(* Of the account.                                                         *)
LEMMA NamesInRow ==
  ASSUME UInv, OwnNames, Resolved,
         NEW r \in Requests, NEW st \in FileState \cup {Idle}, request' = [request EXCEPT ![r] = st],
         request[r].pc \in ProfilePcs \cup {"idle"}, UNCHANGED content,
         NEW k \in Columns,
         \A f \in Files, c \in Columns : MadeIn(st, c, f) =>
           MadeIn(request[r], c, f) \/ (c = k /\ f \notin taken /\ f \in stored' \cup lost'),
         \A f \in Files, c \in Columns : OldIn(st, c, f) => OldIn(request[r], c, f) \/ HasIn(c, f),
         \A f \in Files, c \in Columns : HasIn(c, f)' =>
           HasIn(c, f) \/ (MadeIn(request[r], c, f) /\ st = Idle),
         \A f \in stored \cup lost : f \in (stored' \cup lost')
           \/ \E c \in Columns : OldIn(request[r], c, f) /\ Replaces(r, c)',
         \A c \in Columns :
           /\ Replaces(r, c) =>
                Replaces(r, c)' \/ \A f \in Files : HasIn(c, f)' => MadeIn(request[r], c, f)
           /\ c \in cut => c \in cut' \/ \A f \in Files : HasIn(c, f)' => MadeIn(request[r], c, f)
  PROVE  OwnNames' /\ Resolved'
<1>1. \A q \in Requests : request'[q] = IF q = r THEN st ELSE request[q]
  BY DEF UInv, UType
<1>2. st \in State /\ st.pc \notin InfoPcs
  <2>1. CASE st = Idle
    BY <2>1, IdleShape DEF Idle, InfoPcs
  <2>2. CASE st \in FileState
    BY <2>2, ProfileShape DEF ProfilePcs, InfoPcs
  <2> QED
    BY <2>1, <2>2
<1>3. \A f : InfoName(f)' => InfoName(f)
  BY <1>1, <1>2 DEF InfoName, content, InfoPcs, ProfilePcs
<1>4. \A f \in Files : f \notin taken => ~InfoName(f)
  BY AllTaken DEF Columns
<1>5. \A c, f : ~MadeIn(Idle, c, f)
  BY DEF MadeIn, Idle, ProfilePcs
<1>6. \A f \in Files, c \in Columns : MadeIn(st, c, f) => MadeIn(request[r], c, f) \/ NewIn(k, c, f)
  BY <1>3, <1>4 DEF NewIn
<1>7. \A f \in Files, c \in Columns : HasIn(c, f)' =>
        HasIn(c, f) \/ (MadeIn(request[r], c, f) /\ \A d \in Columns : ~MadeIn(st, d, f))
  BY <1>5
<1>8. \A f \in Files : InfoName(f)' => InfoName(f) \/ f \notin taken
  BY <1>3
<1>9. \A f \in stored \cup lost : f \in (stored' \cup lost') \/ InfoName(f)
        \/ \E c \in Columns : OldIn(request[r], c, f) /\ Replaces(r, c)'
  OBVIOUS
<1> QED
  BY <1>2, <1>6, <1>7, <1>8, <1>9, NamesMove

(* What Add adds, and where.                                               *)
LEMMA AddOnly ==
  ASSUME NEW made \in Made, NEW c \in Columns, NEW f \in Files
  PROVE  \A d \in Columns :
           /\ Add(made, c, f)[d] # NULL <=> made[d] # NULL \/ d = c
           /\ \A g : Add(made, c, f)[d] # NULL /\ g \in Add(made, c, f)[d] =>
                (d = c /\ g = f) \/ (made[d] # NULL /\ g \in made[d])
<1>1. Add(made, c, f)[c] \in SUBSET Files
  BY DEF Add, Made
<1>2. Add(made, c, f)[c] # NULL
  BY <1>1, DiskAssumption
<1> QED
  BY <1>2 DEF Add, Made

LEMMA ArriveNames ==
  ASSUME UInv, OwnNames, Resolved, UNCHANGED content, NEW r \in Requests, NEW left \in Counts,
         Register(r, left) \/ UpdateUser(r, left)
  PROVE  OwnNames' /\ Resolved'
<1>1. /\ At(r, "idle") /\ UNCHANGED <<stored, lost, account, cut>>
      /\ ~\E c \in Columns : Replaces(r, c)
  BY DEF Register, UpdateUser, Arrive, At, Replaces, account
<1>2. ASSUME NEW st \in FileState, request' = [request EXCEPT ![r] = st], st.old = {},
             \A c \in Columns : st.made[c] = NULL \/ st.made[c] = {}
      PROVE  OwnNames' /\ Resolved'
  <2>1. \A c \in Columns : \A f : ~MadeIn(st, c, f) /\ ~OldIn(st, c, f) /\ (HasIn(c, f)' <=> HasIn(c, f))
    BY <1>1, <1>2 DEF MadeIn, OldIn, HasIn, account
  <2>2. "avatar" \in Columns /\ request[r].pc \in ProfilePcs \cup {"idle"}
    BY <1>1 DEF Columns, At
  <2> QED
    BY <1>1, <1>2, <2>1, <2>2, NamesInRow
<1>3. CASE Register(r, left)
  <2>1. PICK made \in [Columns -> SUBSET Files] : made = [c \in Columns |-> {}]
    OBVIOUS
  <2>2. PICK st : st = [pc |-> "register", column |-> "avatar", old |-> {}, left |-> left, made |-> made]
    OBVIOUS
  <2>3. st \in FileState /\ st.old = {} /\ st.made = made
    BY <2>2, CountsInt DEF FileState, RegisterState, Columns
  <2>4. request' = [request EXCEPT ![r] = st]
    BY <1>3, <2>1, <2>2 DEF Register, Arrive, Goto
  <2> QED
    BY <1>2, <2>1, <2>3, <2>4
<1>4. CASE UpdateUser(r, left)
  <2>1. PICK made \in Made : made = [c \in Columns |-> NULL]
    BY DEF Made
  <2>2. PICK st \in FileState : st = UpdateStart(left, made) /\ st.old = {} /\ st.made = made
    BY CountsInt, UpdateStarts
  <2>3. request' = [request EXCEPT ![r] = st]
    BY <1>4, <2>1, <2>2 DEF UpdateUser, Arrive, Goto
  <2> QED
    BY <1>2, <2>1, <2>2, <2>3
<1> QED
  BY <1>3, <1>4

LEMMA RegisterNames ==
  ASSUME UInv, OwnNames, Resolved, UNCHANGED content, NEW r \in Requests,
         (\E c \in Columns, f \in Files : RegisterPut(r, c, f)) \/ RegisterRow(r)
  PROVE  OwnNames' /\ Resolved'
<1>1. /\ request[r] \in RegisterState /\ request[r] \in FileState
      /\ request[r].pc = "register" /\ ~\E c \in Columns : Replaces(r, c)
  BY ProfileState, ProfileShape DEF RegisterPut, RegisterRow, At, ProfilePcs, Replaces
<1>2. request[r].made \in [Columns -> SUBSET Files] /\ request[r].made \in Made
  BY <1>1, ProfileShape DEF RegisterState
<1>3. ASSUME NEW c \in Columns, NEW f \in Files, RegisterPut(r, c, f)
      PROVE  OwnNames' /\ Resolved'
  <2>1. PICK made \in [Columns -> SUBSET Files] : made = Add(request[r].made, c, f)
    BY <1>2 DEF Add
  <2>2. PICK left \in [Columns -> Int] : left = [request[r].left EXCEPT ![c] = @ - 1]
    BY <1>1, ProfileShape, OneLess
  <2>3. PICK st : st = [request[r] EXCEPT !.left = left, !.made = made]
    OBVIOUS
  <2>4. st \in FileState /\ st.old = request[r].old /\ st.made = made /\ st.column = request[r].column
    BY <1>1, <2>3 DEF FileState, RegisterState
  <2>5. request' = [request EXCEPT ![r] = st]
    <3>1. st = [request[r] EXCEPT !.left[c] = @ - 1, !.made = Add(@, c, f)]
      BY <1>1, <2>1, <2>2, <2>3 DEF RegisterState
    <3> QED
      BY <1>3, <3>1 DEF RegisterPut, Goto
  <2>6. /\ f \notin taken /\ f \in stored' \cup lost' /\ stored \subseteq stored' /\ lost \subseteq lost'
        /\ UNCHANGED <<profile, cut>>
    BY <1>3, PutNew DEF RegisterPut, account
  <2>7. request[r].pc \in ProfilePcs
    BY <1>1 DEF ProfilePcs
  <2>8. \A g \in Files, d \in Columns :
          /\ MadeIn(st, d, g) => MadeIn(request[r], d, g) \/ (d = c /\ g = f)
          /\ OldIn(st, d, g) => OldIn(request[r], d, g)
          /\ HasIn(d, g)' => HasIn(d, g)
    BY <1>2, <2>1, <2>4, <2>6, <2>7, AddOnly DEF MadeIn, OldIn, HasIn
  <2>9. /\ \A g \in Files, d \in Columns : MadeIn(st, d, g) =>
             MadeIn(request[r], d, g) \/ (d = c /\ g \notin taken /\ g \in stored' \cup lost')
        /\ \A g \in stored \cup lost : g \in (stored' \cup lost')
        /\ UNCHANGED cut
    BY <2>6, <2>8
  <2> QED
    BY <1>1, <2>4, <2>5, <2>7, <2>8, <2>9, NamesInRow
<1>4. CASE RegisterRow(r)
  <2>1. /\ request' = [request EXCEPT ![r] = Idle] /\ UNCHANGED <<stored, lost>>
        /\ UNCHANGED <<profile, cut>> \/ profile' = request[r].made
    BY <1>4 DEF RegisterRow, Finish, Goto
  <2>2. request[r].pc \in ProfilePcs /\ "avatar" \in Columns
    BY <1>1 DEF ProfilePcs, Columns
  <2>3. \A f \in Files, c \in Columns :
          /\ ~MadeIn(Idle, c, f) /\ ~OldIn(Idle, c, f)
          /\ HasIn(c, f)' => HasIn(c, f) \/ MadeIn(request[r], c, f)
    <3>1. \A c \in Columns : request[r].made[c] # NULL
      BY <1>2, DiskAssumption
    <3> QED
      BY <2>1, <2>2, <3>1 DEF MadeIn, OldIn, HasIn, Idle, ProfilePcs
  <2>4. UNCHANGED cut \/ \A f \in Files, c \in Columns : HasIn(c, f)' => MadeIn(request[r], c, f)
    <3>1. \A c \in Columns : request[r].made[c] # NULL
      BY <1>2, DiskAssumption
    <3> QED
      BY <2>1, <2>2, <3>1 DEF MadeIn, HasIn
  <2> QED
    BY <1>1, <2>1, <2>2, <2>3, <2>4, NamesInRow
<1> QED
  BY <1>3, <1>4

(* An update: the column it works on, and what it has made.                *)
LEMMA UpdateNames ==
  ASSUME UInv, OwnNames, Resolved, UNCHANGED content, NEW r \in Requests,
         \/ UpdateFind(r) \/ UpdateRow(r)
         \/ \E f \in Files : UpdateDelete(r, f) \/ UpdatePut(r, f)
  PROVE  OwnNames' /\ Resolved'
<1> DEFINE Pcs == {"update.find", "update.delete", "update.put", "update.row"}
<1>1. /\ request[r] \in UpdateState /\ request[r] \in FileState
      /\ request[r].pc \in Pcs /\ request[r].pc \in ProfilePcs
  BY ProfileState, ProfileShape DEF UpdateFind, UpdateRow, UpdateDelete, UpdatePut, At, ProfilePcs
<1>2. PICK c \in Columns : c = request[r].column
  BY <1>1, ProfileShape
<1>3. request[r].made \in Made /\ request[r].left \in [Columns -> Int] /\ request[r].old \subseteq Files
  BY <1>1, ProfileShape
<1>4. \A st : request' = [request EXCEPT ![r] = st] => request'[r] = st
  BY DEF UInv, UType
<1>5. \A d, g : ~MadeIn(Idle, d, g) /\ ~OldIn(Idle, d, g)
  BY DEF MadeIn, OldIn, Idle, ProfilePcs
(* What it replaces it goes on replacing.                                  *)
<1>6. ASSUME NEW st \in FileState, request' = [request EXCEPT ![r] = st], st.pc \in Pcs,
             \A d \in Columns : request[r].made[d] # NULL => st.made[d] # NULL,
             request[r].pc \in {"update.delete", "update.put"} =>
               st.made[c] # NULL \/ (st.column = c /\ st.pc \in {"update.delete", "update.put"})
      PROVE  \A d \in Columns : Replaces(r, d) => Replaces(r, d)'
  BY <1>2, <1>4, <1>6 DEF Replaces
<1>7. CASE UpdateFind(r)
  <2>1. UNCHANGED <<stored, lost, profile, cut>> /\ request[r].pc = "update.find"
    BY <1>7 DEF UpdateFind, At, account
  <2>2. CASE profile = NULL /\ c = "avatar"
    <3>1. request' = [request EXCEPT ![r] = Idle]
      BY <1>2, <1>7, <2>2 DEF UpdateFind, Goto
    <3>2. \A d, g : ~HasIn(d, g)'
      BY <2>1, <2>2 DEF HasIn
    <3> QED
      BY <1>1, <1>5, <2>1, <3>1, <3>2, NamesInRow
  <2>3. CASE ~(profile = NULL /\ c = "avatar")
    <3>1. PICK old \in SUBSET Files : old = (IF profile = NULL THEN {} ELSE profile[c])
      BY <1>2 DEF UInv, UType, TablesType
    <3>2. PICK pc \in {"update.put", "update.delete"} :
            pc = IF old = {} THEN "update.put" ELSE "update.delete"
      OBVIOUS
    <3>3. PICK st : st = [request[r] EXCEPT !.old = old, !.pc = pc]
      OBVIOUS
    <3>4. /\ st \in FileState /\ st.old = old /\ st.made = request[r].made /\ st.column = c
          /\ st.pc = pc /\ st.pc \in Pcs /\ st.pc \in ProfilePcs
      BY <1>1, <1>2, <3>3 DEF FileState, UpdateState, ProfilePcs
    <3>5. request' = [request EXCEPT ![r] = st]
      BY <1>2, <1>7, <2>3, <3>1, <3>2, <3>3 DEF UpdateFind, Goto
    <3>6. \A g \in Files, d \in Columns :
            /\ MadeIn(st, d, g) => MadeIn(request[r], d, g)
            /\ OldIn(st, d, g) => HasIn(d, g)
            /\ HasIn(d, g)' => HasIn(d, g)
      BY <1>1, <2>1, <3>1, <3>4 DEF MadeIn, OldIn, HasIn
    <3>7. \A d \in Columns : Replaces(r, d) => Replaces(r, d)'
      BY <1>6, <2>1, <3>4, <3>5
    <3> QED
      BY <1>1, <2>1, <3>4, <3>5, <3>6, <3>7, NamesInRow
  <2> QED
    BY <2>2, <2>3
<1>8. ASSUME NEW f \in Files, UpdateDelete(r, f) PROVE OwnNames' /\ Resolved'
  <2>1. /\ f \in request[r].old /\ request[r].pc = "update.delete" /\ UNCHANGED <<lost, profile, cut>>
        /\ stored \ {f} \subseteq stored'
    BY <1>8 DEF UpdateDelete, Delete, At, account
  <2>2. PICK old \in SUBSET Files : old = request[r].old \ {f}
    BY <1>3
  <2>3. PICK pc \in {"update.put", "update.delete"} :
          pc = IF request[r].old = {f} THEN "update.put" ELSE "update.delete"
    OBVIOUS
  <2>4. PICK st : st = [request[r] EXCEPT !.old = old, !.pc = pc]
    OBVIOUS
  <2>5. /\ st \in FileState /\ st.old = old /\ st.made = request[r].made /\ st.column = c
        /\ st.pc = pc /\ st.pc \in Pcs /\ st.pc \in ProfilePcs
    BY <1>1, <1>2, <2>4 DEF FileState, UpdateState, ProfilePcs
  <2>6. request' = [request EXCEPT ![r] = st]
    <3>1. st = [request[r] EXCEPT !.old = @ \ {f}, !.pc = pc]
      BY <1>1, <2>2, <2>4 DEF UpdateState
    <3> QED
      BY <1>8, <2>3, <3>1 DEF UpdateDelete, Goto
  <2>7. \A g \in Files, d \in Columns :
          /\ MadeIn(st, d, g) => MadeIn(request[r], d, g)
          /\ OldIn(st, d, g) => OldIn(request[r], d, g)
          /\ HasIn(d, g)' => HasIn(d, g)
    BY <1>1, <1>2, <2>1, <2>2, <2>5 DEF MadeIn, OldIn, HasIn
  <2>8. \A d \in Columns : Replaces(r, d) => Replaces(r, d)'
    BY <1>6, <2>3, <2>5, <2>6
  <2>9. OldIn(request[r], c, f) /\ Replaces(r, c)'
    BY <1>1, <1>2, <1>4, <2>1, <2>3, <2>5, <2>6 DEF OldIn, Replaces
  <2> QED
    BY <1>1, <2>1, <2>5, <2>6, <2>7, <2>8, <2>9, NamesInRow
<1>9. ASSUME NEW f \in Files, UpdatePut(r, f) PROVE OwnNames' /\ Resolved'
  <2>1. /\ f \notin taken /\ f \in stored' \cup lost' /\ stored \subseteq stored' /\ lost \subseteq lost'
        /\ UNCHANGED <<profile, cut>> /\ request[r].pc = "update.put"
    BY <1>9, PutNew DEF UpdatePut, At, account
  <2>2. PICK left \in [Columns -> Int] : left = [request[r].left EXCEPT ![c] = @ - 1]
    BY <1>3, OneLess
  <2>3. PICK made \in Made : made = Add(request[r].made, c, f)
    BY <1>3, AddMade
  <2>4. PICK st \in FileState :
          /\ request' = [request EXCEPT ![r] = st] /\ st.pc \in Pcs
          /\ st.made = made
          /\ st.old = {} \/ (st.old = request[r].old /\ st.column = c)
    <3>1. CASE left[c] > 0
      <4>1. PICK st : st = [request[r] EXCEPT !.left = left, !.made = made]
        OBVIOUS
      <4>2. /\ st \in FileState /\ st.old = request[r].old /\ st.made = made
            /\ st.pc = request[r].pc /\ st.column = c
        BY <1>1, <1>2, <4>1 DEF FileState, UpdateState
      <4>3. request' = [request EXCEPT ![r] = st]
        BY <1>2, <1>9, <2>2, <2>3, <3>1, <4>1 DEF UpdatePut, Goto
      <4> QED
        BY <1>1, <4>2, <4>3
    <3>2. CASE ~(left[c] > 0)
      <4>1. PICK st \in FileState : st = UpdateStart(left, made) /\ st.old = {} /\ st.made = made
        BY UpdateStarts
      <4>2. st.pc \in Pcs
        BY <4>1 DEF UpdateStart
      <4>3. request' = [request EXCEPT ![r] = st]
        BY <1>2, <1>9, <2>2, <2>3, <3>2, <4>1 DEF UpdatePut, Goto
      <4> QED
        BY <4>1, <4>2, <4>3
    <3> QED
      BY <3>1, <3>2
  <2>5. /\ \A d \in Columns : request[r].made[d] # NULL => made[d] # NULL
        /\ made[c] # NULL
        /\ \A d \in Columns, g \in Files : made[d] # NULL /\ g \in made[d] =>
             (d = c /\ g = f) \/ (request[r].made[d] # NULL /\ g \in request[r].made[d])
    BY <1>3, <2>3, AddOnly
  <2>6. \A g \in Files, d \in Columns :
          /\ MadeIn(st, d, g) => MadeIn(request[r], d, g) \/ (d = c /\ g = f)
          /\ OldIn(st, d, g) => OldIn(request[r], d, g)
          /\ HasIn(d, g)' => HasIn(d, g)
    BY <1>1, <1>2, <2>1, <2>4, <2>5 DEF MadeIn, OldIn, HasIn
  <2>7. \A d \in Columns : Replaces(r, d) => Replaces(r, d)'
    BY <1>6, <2>4, <2>5
  <2>8. /\ \A g \in Files, d \in Columns : MadeIn(st, d, g) =>
             MadeIn(request[r], d, g) \/ (d = c /\ g \notin taken /\ g \in stored' \cup lost')
        /\ \A g \in stored \cup lost : g \in (stored' \cup lost')
        /\ UNCHANGED cut
    BY <2>1, <2>6
  <2> QED
    BY <1>1, <2>4, <2>6, <2>7, <2>8, NamesInRow
<1>10. CASE UpdateRow(r)
  <2>1. /\ request' = [request EXCEPT ![r] = Idle] /\ UNCHANGED <<stored, lost>>
        /\ request[r].pc = "update.row"
        /\ profile' = IF profile = NULL THEN NULL
                      ELSE [d \in Columns |-> IF request[r].made[d] = NULL THEN profile[d]
                                              ELSE request[r].made[d]]
        /\ cut' = {d \in cut : request[r].made[d] = NULL}
    BY <1>10 DEF UpdateRow, Finish, Goto, At
  <2>2. \A g \in Files, d \in Columns :
          /\ HasIn(d, g)' => HasIn(d, g) \/ MadeIn(request[r], d, g)
          /\ Replaces(r, d) /\ HasIn(d, g)' => MadeIn(request[r], d, g)
          /\ d \in cut /\ d \notin cut' /\ HasIn(d, g)' => MadeIn(request[r], d, g)
    BY <1>1, <2>1 DEF HasIn, MadeIn, Replaces
  <2> QED
    BY <1>1, <1>2, <1>5, <2>1, <2>2, NamesInRow
<1> QED
  BY <1>7, <1>8, <1>9, <1>10

LEMMA NameStep ==
  ASSUME UInv, NameInv, [Next]_uvars
  PROVE  NameInv'
<1> SUFFICES OwnNames' /\ Resolved'
  BY DEF NameInv
<1>1. OwnNames /\ Resolved
  BY DEF NameInv
<1>2. CASE ProfileNext /\ UNCHANGED <<materials, content>>
  <2>1. CASE DeleteAccount
    BY <1>1, <1>2, <2>1, NamesStay DEF DeleteAccount, disk, HasIn, InfoName, content
  <2> QED
    BY <1>1, <1>2, <2>1, ArriveNames, RegisterNames, UpdateNames DEF ProfileNext
<1>3. CASE Fails /\ CutShort /\ UNCHANGED <<profile, content>>
  BY <1>1, <1>3, FailNames
<1>4. CASE UNCHANGED uvars
  BY <1>1, <1>4, NamesStay DEF uvars, disk, HasIn, InfoName, account, content
<1> QED
  BY <1>1, <1>2, <1>3, <1>4, MaterialsNames, ContentNames DEF Next

(* A name in a column of an account is that of a file, unless the driver   *)
(* failed to write it, an update is about to replace the column or one was *)
(* cut short: two updates may unlink each other's files, never those they  *)
(* leave behind.  Of the links of me the picture's leads to that file.     *)
THEOREM ProfileCorrect == Spec => []ProfileResolves
<1>1. Init => NameInv
  <2> SUFFICES ASSUME Init PROVE NameInv
    OBVIOUS
  <2>1. /\ profile = NULL /\ \A r \in Requests : request[r] = Idle
    BY DEF Init, DiskInit, ProfileInit
  <2>2. \A c, f : ~MadeIn(Idle, c, f) /\ ~OldIn(Idle, c, f) /\ ~HasIn(c, f)
    BY <2>1 DEF MadeIn, OldIn, HasIn, Idle, ProfilePcs
  <2> QED
    BY <2>1, <2>2 DEF NameInv, OwnNames, Resolved
<1>2. UInv /\ NameInv => ProfileResolves
  <2> SUFFICES ASSUME UInv, NameInv PROVE ProfileResolves
    OBVIOUS
  <2>1. profile # NULL => \A c \in Columns : profile[c] \subseteq Files
    BY DEF UInv, UType, TablesType
  <2>2. ASSUME profile # NULL, NEW c \in Columns, NEW f \in profile[c]
        PROVE  f \in stored \/ Excused(c, f)
    <3>1. f \in Files /\ HasIn(c, f)
      BY <2>1, <2>2 DEF HasIn
    <3> QED
      BY <3>1 DEF NameInv, Resolved, Excused
  <2>3. ASSUME NEW link \in ProfileLinks,
               link[1] # "storagecertificate", link[2] # NULL
        PROVE  \/ \E f \in stored, c \in Columns : link = <<Directory[c], f>>
               \/ Excused("avatar", link[2])
    <3>1. /\ profile # NULL /\ "avatar" \in Columns
          /\ \E f \in profile["avatar"] : link = <<Directory["avatar"], f>>
      BY <2>3 DEF ProfileLinks, Columns
    <3>2. PICK f \in profile["avatar"] : link = <<Directory["avatar"], f>> /\ link[2] = f
      BY <3>1
    <3> QED
      BY <2>2, <3>1, <3>2
  <2> QED
    BY <2>2, <2>3 DEF ProfileResolves
<1>3. UInv /\ NameInv /\ [Next]_uvars => NameInv'
  BY NameStep
<1> QED
  BY <1>1, <1>2, <1>3, Invariance, PTL DEF Spec
=============================================================================
