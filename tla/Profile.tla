------------------------------- MODULE Profile -------------------------------
(***************************************************************************)
(* The files of one account: createUser and updateUser of                  *)
(* modules/auth/auth.service.ts.  An update reads the old names of a       *)
(* column, unlinks those files one by one, writes the new ones, and        *)
(* updates the row at the very end, for both columns at once.              *)
(*                                                                         *)
(* Both columns are sets here; an account without a picture has the text   *)
(* 'null' in avatar, which names no file.  An address registered again is  *)
(* taken for the same account.                                             *)
(***************************************************************************)
EXTENDS Disk

CONSTANT MaxCertificates  \* bound: certificates of one request

VARIABLES
  profile,  \* avatar and certifications of the row, NULL if there is none
  student,  \* type of the account
  cut       \* history: columns whose update was cut short, and not yet repeated

account == <<profile, student, cut>>

Columns == {"avatar", "certifications"}
Counts  == {n \in [Columns -> 0..MaxCertificates \cup 0..1] :
              n["avatar"] <= 1 /\ n["certifications"] <= MaxCertificates}

(* Names a request has made so far; NULL for a column it leaves alone.     *)
Made == [Columns -> (SUBSET Files) \cup {NULL}]

ProfileType ==
  /\ profile \in [Columns -> SUBSET Files] \cup {NULL}
  /\ student \in BOOLEAN
  /\ cut \subseteq Columns

ProfileRequest ==
  [pc: {"register"} \cup {"update.find", "update.delete", "update.put", "update.row"},
   column: Columns, old: SUBSET Files, left: Counts, made: Made]

ProfileInit == profile = NULL /\ student \in BOOLEAN /\ cut = {}

Add(made, column, f) ==
  [made EXCEPT ![column] = IF made[column] = NULL THEN {f} ELSE made[column] \cup {f}]

----------------------------------------------------------------------------
(* createUser: the picture and the certificates are written before         *)
(* anything is checked.                                                    *)
Register(r, left) ==
  /\ profile = NULL
  /\ Arrive(r, [pc |-> "register", column |-> "avatar", old |-> {}, left |-> left,
                made |-> [c \in Columns |-> {}]])
  /\ UNCHANGED account

RegisterPut(r, c, f) ==
  /\ At(r, "register")
  /\ request[r].left[c] > 0
  /\ c = "certifications" => request[r].left["avatar"] = 0
  /\ Put(f)
  /\ Goto(r, [request[r] EXCEPT !.left[c] = @ - 1, !.made = Add(@, c, f)])
  /\ UNCHANGED account

(* The row; or the request is refused (a field that is missing or not      *)
(* allowed, certificates of a student, an address in use), and the files   *)
(* stay.                                                                   *)
RegisterRow(r) ==
  /\ At(r, "register")
  /\ \A c \in Columns : request[r].left[c] = 0
  /\ \/ /\ profile = NULL
        /\ student => request[r].made["certifications"] = {}
        /\ profile' = request[r].made
        /\ cut' = {}
     \/ UNCHANGED <<profile, cut>>
  /\ Finish(r)
  /\ UNCHANGED student

----------------------------------------------------------------------------
(* updateUser                                                              *)

(* The columns a request still has to go through, certificates first.      *)
UpdateStart(left, made) ==
  IF left["certifications"] > 0
    THEN [pc |-> "update.find", column |-> "certifications", old |-> {}, left |-> left, made |-> made]
  ELSE IF left["avatar"] > 0
    THEN [pc |-> "update.find", column |-> "avatar", old |-> {}, left |-> left, made |-> made]
  ELSE [pc |-> "update.row", column |-> "avatar", old |-> {}, left |-> left, made |-> made]

UpdateUser(r, left) ==
  /\ profile # NULL
  /\ student => left["certifications"] = 0
  /\ Arrive(r, UpdateStart(left, [c \in Columns |-> NULL]))
  /\ UNCHANGED account

(* The old names.  oldImage.avatar throws if the account is gone.          *)
UpdateFind(r) ==
  LET c == request[r].column
      old == IF profile = NULL THEN {} ELSE profile[c] IN
  /\ At(r, "update.find")
  /\ Goto(r, IF profile = NULL /\ c = "avatar" THEN Idle
             ELSE [request[r] EXCEPT !.old = old,
                     !.pc = IF old = {} THEN "update.put" ELSE "update.delete"])
  /\ UNCHANGED <<stored, lost, taken, overlap, faults, account>>

UpdateDelete(r, f) ==
  /\ At(r, "update.delete")
  /\ f \in request[r].old
  /\ Delete(f)
  /\ Goto(r, [request[r] EXCEPT !.old = @ \ {f},
                !.pc = IF request[r].old = {f} THEN "update.put" ELSE "update.delete"])
  /\ UNCHANGED account

UpdatePut(r, f) ==
  LET c == request[r].column
      left == [request[r].left EXCEPT ![c] = @ - 1]
      made == Add(request[r].made, c, f) IN
  /\ At(r, "update.put")
  /\ Put(f)
  /\ Goto(r, IF left[c] > 0 THEN [request[r] EXCEPT !.left = left, !.made = made]
             ELSE UpdateStart(left, made))
  /\ UNCHANGED account

(* The row is looked up once more; if it is gone nothing is written.       *)
UpdateRowAvatarOnly(r) ==  \* mutant: forgets the certificates
  /\ At(r, "update.row")
  /\ profile' = IF profile = NULL \/ request[r].made["avatar"] = NULL THEN profile
                ELSE [profile EXCEPT !["avatar"] = request[r].made["avatar"]]
  /\ cut' = {c \in cut : request[r].made[c] = NULL}
  /\ Finish(r)
  /\ UNCHANGED student

UpdateRow(r) ==
  /\ At(r, "update.row")
  /\ profile' = IF profile = NULL THEN NULL
                ELSE [c \in Columns |-> IF request[r].made[c] = NULL THEN profile[c]
                                        ELSE request[r].made[c]]
  /\ cut' = {c \in cut : request[r].made[c] = NULL}
  /\ Finish(r)
  /\ UNCHANGED student

(* The account is deleted; its files stay.                                 *)
DeleteAccount ==
  /\ profile # NULL
  /\ profile' = NULL
  /\ cut' = {}
  /\ UNCHANGED <<student, disk>>

(* An update that has read column c and will replace it.                   *)
Replaces(r, c) ==
  /\ request[r].pc \in {"update.delete", "update.put", "update.find", "update.row"}
  /\ \/ request[r].pc \in {"update.delete", "update.put"} /\ request[r].column = c
     \/ request[r].made[c] # NULL

(* What a failure leaves of an update.                                     *)
CutShort ==
  cut' = cut \cup {c \in Columns : \E r \in Requests : Replaces(r, c) /\ request'[r] = Idle}

----------------------------------------------------------------------------
(* me: the paths of the links, as main.ts serves them.  The one to the     *)
(* picture is there without a picture, too, and those to the certificates  *)
(* of a teacher lack a slash.                                              *)
Directory == [avatar |-> "storage/avatar", certifications |-> "storage/certificate"]

ProfileLinks ==
  IF profile = NULL THEN {}
    ELSE ({Directory["avatar"]} \X (IF profile["avatar"] = {} THEN {NULL} ELSE profile["avatar"]))
           \cup ({"storagecertificate"} \X (IF student THEN {} ELSE profile["certifications"]))

ProfileNext ==
  \/ \E r \in Requests :
       \/ \E left \in Counts : Register(r, left) \/ UpdateUser(r, left)
       \/ \E f \in Files :
            \/ \E c \in Columns : RegisterPut(r, c, f)
            \/ UpdateDelete(r, f) \/ UpdatePut(r, f)
       \/ RegisterRow(r) \/ UpdateFind(r) \/ UpdateRow(r)
  \/ DeleteAccount

----------------------------------------------------------------------------
(* What may be wrong with name f of column c: the driver failed to write   *)
(* the file, an update is about to replace the column, or one was cut      *)
(* short since the column was written.                                     *)
Excused(c, f) == f \in lost \/ (\E r \in Requests : Replaces(r, c)) \/ c \in cut

(* A name in a column is that of a file on disk, but for what Excused      *)
(* says.  Two updates may overlap and unlink each other's files: the one   *)
(* that does so has read the column before and writes it later.  So the    *)
(* link of me to a picture leads there; its link to the text 'null' and    *)
(* those to certificates lead nowhere.                                     *)
ProfileResolves ==
  /\ profile # NULL =>
       \A c \in Columns : \A f \in profile[c] : f \in stored \/ Excused(c, f)
  /\ \A link \in ProfileLinks :
       \/ \E f \in stored, c \in Columns : link = <<Directory[c], f>>
       \/ link[1] = "storagecertificate" \/ link[2] = NULL
       \/ Excused("avatar", link[2])
=============================================================================
