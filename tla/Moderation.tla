---------------------------- MODULE Moderation -----------------------------
(***************************************************************************)
(* What administrators do to accounts: modules/admin/tutor, .../student    *)
(* and .../user.  Each handler looks the user up, updates the row by its   *)
(* id and, for tutor applications, then posts a letter.                    *)
(***************************************************************************)
EXTENDS AuthService

----------------------------------------------------------------------------
(* acceptTutorApplication and rejectTutorApplication do not look at an     *)
(* earlier decision.                                                       *)

Deciding(r, u) == request[r].pc \in {"decide.update", "decide.mail"} /\ request[r].user = u

Decide(r, u, is_accepted) ==
  /\ Present(u) /\ user[u].type = "teacher"
  /\ is_accepted \in {"accepted", "rejected"}
  /\ Arrive(r, "decide", [pc |-> "decide.update", user |-> u, to |-> user[u].email,
                          is_accepted |-> is_accepted])
  /\ disturbed' = IF \E q \in Requests : q # r /\ Deciding(q, u)
                    THEN disturbed \cup {u} ELSE disturbed
  /\ UNCHANGED <<tables, post, process, held, spent, reused>>

DecideUpdate(r) ==
  LET u == request[r].user IN
  /\ At(r, "decide.update")
  /\ \/ /\ Present(u)
        /\ user' = [user EXCEPT ![u].is_accepted = request[r].is_accepted]
        /\ Goto(r, "decide.mail")
     \/ ~Present(u) /\ Finish(r) /\ UNCHANGED user
  /\ UNCHANGED <<ucode, refresh, post, process, history>>

DecideMailAccepted(r) ==  \* mutant: the letter of a rejection says accepted
  /\ At(r, "decide.mail")
  /\ Enqueue([to |-> request[r].to, about |-> request[r].user, is_accepted |-> "accepted"])
  /\ Finish(r)
  /\ UNCHANGED <<tables, inbox, decision, process, history>>

DecideMail(r) ==
  /\ At(r, "decide.mail")
  /\ Enqueue([to |-> request[r].to, about |-> request[r].user,
              is_accepted |-> request[r].is_accepted])
  /\ Finish(r)
  /\ UNCHANGED <<tables, inbox, decision, process, history>>

----------------------------------------------------------------------------
(* Restrictions, approval and deletion: a look-up, then the row by its id. *)

LookUpUser(r, kind, u, pc) ==
  /\ Present(u)
  /\ Arrive(r, kind, [pc |-> pc, user |-> u])
  /\ UNCHANGED nothing

UpdateUser(r, pc, row(_)) ==
  LET u == request[r].user IN
  /\ At(r, pc)
  /\ user' = IF Present(u) THEN [user EXCEPT ![u] = row(@)] ELSE user
  /\ Finish(r)
  /\ UNCHANGED <<ucode, refresh, post, process, history>>

RestrictAStudent(r, u) ==
  LookUpUser(r, "restrict", u, "restrict.update") /\ ~user[u].is_restricted

RestrictUpdateKeepsStatus(r) ==  \* mutant: leaves the status at 1
  UpdateUser(r, "restrict.update", LAMBDA row : [row EXCEPT !.is_restricted = TRUE])

RestrictUpdate(r) ==
  UpdateUser(r, "restrict.update",
             LAMBDA row : [row EXCEPT !.is_restricted = TRUE, !.status = FALSE])

(* unrestrictAUser leaves the status at 0.                                 *)
UnrestrictAStudent(r, u) == LookUpUser(r, "unrestrict", u, "unrestrict.update")
UnrestrictUpdate(r) ==
  UpdateUser(r, "unrestrict.update", LAMBDA row : [row EXCEPT !.is_restricted = FALSE])

Approve(r, u) == LookUpUser(r, "approve", u, "approve.update")
ApproveUpdate(r) == UpdateUser(r, "approve.update", LAMBDA row : [row EXCEPT !.approved = TRUE])

Reject(r, u) == LookUpUser(r, "reject", u, "reject.update")
RejectUpdate(r) == UpdateUser(r, "reject.update", LAMBDA row : [row EXCEPT !.approved = FALSE])

Delete(r, u) == LookUpUser(r, "delete", u, "delete.row")
DeleteRow(r) == UpdateUser(r, "delete.row", LAMBDA row : Gone)

----------------------------------------------------------------------------
(* UserRepository.createUser and updateUser.  "teacher" is not a Role: a   *)
(* user made with it gets the default type, an update with it is refused;  *)
(* and an update that names no type sets "user".                           *)

Roles == {"admin", "user", "student", "tutor"}

AdminCreate(r, email, type) ==
  /\ With(email) = {}
  /\ Arrive(r, "create", [pc |-> "admin.create", email |-> email,
                          type |-> IF type \in Roles THEN type ELSE "user"])
  /\ UNCHANGED nothing

AdminCreateInsert(r, u) ==
  /\ At(r, "admin.create")
  /\ Insert(u, NewUser(request[r].email, request[r].type, "admin", NULL))
  /\ Finish(r)
  /\ UNCHANGED <<ucode, refresh, post, process, spent, reused, disturbed>>

AdminCreateRefused(r) ==
  /\ At(r, "admin.create")
  /\ With(request[r].email) # {}
  /\ Finish(r)
  /\ UNCHANGED nothing

AdminUpdate(r, u, email, password, type) ==
  /\ email = NULL \/ With(email) = {}
  /\ type \in Roles
  /\ Present(u)
  /\ Arrive(r, "update", [pc |-> "admin.update", user |-> u, email |-> email,
                          password |-> password, type |-> type])
  /\ UNCHANGED nothing

AdminUpdateRow(r) ==
  LET u == request[r].user
      new == {request[r].email} \ {NULL}
      taken == \E v \in Accounts \ {u} : Present(v) /\ user[v].email \in new IN
  /\ At(r, "admin.update")
  /\ \/ /\ Present(u) /\ ~taken
        /\ user' = [user EXCEPT ![u].email = IF new = {} THEN @ ELSE request[r].email,
             ![u].type = request[r].type,
             ![u].password = IF request[r].password THEN "admin" ELSE @]
        /\ held' = [held EXCEPT ![u] = @ \cup new]
     \/ (~Present(u) \/ taken) /\ UNCHANGED <<user, held>>
  /\ Finish(r)
  /\ UNCHANGED <<ucode, refresh, post, process, spent, reused, disturbed>>

----------------------------------------------------------------------------
ModerationNext ==
  \E r \in Requests :
    \/ \E u \in Accounts :
         \/ \E d \in Decisions : Decide(r, u, d)
         \/ RestrictAStudent(r, u) \/ UnrestrictAStudent(r, u)
         \/ Approve(r, u) \/ Reject(r, u) \/ Delete(r, u)
         \/ \E email \in Emails \cup {NULL}, password \in BOOLEAN, type \in TypeInputs :
              AdminUpdate(r, u, email, password, type)
         \/ AdminCreateInsert(r, u)
    \/ \E email \in Emails, type \in TypeInputs : AdminCreate(r, email, type)
    \/ DecideUpdate(r) \/ DecideMail(r)
    \/ RestrictUpdate(r) \/ UnrestrictUpdate(r) \/ ApproveUpdate(r) \/ RejectUpdate(r)
    \/ DeleteRow(r) \/ AdminCreateRefused(r) \/ AdminUpdateRow(r)
=============================================================================
