---------------------------- MODULE AccountPages ----------------------------
(***************************************************************************)
(* What administrators are shown of the accounts: the pages of             *)
(* modules/admin/tutor, .../student and .../user, and what a user is shown *)
(* of its own.  A page writes nothing; the columns it passes on unread are *)
(* left out.                                                               *)
(***************************************************************************)
EXTENDS Accounts

OfType(type) == {u \in Accounts : Present(u) /\ user[u].type = type}

----------------------------------------------------------------------------
(* modules/admin/tutor                                                     *)

AllTutors           == OfType("teacher")
RestrictedTeachers  == {u \in OfType("teacher") : user[u].is_restricted}
TutorApplications   == {u \in OfType("teacher") : user[u].is_accepted = "pending"}
AllAcceptedTutors   == {u \in OfType("teacher") : user[u].is_accepted = "accepted"}

(* Of somebody who is no teacher the type of null is read, and the page    *)
(* answers 'Error fetching tutor application'.                             *)
OneTutorApplication(u) == IF u \in OfType("teacher") THEN {user[u].is_accepted} ELSE {}

TutorStates ==
  [totalTutors     |-> Cardinality(OfType("teacher")),
   newApplications |-> Cardinality({u \in OfType("teacher") : user[u].is_accepted = "pending"}),
   activeTutors    |-> Cardinality({u \in OfType("teacher") : user[u].status}),
   suspend         |-> Cardinality({u \in OfType("teacher") : user[u].is_restricted})]

----------------------------------------------------------------------------
(* modules/admin/student and modules/admin/user                            *)

RestrictedStudents == {u \in OfType("student") : user[u].is_restricted}

StudentCounts ==
  [totalStudents    |-> Cardinality(OfType("student")),
   activeStudents   |-> Cardinality({u \in OfType("student") : user[u].status}),
   inactiveStudents |-> Cardinality({u \in OfType("student") : ~user[u].status})]

(* findAll of the users, with the filters a caller may leave out.          *)
UsersPage(type, approved) ==
  {u \in Accounts : /\ Present(u)
                    /\ type \in {NULL, user[u].type}
                    /\ approved \in {NULL, IF user[u].approved THEN "approved" ELSE "other"}}

----------------------------------------------------------------------------
(* The last letter a tutor got about the application says on which page    *)
(* the tutor is, once letters and decisions have come to an end, unless    *)
(* decisions overlapped, one failed halfway or a letter was lost.          *)
DecisionsAtRest(u) ==
  /\ \A r \in Requests : ~Deciding(r, u)
  /\ \A i \in DOMAIN mail : ~IsAbout(mail[i], u)

LastLetterIsTrue ==
  \A u \in AllTutors : DecisionsAtRest(u) /\ u \notin disturbed =>
    /\ OneTutorApplication(u) = {decision[u]}
    /\ u \in TutorApplications <=> decision[u] = "pending"
    /\ u \in AllAcceptedTutors <=> decision[u] = "accepted"

(* Nobody is counted as active and as suspended, whatever restrictions,    *)
(* their lifting, decisions and updates of the same rows overlap: two      *)
(* columns tell the one from the other, and no handler writes one of them  *)
(* back from a row it has read.  The lists are as long as the counts.      *)
CountedOnce ==
  /\ Cardinality(RestrictedTeachers) = TutorStates.suspend
  /\ Cardinality(UsersPage("teacher", NULL)) = TutorStates.totalTutors
  /\ TutorStates.activeTutors + TutorStates.suspend <= TutorStates.totalTutors
  /\ StudentCounts.activeStudents + Cardinality(RestrictedStudents) <= StudentCounts.totalStudents
=============================================================================
