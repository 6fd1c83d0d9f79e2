------------------------------ MODULE Listings ------------------------------
(***************************************************************************)
(* What the pages of students, teachers and administrators show of the     *)
(* tables of the core.  A page writes nothing; the columns it passes on    *)
(* unread are left out, and the queries of one page are taken at one       *)
(* moment.                                                                 *)
(***************************************************************************)
EXTENDS LMS, FiniteSetsExt

(* What a page shows whose handler reads a field of null.                  *)
Throws == NULL

(* A student's page on bookings shows a row per booking.                   *)
PageRow ==
  [charge: ChargeValues, request: Decision, isJoined: BOOLEAN, isCancelled: BOOLEAN,
   isCompleted: BOOLEAN, status: {"pending", "Reschedule_requested", "completed"}]

ASSUME PagesAssumption ==
  \A own \in SUBSET Bookings : Throws \notin [own -> PageRow] \cup [own -> Sessions]

RowsOf(u) == {b \in Bookings : LiveBooking(b) /\ bookSession[b].user_id = u}

----------------------------------------------------------------------------
(* modules/teacher/teacher.service.ts                                      *)

SessionsOf(t) == {s \in Sessions : Owns(t, s)}

(* getAllSessionsForOneTeachers, and getAllSessionsForOneTeacher with the  *)
(* same condition.                                                         *)
OpenSessions(t) == {s \in SessionsOf(t) : ~createSession[s].is_completed}

CompletedSessions(t) == {s \in SessionsOf(t) : createSession[s].is_completed}

(* parseFloat(session_charge || '0'), with 0 for what is no number.        *)
ChargeOrZero(s) ==
  IF createSession[s].session_charge = NaN THEN 0 ELSE createSession[s].session_charge

States(t) ==
  [totalSessions |-> Cardinality(SessionsOf(t)),
   totalEarnings |-> MapThenSumSet(ChargeOrZero, CompletedSessions(t))]

(* getATeacherById: sessions are the completed ones here.                  *)
TeacherById(t) ==
  LET sessions == {s \in SessionsOf(t) : createSession[s].is_completed} IN
  [totalSessions |-> Cardinality(sessions),
   totalEarnings |-> MapThenSumSet(ChargeOrZero, sessions)]

(* findAll: everybody with a session, whatever became of it; a single      *)
(* price is shown as a range of 20, and the next date is the first ever    *)
(* offered.                                                                *)
PriceRange(charges) ==
  IF charges = {} THEN NULL
    ELSE <<Min(charges), IF Cardinality(charges) = 1 THEN Min(charges) + 20 ELSE Max(charges)>>

TeacherCards ==
  [t \in {t \in Teachers : SessionsOf(t) # {}} |->
    LET dates == UNION {createSession[s].available_slots : s \in SessionsOf(t)} IN
    [priceRange |-> PriceRange({createSession[s].session_charge : s \in SessionsOf(t)} \ {NaN}),
     nextAvailability |-> IF dates = {} THEN NULL ELSE Min(dates)]]

BookedFrom(t) == UNION {BookingsOf(s) : s \in SessionsOf(t)}

EndedBookings(t) == {b \in BookedFrom(t) : bookSession[b].is_completed}

BookedSessionsOfTeacher(t) ==
  {[session |-> bookSession[b].create_session_id, student |-> bookSession[b].user_id] :
     b \in BookedFrom(t)}

RescheduleRequests(t) == {b \in BookedFrom(t) : reschedule[b] # "none"}

----------------------------------------------------------------------------
(* modules/students/students.service.ts                                    *)

(* Some booking of u has lost its session.                                 *)
Orphaned(u) ==
  \E b \in Bookings :
    LiveBooking(b) /\ bookSession[b].user_id = u /\ bookSession[b].create_session_id = NULL

(* sessionInfo.session_type: the page fails as a whole if one booking has  *)
(* lost its session.                                                       *)
BookedSessionsOfStudent(u) ==
  LET own == RowsOf(u) IN
  IF Orphaned(u) THEN Throws
    ELSE [b \in own |->
           [charge |-> createSession[bookSession[b].create_session_id].session_charge,
            request |-> reschedule[b], isJoined |-> bookSession[b].is_joined,
            isCancelled |-> bookSession[b].is_cancelled,
            isCompleted |-> bookSession[b].is_completed, status |-> bookSession[b].status]]

(* getAllCompletedSessionsForStudent                                       *)
CompletedOfStudent(u) ==
  {b \in RowsOf(u) : bookSession[b].is_joined /\ bookSession[b].is_completed}

(* getAllBookedSessionsMaterialsForStudent: the same failure, in spite of  *)
(* 'sessionDetails not available' further down; and no bookings is an      *)
(* error, too.                                                             *)
MaterialsOfStudent(u) ==
  LET own == RowsOf(u) IN
  CASE Orphaned(u) -> Throws
    [] own = {} -> NULL
    [] OTHER -> {[booking |-> b, teacher |-> createSession[bookSession[b].create_session_id].user_id] :
                   b \in own}

----------------------------------------------------------------------------
(* modules/admin: tutor, student and sessions                              *)

PaidSessions(t) ==
  {s \in SessionsOf(t) : \E b \in BookingsOf(s) : bookSession[b].payment_status = "paid"}

TutorSessionStates(t) ==
  [totalRevenue |-> MapThenSumSet(ChargeOrZero, PaidSessions(t)),
   totalCreatedSessions |-> Cardinality(SessionsOf(t)),
   pendingBookedSessions |-> Cardinality({b \in BookedFrom(t) : bookSession[b].status = "pending"}),
   completedSessions |-> Cardinality({s \in SessionsOf(t) : createSession[s].is_completed}),
   cancelledBookedSessions |-> Cardinality({b \in BookedFrom(t) : bookSession[b].is_cancelled})]

TutorSessionInfo(t) ==
  [s \in SessionsOf(t) |-> {bookSession[b].user_id : b \in BookingsOf(s)}]

(* findAStudentStates; payment_transactions holds no row, so totalPaid is  *)
(* always 0.                                                               *)
StudentStates(u) ==
  [totalBookedSessions |-> Cardinality(RowsOf(u)),
   pendingSessions     |-> Cardinality({b \in RowsOf(u) : bookSession[b].status = "pending"}),
   completedSessions   |-> Cardinality({b \in RowsOf(u) : bookSession[b].is_completed}),
   cancelledSessions   |-> Cardinality({b \in RowsOf(u) : bookSession[b].is_cancelled}),
   totalPaid           |-> 0]

(* findAStudentAllSession reads session.status without the question mark   *)
(* of the lines around it; the error becomes success: false.               *)
SessionsOfStudent(u) ==
  LET own == RowsOf(u) IN
  IF Orphaned(u) THEN Throws
    ELSE [b \in own |-> bookSession[b].create_session_id]

AllSessions ==
  [s \in {s \in Sessions : LiveSession(s)} |->
     [session_charge |-> createSession[s].session_charge,
      booked |-> {bookSession[b].user_id : b \in BookingsOf(s)}]]

(* findAllStates of the sessions (without those of the last day).          *)
SessionStates ==
  LET live == {s \in Sessions : LiveSession(s)} IN
  [totalSessions |-> Cardinality(live),
   completedSessions |-> Cardinality({s \in live : createSession[s].is_completed}),
   cancelledSessions |-> Cardinality({b \in Bookings : LiveBooking(b) /\ bookSession[b].is_cancelled})]

----------------------------------------------------------------------------
(* What a teacher is shown as earned comes from sessions the administrator *)
(* is shown as paid: getStates goes by the flag the cron job has set on    *)
(* the session, findTutorSessionStates by what the webhook has set on its  *)
(* bookings.                                                               *)
EarnedWasPaid == \A t \in Teachers : CompletedSessions(t) \subseteq PaidSessions(t)

(* The pages agree on what is over.  What a teacher sees as ended, its     *)
(* student sees as completed; no page counts more completed sessions, and  *)
(* no more of a teacher's sessions are missing from the open ones, than    *)
(* bookings have ended; and no booking is counted by its text as pending   *)
(* and by its flag as completed.                                           *)
EndsAgree ==
  /\ \A t \in Teachers :
       LET ended == Cardinality(EndedBookings(t)) IN
       /\ EndedBookings(t) = BookedFrom(t) \cap UNION {CompletedOfStudent(u) : u \in Students}
       /\ TutorSessionStates(t).completedSessions <= ended
       /\ TeacherById(t).totalSessions <= ended
       /\ States(t).totalSessions - Cardinality(OpenSessions(t)) <= ended
  /\ SessionStates.completedSessions
       <= Cardinality(UNION {CompletedOfStudent(u) : u \in Students})
  /\ \A u \in Students :
       LET states == StudentStates(u) IN
       states.pendingSessions + states.completedSessions <= states.totalBookedSessions

(* What a student sees as requested by the text of the status is in the    *)
(* column beside it, and on the page where the teacher decides on it.      *)
RequestsAppear ==
  \A u \in Students : BookedSessionsOfStudent(u) # Throws =>
    \A b \in DOMAIN BookedSessionsOfStudent(u) :
      LET row == BookedSessionsOfStudent(u)[b] IN
      row.status = "Reschedule_requested" =>
        row.request # "none" /\ b \in UNION {RescheduleRequests(t) : t \in Teachers}

(* The pages of a student fail only if a session was deleted, and what     *)
(* they show is found on the pages of the others: the sessions, with the   *)
(* student, on the administrator's, and the teachers among the cards, with *)
(* the student among those who booked.                                     *)
PagesAnswer ==
  \A u \in Students :
    /\ Throws \in {BookedSessionsOfStudent(u), SessionsOfStudent(u)} =>
         \E s \in Sessions : createSession[s] = Deleted
    /\ SessionsOfStudent(u) # Throws =>
         \A b \in DOMAIN SessionsOfStudent(u) :
           LET s == SessionsOfStudent(u)[b] IN
           /\ s \in DOMAIN AllSessions /\ u \in AllSessions[s].booked
           /\ \E t \in Teachers : s \in SessionsOf(t) /\ u \in TutorSessionInfo(t)[s]
    /\ MaterialsOfStudent(u) # Throws =>
         \A row \in MaterialsOfStudent(u) :
           /\ row.teacher \in DOMAIN TeacherCards
           /\ \E booked \in BookedSessionsOfTeacher(row.teacher) : booked.student = u

(* What students, teachers and administrators are shown of the core agrees:*)
(* on what was earned, on what is over, on what is asked for and on who    *)
(* booked what of whom.                                                    *)
PagesAgree == EarnedWasPaid /\ EndsAgree /\ RequestsAppear /\ PagesAnswer
=============================================================================
