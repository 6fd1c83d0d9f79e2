------------------------------ MODULE Reviews ------------------------------
(***************************************************************************)
(* Ratings and reports: rateASession of modules/students/                  *)
(* students.service.ts, giveRatingToTeaher and createReport of             *)
(* modules/extras/extras.service.ts.                                       *)
(*                                                                         *)
(* Both ways of rating write rate_sessions.  Bookings are used through     *)
(* BookingContract: whatever the core does to them meanwhile is a step of  *)
(* the contract, which LMS implements.                                     *)
(***************************************************************************)
EXTENDS BookingContract, Naturals

CONSTANTS
  Students, Teachers, Admins,
  Ratings,    \* ids of rate_sessions rows
  Requests,   \* how many requests are served at once
  MaxFaults   \* bound: failing statements and crashes

ASSUME ReviewsAssumption ==
  /\ MaxFaults \in Nat
  /\ Students \cap Teachers = {} /\ Admins \cap (Students \cup Teachers) = {}

VARIABLES
  student, teacher,  \* who books each booking, and whose session it is of
  rating,            \* table rate_sessions
  report,            \* table reports
  request,           \* requests in progress
  faults

rows   == <<rating, report>>
people == <<student, teacher>>
rvars  == <<cvars, people, rows, request, faults>>

Users == Students \cup Teachers \cup Admins
Idle  == [pc |-> "idle"]

(* via is the handler that wrote the row.                                  *)
RatingRow == [id: Ratings, user: Users, booking: Bookings, via: {"rate", "review"}]
ReportRow == [reporter: Users, reported: Users]

TypeOK ==
  /\ rating \subseteq RatingRow
  /\ report \subseteq ReportRow
  /\ request \in [Requests -> {Idle}
       \cup [pc: {"rate.create", "review.find", "review.create"}, user: Users, booking: Bookings]
       \cup [pc: {"report.bookings", "report.create"}, reporter: Users, reported: Users]]
  /\ faults \in 0..MaxFaults

Init ==
  /\ CInit
  /\ student \in [Bookings -> Students]
  /\ teacher \in [Bookings -> Teachers]
  /\ rating = {} /\ report = {}
  /\ request = [r \in Requests |-> Idle]
  /\ faults = 0

At(r, pc)     == request[r].pc = pc
Arrive(r, st) == request[r] = Idle /\ request' = [request EXCEPT ![r] = st]
Goto(r, pc)   == request' = [request EXCEPT ![r].pc = pc]
Finish(r)     == request' = [request EXCEPT ![r] = Idle]

Booked(b) == stage[b] # "none"
Rated(u, b) == \E row \in rating : row.user = u /\ row.booking = b

(* The insert of a rating, unless @@unique([user_id, book_session_id])     *)
(* refuses it.                                                             *)
InsertAnyway(r, via) ==  \* mutant: no unique constraint
  LET u == request[r].user b == request[r].booking IN
  /\ \E id \in Ratings \ {row.id : row \in rating} :
       rating' = rating \cup {[id |-> id, user |-> u, booking |-> b, via |-> via]}
  /\ Finish(r)
  /\ UNCHANGED <<cvars, people, report, faults>>

Insert(r, via) ==
  LET u == request[r].user b == request[r].booking IN
  /\ \/ Rated(u, b) /\ UNCHANGED rating
     \/ ~Rated(u, b) /\ \E id \in Ratings \ {row.id : row \in rating} :
          rating' = rating \cup {[id |-> id, user |-> u, booking |-> b, via |-> via]}
  /\ Finish(r)
  /\ UNCHANGED <<cvars, people, report, faults>>

----------------------------------------------------------------------------
(* rateASession: a booking of the student, in whatever stage.  (An earlier *)
(* rating is looked for and the answer is not used.)                       *)

Rate(r, u, b) ==
  /\ u \in Students
  /\ Booked(b) /\ student[b] = u
  /\ Arrive(r, [pc |-> "rate.create", user |-> u, booking |-> b])
  /\ UNCHANGED <<cvars, people, rows, faults>>

RateCreate(r) == At(r, "rate.create") /\ Insert(r, "rate")

----------------------------------------------------------------------------
(* giveRatingToTeaher: the stage of the booking, then an earlier rating,   *)
(* then (without effect) whose booking it is.                              *)

HeldEnoughJoined(b) == stage[b] \in {"joined", "completed"}  \* mutant: no look at is_completed

HeldEnough(b) == stage[b] = "completed"

Review(r, u, b) ==
  /\ HeldEnough(b)
  /\ Arrive(r, [pc |-> "review.find", user |-> u, booking |-> b])
  /\ UNCHANGED <<cvars, people, rows, faults>>

ReviewFind(r) ==
  /\ At(r, "review.find")
  /\ IF Rated(request[r].user, request[r].booking) THEN Finish(r) ELSE Goto(r, "review.create")
  /\ UNCHANGED <<cvars, people, rows, faults>>

ReviewCreate(r) == At(r, "review.create") /\ Insert(r, "review")

----------------------------------------------------------------------------
(* createReport: of a user of another type.  Between a student and a       *)
(* teacher the bookings of the student are read with a filter on their     *)
(* session, which leaves a booking of another teacher in the list with its *)
(* session set to null.                                                    *)

Report(r, u, v) ==
  /\ \A type \in {Students, Teachers, Admins} : ~({u, v} \subseteq type)
  /\ Arrive(r, [pc |-> "report.bookings", reporter |-> u, reported |-> v])
  /\ UNCHANGED <<cvars, people, rows, faults>>

HasBooking(u, v) == \E b \in Bookings : Booked(b) /\ student[b] \in {u, v}

ReportBookings(r) ==
  /\ At(r, "report.bookings")
  /\ IF \/ HasBooking(request[r].reporter, request[r].reported)
        \/ {request[r].reporter, request[r].reported} \cap Admins # {}
       THEN Goto(r, "report.create") ELSE Finish(r)
  /\ UNCHANGED <<cvars, people, rows, faults>>

ReportCreate(r) ==
  /\ At(r, "report.create")
  /\ report' = report \cup {[reporter |-> request[r].reporter, reported |-> request[r].reported]}
  /\ Finish(r)
  /\ UNCHANGED <<cvars, people, rating, faults>>

----------------------------------------------------------------------------
Fails ==
  /\ faults < MaxFaults
  /\ faults' = faults + 1
  /\ \E rs \in {Requests} \cup {{r} : r \in Requests} :
       request' = [r \in Requests |-> IF r \in rs THEN Idle ELSE request[r]]
  /\ UNCHANGED <<cvars, people, rows>>

Next ==
  \/ CNext /\ UNCHANGED <<people, rows, request, faults>>
  \/ \E r \in Requests :
       \/ \E u \in Users, b \in Bookings : Rate(r, u, b) \/ Review(r, u, b)
       \/ \E u, v \in Users : Report(r, u, v)
       \/ RateCreate(r) \/ ReviewFind(r) \/ ReviewCreate(r)
       \/ ReportBookings(r) \/ ReportCreate(r)
  \/ Fails

Spec == Init /\ [][Next]_rvars

----------------------------------------------------------------------------
(* A rating given through giveRatingToTeaher is of a completed booking,    *)
(* although the stage was read two statements before the rating is stored. *)
ReviewedWasHeld ==
  \A row \in rating : row.via = "review" => stage[row.booking] = "completed"

(* A student rates their own bookings; and nobody a booking twice, by      *)
(* whichever handler and however many requests find no earlier rating.     *)
RatedOwn  == \A row \in rating : row.via = "rate" => Booked(row.booking) /\ student[row.booking] = row.user
RatedOnce == \A row, other \in rating :
  row.user = other.user /\ row.booking = other.booking => row = other

(* Reports are between users of different types, and between a student and *)
(* a teacher only of a student who has booked a session.                   *)
ReportedAfterBooking ==
  \A row \in report :
    /\ \A type \in {Students, Teachers, Admins} : ~({row.reporter, row.reported} \subseteq type)
    /\ HasBooking(row.reporter, row.reported) \/ {row.reporter, row.reported} \cap Admins # {}

(* Every rating and every report has what its handler looked for before,   *)
(* statements earlier and with other requests in between.                  *)
ReviewsBacked == ReviewedWasHeld /\ RatedOwn /\ RatedOnce /\ ReportedAfterBooking
=============================================================================
