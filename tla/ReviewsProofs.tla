--------------------------- MODULE ReviewsProofs ---------------------------
(***************************************************************************)
(* The theorem about Reviews, for any number of students, bookings and     *)
(* requests: ratings and reports have the bookings their handlers looked   *)
(* for, and nobody rates a booking twice.  It rests on what                *)
(* BookingContract promises of the core.                                   *)
(***************************************************************************)
EXTENDS Reviews, TLAPS

RequestState ==
  {Idle} \cup [pc: {"rate.create", "review.find", "review.create"}, user: Users, booking: Bookings]
         \cup [pc: {"report.bookings", "report.create"}, reporter: Users, reported: Users]

MayReport(u, v) ==
  /\ \A type \in {Students, Teachers, Admins} : ~({u, v} \subseteq type)
  /\ HasBooking(u, v) \/ {u, v} \cap Admins # {}

(* What the handler of a request has found so far: the booking a review is *)
(* about was completed when the stage was read, the one a student rates is *)
(* theirs, and whoever reports may.                                        *)
Backed(st) ==
  /\ st.pc \in {"review.find", "review.create"} => stage[st.booking] = "completed"
  /\ st.pc = "rate.create" => Booked(st.booking) /\ student[st.booking] = st.user
  /\ st.pc \in {"report.bookings", "report.create"} =>
       \A type \in {Students, Teachers, Admins} : ~({st.reporter, st.reported} \subseteq type)
  /\ st.pc = "report.create" => MayReport(st.reporter, st.reported)

(* All of this stays so, since nothing takes a booking back.               *)
RInv ==
  /\ stage \in [Bookings -> {"none", "booked", "joined", "completed"}]
  /\ request \in [Requests -> RequestState]
  /\ rating \subseteq RatingRow
  /\ \A r \in Requests : Backed(request[r])
  /\ ReviewsBacked

LEMMA RequestOnly ==
  ASSUME RInv, NEW r \in Requests, NEW st \in RequestState,
         request' = [request EXCEPT ![r] = st],
         UNCHANGED <<stage, student, teacher, rating, report>>, Backed(st)
  PROVE  RInv'
<1>1. request' \in [Requests -> RequestState] /\ \A q \in Requests : Backed(request'[q])
  BY DEF RInv
<1>2. \A q \in Requests : Backed(request[q])'
  BY <1>1 DEF Backed, Booked, MayReport, HasBooking
<1>3. ReviewsBacked'
  BY DEF RInv, ReviewsBacked, ReviewedWasHeld, RatedOwn, RatedOnce, ReportedAfterBooking, Booked, HasBooking
<1> QED
  BY <1>1, <1>2, <1>3 DEF RInv

(* A request that is over has nothing to back.                             *)
LEMMA Over == Idle \in RequestState /\ Backed(Idle)
BY DEF RequestState, Backed, Idle

(* Nothing takes a booking out of the stage completed, or back.            *)
LEMMA StageStep ==
  ASSUME RInv, CNext, UNCHANGED <<student, teacher, rating, report, request>>
  PROVE  RInv'
<1>1. /\ stage' \in [Bookings -> {"none", "booked", "joined", "completed"}]
      /\ \A b \in Bookings : stage[b] = "completed" => stage'[b] = "completed"
      /\ \A b \in Bookings : Booked(b) => Booked(b)'
  BY DEF CNext, Make, MarkPaid, Attend, Complete, RInv, Booked
<1>2. \A u, v : HasBooking(u, v) => HasBooking(u, v)'
  BY <1>1 DEF HasBooking
<1>3. ASSUME NEW r \in Requests PROVE Backed(request[r])'
  <2>1. request[r] \in RequestState /\ Backed(request[r]) /\ request'[r] = request[r]
    BY DEF RInv
  <2>2. request[r].pc \in {"rate.create", "review.find", "review.create"} => request[r].booking \in Bookings
    BY <2>1 DEF RequestState, Idle
  <2> QED
    BY <1>1, <1>2, <2>1, <2>2 DEF Backed, MayReport
<1>4. ReviewsBacked'
  BY <1>1, <1>2 DEF RInv, RatingRow, ReviewsBacked, ReviewedWasHeld, RatedOwn, RatedOnce, ReportedAfterBooking
<1> QED
  BY <1>1, <1>3, <1>4 DEF RInv

LEMMA InsertStep ==
  ASSUME RInv, NEW r \in Requests, NEW via \in {"rate", "review"}, Insert(r, via),
         At(r, IF via = "rate" THEN "rate.create" ELSE "review.create")
  PROVE  RInv'
<1> DEFINE u == request[r].user
           b == request[r].booking
<1>1. u \in Users /\ b \in Bookings /\ Backed(request[r])
  BY DEF At, RInv, RequestState, Idle
<1>2. /\ request' = [request EXCEPT ![r] = Idle]
      /\ UNCHANGED <<stage, student, teacher, report>>
  BY DEF Insert, Finish, cvars, people
<1>3. CASE UNCHANGED rating
  BY <1>2, <1>3, RequestOnly, Over
<1>4. ASSUME NEW row \in RatingRow, row.user = u, row.booking = b, row.via = via, ~Rated(u, b),
             rating' = rating \cup {row}
      PROVE  RInv'
  <2>1. /\ row.via = "review" => stage[row.booking] = "completed"
        /\ row.via = "rate" => Booked(row.booking) /\ student[row.booking] = row.user
    BY <1>1, <1>4 DEF At, Backed
  <2>2. ReviewedWasHeld' /\ RatedOwn' /\ rating' \subseteq RatingRow
    BY <1>2, <1>4, <2>1 DEF RInv, ReviewsBacked, ReviewedWasHeld, RatedOwn, Booked
  <2>3. RatedOnce'
    BY <1>4 DEF RInv, ReviewsBacked, RatedOnce, Rated
  <2>4. ReportedAfterBooking'
    BY <1>2 DEF RInv, ReviewsBacked, ReportedAfterBooking, HasBooking, Booked
  <2>5. request' \in [Requests -> RequestState] /\ \A q \in Requests : Backed(request'[q])
    BY <1>2, Over DEF RInv
  <2>6. \A q \in Requests : Backed(request[q])'
    BY <1>2, <2>5 DEF Backed, Booked, MayReport, HasBooking
  <2> QED
    BY <1>2, <2>2, <2>3, <2>4, <2>5, <2>6 DEF RInv, ReviewsBacked
<1>5. ASSUME ~Rated(u, b), NEW id \in Ratings,
             rating' = rating \cup {[id |-> id, user |-> u, booking |-> b, via |-> via]}
      PROVE  RInv'
  BY <1>1, <1>4, <1>5 DEF RatingRow
<1> QED
  BY <1>3, <1>5 DEF Insert

LEMMA RequestStep ==
  ASSUME RInv, NEW r \in Requests,
         \/ \E u \in Users, b \in Bookings : Rate(r, u, b) \/ Review(r, u, b)
         \/ \E u, v \in Users : Report(r, u, v)
         \/ RateCreate(r) \/ ReviewFind(r) \/ ReviewCreate(r)
         \/ ReportBookings(r) \/ ReportCreate(r)
  PROVE  RInv'
<1>1. ASSUME NEW u \in Users, NEW b \in Bookings, Rate(r, u, b) PROVE RInv'
  <2>1. PICK st \in RequestState : st = [pc |-> "rate.create", user |-> u, booking |-> b]
    BY DEF RequestState
  <2>2. Backed(st)
    BY <1>1, <2>1 DEF Rate, Backed
  <2> QED
    BY <1>1, <2>1, <2>2, RequestOnly DEF Rate, Arrive, cvars, rows, people
<1>2. ASSUME NEW u \in Users, NEW b \in Bookings, Review(r, u, b) PROVE RInv'
  <2>1. PICK st \in RequestState : st = [pc |-> "review.find", user |-> u, booking |-> b]
    BY DEF RequestState
  <2>2. Backed(st)
    BY <1>2, <2>1 DEF Review, HeldEnough, Backed
  <2> QED
    BY <1>2, <2>1, <2>2, RequestOnly DEF Review, Arrive, cvars, rows, people
<1>3. ASSUME NEW u \in Users, NEW v \in Users, Report(r, u, v) PROVE RInv'
  <2>1. PICK st \in RequestState : st = [pc |-> "report.bookings", reporter |-> u, reported |-> v]
    BY DEF RequestState
  <2>2. Backed(st)
    BY <1>3, <2>1 DEF Report, Backed
  <2> QED
    BY <1>3, <2>1, <2>2, RequestOnly DEF Report, Arrive, cvars, rows, people
<1>4. CASE RateCreate(r)
  BY <1>4, InsertStep DEF RateCreate
<1>5. CASE ReviewCreate(r)
  BY <1>5, InsertStep DEF ReviewCreate
<1>6. CASE ReviewFind(r)
  <2>1. /\ At(r, "review.find") /\ Backed(request[r])
        /\ request[r] \in [pc: {"rate.create", "review.find", "review.create"},
                           user: Users, booking: Bookings]
    BY <1>6 DEF ReviewFind, At, RInv, RequestState, Idle
  <2>2. PICK st \in RequestState :
          st = [request[r] EXCEPT !.pc = "review.create"] /\ Backed(st)
    <3>1. PICK st : st = [request[r] EXCEPT !.pc = "review.create"]
      OBVIOUS
    <3>2. /\ st \in [pc: {"rate.create", "review.find", "review.create"},
                     user: Users, booking: Bookings]
          /\ st.pc = "review.create" /\ st.booking = request[r].booking
      BY <2>1, <3>1
    <3>3. Backed(st)
      BY <2>1, <3>2 DEF At, Backed
    <3> QED
      BY <3>1, <3>2, <3>3, Zenon DEF RequestState
  <2>3. request' = [request EXCEPT ![r] = Idle] \/ request' = [request EXCEPT ![r] = st]
    BY <1>6, <2>1, <2>2 DEF ReviewFind, Finish, Goto, RInv
  <2> QED
    BY <1>6, <2>2, <2>3, Over, RequestOnly DEF ReviewFind, cvars, rows, people
<1>7. CASE ReportBookings(r)
  <2>1. /\ At(r, "report.bookings") /\ Backed(request[r])
        /\ request[r] \in [pc: {"report.bookings", "report.create"}, reporter: Users, reported: Users]
    BY <1>7 DEF ReportBookings, At, RInv, RequestState, Idle
  <2>2. PICK st : st = [request[r] EXCEPT !.pc = "report.create"]
    OBVIOUS
  <2>3. /\ st \in [pc: {"report.bookings", "report.create"}, reporter: Users, reported: Users]
        /\ st.pc = "report.create"
        /\ st.reporter = request[r].reporter /\ st.reported = request[r].reported
    BY <2>1, <2>2
  <2>4. st \in RequestState
    BY <2>3, Zenon DEF RequestState
  <2>5. request' = [request EXCEPT ![r] = Idle] \/ request' = [request EXCEPT ![r] = st]
    BY <1>7, <2>2 DEF ReportBookings, Finish, Goto
  <2>6. CASE MayReport(request[r].reporter, request[r].reported)
    <3>1. Backed(st)
      BY <2>1, <2>3, <2>6 DEF Backed, MayReport
    <3> QED
      BY <1>7, <2>4, <2>5, <3>1, Over, RequestOnly DEF ReportBookings, cvars, rows, people
  <2>7. CASE ~MayReport(request[r].reporter, request[r].reported)
    <3>1. request' = [request EXCEPT ![r] = Idle]
      BY <1>7, <2>1, <2>7 DEF ReportBookings, Finish, MayReport, Backed, At
    <3> QED
      BY <1>7, <3>1, Over, RequestOnly DEF ReportBookings, cvars, rows, people
  <2> QED
    BY <2>6, <2>7
<1>8. CASE ReportCreate(r)
  <2>1. /\ MayReport(request[r].reporter, request[r].reported)
        /\ request' = [request EXCEPT ![r] = Idle] /\ UNCHANGED <<stage, student, teacher, rating>>
        /\ report' = report \cup {[reporter |-> request[r].reporter, reported |-> request[r].reported]}
    BY <1>8 DEF ReportCreate, At, RInv, Backed, Finish, cvars, people
  <2>2. ReviewsBacked'
    BY <2>1 DEF RInv, ReviewsBacked, ReviewedWasHeld, RatedOwn, RatedOnce, ReportedAfterBooking,
                MayReport, HasBooking, Booked
  <2>3. request' \in [Requests -> RequestState] /\ \A q \in Requests : Backed(request'[q])
    BY <2>1, Over DEF RInv
  <2>4. \A q \in Requests : Backed(request[q])'
    BY <2>1, <2>3 DEF Backed, Booked, MayReport, HasBooking
  <2> QED
    BY <2>1, <2>2, <2>3, <2>4 DEF RInv
<1> QED
  BY <1>1, <1>2, <1>3, <1>4, <1>5, <1>6, <1>7, <1>8

(* What is as it was, but for requests that end.                           *)
LEMMA OnlyEnds ==
  ASSUME RInv, UNCHANGED <<stage, student, teacher, rating, report>>,
         request' \in [Requests -> RequestState],
         \A r \in Requests : request'[r] = request[r] \/ request'[r] = Idle
  PROVE  RInv'
<1>1. \A r \in Requests : Backed(request'[r])
  BY Over DEF RInv
<1>2. \A r \in Requests : Backed(request[r])'
  BY <1>1 DEF Backed, Booked, MayReport, HasBooking
<1>3. ReviewsBacked'
  BY DEF RInv, ReviewsBacked, ReviewedWasHeld, RatedOwn, RatedOnce, ReportedAfterBooking, Booked, HasBooking
<1> QED
  BY <1>2, <1>3 DEF RInv

LEMMA FailStep ==
  ASSUME RInv, Fails
  PROVE  RInv'
<1>1. PICK rs \in {Requests} \cup {{r} : r \in Requests} :
        request' = [r \in Requests |-> IF r \in rs THEN Idle ELSE request[r]]
  BY DEF Fails
<1>2. request' \in [Requests -> RequestState]
  BY <1>1, Over DEF RInv
<1> QED
  BY <1>1, <1>2, OnlyEnds DEF Fails, cvars, rows, people

(* Every rating and every report has what its handler looked for           *)
(* statements earlier: a review a completed booking, a rating of a student *)
(* their own booking, a report between a student and a teacher a booking   *)
(* of the student; and nobody rates a booking twice, whatever overlaps,    *)
(* and whatever the core does to bookings meanwhile.                       *)
THEOREM ReviewsCorrect == Spec => []ReviewsBacked
<1>1. Init => RInv
  <2> SUFFICES ASSUME Init PROVE RInv
    OBVIOUS
  <2>1. stage \in [Bookings -> {"none", "booked", "joined", "completed"}]
    BY DEF Init, CInit
  <2>2. request \in [Requests -> RequestState] /\ \A r \in Requests : Backed(request[r])
    BY Over DEF Init
  <2>3. rating = {} /\ report = {}
    BY DEF Init
  <2>4. ReviewsBacked
    BY <2>3 DEF ReviewsBacked, ReviewedWasHeld, RatedOwn, RatedOnce, ReportedAfterBooking
  <2> QED
    BY <2>1, <2>2, <2>3, <2>4 DEF RInv
<1>2. RInv /\ [Next]_rvars => RInv'
  <2> SUFFICES ASSUME RInv, [Next]_rvars PROVE RInv'
    OBVIOUS
  <2>1. CASE CNext /\ UNCHANGED <<people, rows, request, faults>>
    BY <2>1, StageStep DEF rows, people
  <2>2. CASE UNCHANGED rvars
    BY <2>2, OnlyEnds DEF rvars, cvars, rows, people, RInv
  <2> QED
    BY <2>1, <2>2, RequestStep, FailStep DEF Next
<1>3. RInv => ReviewsBacked
  BY DEF RInv
<1> QED
  BY <1>1, <1>2, <1>3, PTL DEF Spec
=============================================================================
