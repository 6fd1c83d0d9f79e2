-------------------------- MODULE StudentsService --------------------------
(***************************************************************************)
(* modules/students/students.service.ts: booking a session, joining and    *)
(* cancelling a booking, and asking for another date.                      *)
(*                                                                         *)
(* The notification and socket calls of these handlers write no table of   *)
(* this module and nothing here reads what they write.                     *)
(***************************************************************************)
EXTENDS Store

(* Number(slots_available), as JavaScript converts it, and n - 1.          *)
Number(v)  == IF v = NULL THEN 0 ELSE v
OneLess(n) == IF n = NaN THEN NaN ELSE n - 1

(* The guard of line 58: it refuses when the counter is HIGH.              *)
FullyBooked(slots) == slots \notin {NULL, NaN} /\ slots >= 15

----------------------------------------------------------------------------
(* bookASession: read the session, look for a booking of the same student  *)
(* at the same date, insert the booking, write the counter back.           *)

Book(h, u, s, d) ==
  /\ LiveSession(s)
  /\ ~FullyBooked(createSession[s].slots_available)
  /\ d \in createSession[s].available_slots
  /\ Arrive(h, [pc |-> "book.find", user |-> u, session |-> s, date |-> d,
                slots |-> createSession[s].slots_available])
  /\ UNCHANGED allButHandler

AlreadyBookedAndPaid(u, s, d) ==  \* mutant: overlooks bookings not yet paid
  \E b \in BookingsOf(s) : /\ bookSession[b].user_id = u /\ bookSession[b].session_date = d
                           /\ bookSession[b].payment_status = "paid"

AlreadyBooked(u, s, d) ==
  \E b \in BookingsOf(s) : bookSession[b].user_id = u /\ bookSession[b].session_date = d

BookFindCounts(h) ==  \* mutant: counts a slot down that is booked already
  /\ At(h, "book.find")
  /\ IF AlreadyBooked(handler[h].user, handler[h].session, handler[h].date)
       THEN Goto(h, "book.count")
       ELSE Goto(h, "book.create")
  /\ UNCHANGED allButHandler

BookFind(h) ==
  /\ At(h, "book.find")
  /\ IF AlreadyBooked(handler[h].user, handler[h].session, handler[h].date)
       THEN Finish(h)
       ELSE Goto(h, "book.create")
  /\ UNCHANGED allButHandler

NewBookingUnpaid(u, s, d) ==  \* mutant: a payment status the schema does not know
  [user_id |-> u, create_session_id |-> s, session_date |-> d,
   payment_status |-> "unpaid", status |-> "pending",
   is_cancelled |-> FALSE, is_joined |-> FALSE, is_completed |-> FALSE,
   is_request_for_reschedule |-> FALSE, started_at |-> NULL]

NewBooking(u, s, d) ==
  [user_id |-> u, create_session_id |-> s, session_date |-> d,
   payment_status |-> "pending", status |-> "pending",
   is_cancelled |-> FALSE, is_joined |-> FALSE, is_completed |-> FALSE,
   is_request_for_reschedule |-> FALSE, started_at |-> NULL]

BookCreate(h, b) ==
  /\ At(h, "book.create")
  /\ LiveSession(handler[h].session)
  /\ ~LiveBooking(b)
  /\ bookSession' = [bookSession EXCEPT ![b] =
       NewBooking(handler[h].user, handler[h].session, handler[h].date)]
  /\ Goto(h, "book.count")
  /\ UNCHANGED <<process, createSession, reschedule, stripe, cron>>

(* The insert violates the foreign key if the session is gone by now.      *)
BookOrphan(h) ==
  /\ At(h, "book.create")
  /\ ~LiveSession(handler[h].session)
  /\ Finish(h)
  /\ UNCHANGED allButHandler

(* The counter is computed from the row read at the beginning.             *)
BookCount(h) ==
  LET s == handler[h].session IN
  /\ At(h, "book.count")
  /\ createSession' = IF LiveSession(s)
       THEN [createSession EXCEPT ![s].slots_available = OneLess(Number(handler[h].slots))]
       ELSE createSession
  /\ Finish(h)
  /\ UNCHANGED <<process, bookSession, reschedule, stripe, cron>>

----------------------------------------------------------------------------
(* joinsession                                                             *)

MayJoin(row) ==
  row.payment_status = "paid" /\ ~row.is_cancelled /\ ~row.is_joined

Join(h, b) ==
  /\ LiveBooking(b)
  /\ MayJoin(bookSession[b])
  /\ Arrive(h, [pc |-> "join.update", booking |-> b])
  /\ UNCHANGED allButHandler

JoinUpdate(h) ==
  /\ At(h, "join.update")
  /\ bookSession' = [bookSession EXCEPT ![handler[h].booking].is_joined = TRUE]
  /\ Finish(h)
  /\ UNCHANGED <<process, createSession, reschedule, stripe, cron>>

(* cancellSession                                                          *)

MayCancelAnything(row) == TRUE  \* mutant

MayCancel(row) == ~row.is_joined

Cancel(h, b) ==
  /\ LiveBooking(b)
  /\ MayCancel(bookSession[b])
  /\ Arrive(h, [pc |-> "cancel.update", booking |-> b])
  /\ UNCHANGED allButHandler

CancelUpdate(h) ==
  /\ At(h, "cancel.update")
  /\ bookSession' = [bookSession EXCEPT ![handler[h].booking].is_cancelled = TRUE]
  /\ Finish(h)
  /\ UNCHANGED <<process, createSession, reschedule, stripe, cron>>

----------------------------------------------------------------------------
(* requestRescheduleSession: read the booking, look for an earlier         *)
(* request, insert the request, then flag the booking.                     *)

MayRequestCancelled(row) == ~row.is_joined  \* mutant: no look at is_cancelled

MayRequest(row) == ~row.is_joined /\ ~row.is_cancelled

RequestReschedule(h, b) ==
  LET row == bookSession[b] IN
  /\ LiveBooking(b)
  /\ MayRequest(row)
  /\ Arrive(h, [pc |-> "request.find", booking |-> b, started_at |-> row.started_at,
                requested |-> \/ row.status = "Reschedule_requested"
                              \/ row.is_request_for_reschedule])
  /\ UNCHANGED allButHandler

(* From ten seconds to three hours after the start that was read.          *)
InWindowUnstarted(started) ==  \* mutant: no look at a missing started_at
  started = NULL \/ (clock >= started + TenSeconds /\ clock <= started + ThreeHours)

InWindow(started) ==
  started # NULL /\ clock >= started + TenSeconds /\ clock <= started + ThreeHours

RequestFind(h) ==
  LET st == handler[h] IN
  /\ At(h, "request.find")
  /\ IF reschedule[st.booking] = "none" /\ ~st.requested /\ InWindow(st.started_at)
       THEN handler' = [handler EXCEPT ![h] =
              [pc |-> "request.create", booking |-> st.booking]]
       ELSE Finish(h)
  /\ UNCHANGED allButHandler

(* A second row for the booking violates @@unique([user_id, book_session_id]). *)
RequestCreateOnly(h) ==  \* mutant: forgets to flag the booking
  LET b == handler[h].booking IN
  /\ At(h, "request.create")
  /\ reschedule' = [reschedule EXCEPT ![b] = "pending"]
  /\ Finish(h)
  /\ UNCHANGED <<process, createSession, bookSession, stripe, cron>>

RequestCreate(h) ==
  LET b == handler[h].booking IN
  /\ At(h, "request.create")
  /\ IF reschedule[b] = "none"
       THEN /\ reschedule' = [reschedule EXCEPT ![b] = "pending"]
            /\ Goto(h, "request.flag")
       ELSE Finish(h) /\ UNCHANGED reschedule
  /\ UNCHANGED <<process, createSession, bookSession, stripe, cron>>

RequestFlagStatusOnly(h) ==  \* mutant: writes the text and not the flag
  /\ At(h, "request.flag")
  /\ bookSession' = [bookSession EXCEPT ![handler[h].booking].status = "Reschedule_requested"]
  /\ Finish(h)
  /\ UNCHANGED <<process, createSession, reschedule, stripe, cron>>

RequestFlag(h) ==
  LET b == handler[h].booking IN
  /\ At(h, "request.flag")
  /\ bookSession' = [bookSession EXCEPT
       ![b].is_request_for_reschedule = TRUE, ![b].status = "Reschedule_requested"]
  /\ Finish(h)
  /\ UNCHANGED <<process, createSession, reschedule, stripe, cron>>

----------------------------------------------------------------------------
StudentsNext ==
  \E h \in Handlers :
    \/ \E u \in Students, s \in Sessions, d \in Dates : Book(h, u, s, d)
    \/ \E b \in Bookings :
         BookCreate(h, b) \/ Join(h, b) \/ Cancel(h, b) \/ RequestReschedule(h, b)
    \/ BookFind(h) \/ BookOrphan(h) \/ BookCount(h) \/ JoinUpdate(h) \/ CancelUpdate(h)
    \/ RequestFind(h) \/ RequestCreate(h) \/ RequestFlag(h)
=============================================================================
