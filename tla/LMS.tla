-------------------------------- MODULE LMS --------------------------------
(***************************************************************************)
(* The tutoring core: students, teachers, the cron job and Stripe acting   *)
(* on the same tables, any of their requests interleaved between any two   *)
(* statements, and failing between them.                                   *)
(***************************************************************************)
EXTENDS StudentsService, TeacherService, Scheduler, StripeController

Next ==
  \/ StudentsNext \/ TeachersNext \/ SchedulerNext \/ StripeNext
  \/ Tick \/ Crash
  \/ \E h \in Handlers : StatementFails(h)

Spec == Init /\ [][Next]_vars

(* Requests in progress are finished: the event loop runs every            *)
(* continuation whose promise is settled.                                  *)
Continue(h) ==
  \/ BookFind(h) \/ BookOrphan(h) \/ BookCount(h) \/ \E b \in Bookings : BookCreate(h, b)
  \/ JoinUpdate(h) \/ CancelUpdate(h)
  \/ RequestFind(h) \/ RequestCreate(h) \/ RequestFlag(h)
  \/ EditUpdate(h) \/ StartBookings(h) \/ StartSession(h) \/ DeleteRow(h)
  \/ AcceptUpdate(h) \/ RejectUpdate(h)
  \/ \E i \in Intents : PayIntent(h, i)

(* The cron job fires and works its batch off; Stripe delivers what it has *)
(* to report.  Nobody is obliged to make a request, to pay, or to let time *)
(* pass.                                                                   *)
Fairness ==
  /\ \A h \in Handlers : WF_vars(Continue(h))
  /\ WF_vars(CronFind) /\ WF_vars(CronStep)
  /\ \A i \in Intents : WF_vars(WebhookSucceeded([type |-> "succeeded", intent |-> i]))

FairSpec == Spec /\ Fairness

----------------------------------------------------------------------------
(* Safety                                                                  *)

BookingSteps == {"join.update", "cancel.update", "request.find", "request.create",
                 "request.flag", "pay.intent", "accept.update", "reject.update"}

(* Every reference a table, a request, the cron batch or Stripe holds to a *)
(* row names a row that exists, although each was read some statements     *)
(* ago: bookings are never deleted, and a deleted session is cleared from  *)
(* its bookings by the foreign key.                                        *)
References ==
  /\ \A b \in Bookings : LiveBooking(b) /\ bookSession[b].create_session_id # NULL =>
       LiveSession(bookSession[b].create_session_id)
  /\ \A h \in Handlers : handler[h].pc \in BookingSteps => LiveBooking(handler[h].booking)
  /\ \A p \in cron.todo : LiveBooking(p[1])
  /\ \A i \in Intents : intent[i] # NULL => LiveBooking(intent[i].booking)
  /\ \A e \in event : intent[e.intent] # NULL
  /\ \A b \in Bookings : reschedule[b] # "none" => LiveBooking(b)

(* What a request, the cron batch or an event in flight was decided on is  *)
(* still so when it is acted upon, whatever was written in between.        *)
JoinReads ==
  \A h \in Handlers : At(h, "join.update") =>
    bookSession[handler[h].booking].payment_status = "paid"

RequestReads ==
  \A h \in Handlers :
    /\ \/ At(h, "request.find") /\ handler[h].started_at # NULL
       \/ At(h, "request.create")
       => bookSession[handler[h].booking].started_at # NULL
    /\ handler[h].pc \in {"request.flag", "accept.update", "reject.update"} =>
         reschedule[handler[h].booking] # "none"

CronReads ==
  /\ \A p \in cron.todo :
       /\ bookSession[p[1]].is_joined
       /\ bookSession[p[1]].session_date + OneHour <= clock
       /\ p[2] # NULL => bookSession[p[1]].create_session_id = p[2] \/ createSession[p[2]] = Deleted
  /\ cron.mark # NULL =>
       \/ createSession[cron.mark] = Deleted
       \/ \E b \in BookingsOf(cron.mark) : bookSession[b].is_completed

EventReads ==
  \A e \in event : e.type = "succeeded" => intent[e.intent].status = "succeeded"

ReadsStillHold == JoinReads /\ RequestReads /\ CronReads /\ EventReads

(* A booking counts as joined only if it is paid: joinsession decides on a *)
(* row it read earlier, and that decision is still right when it is        *)
(* written because no code takes a payment back.                           *)
PaidBeforeJoined ==
  \A b \in Bookings : LiveBooking(b) /\ bookSession[b].is_joined =>
    bookSession[b].payment_status = "paid"

(* A booking is paid only if Stripe has charged an intent made for it,     *)
(* whatever the order in which success and failure events arrive.          *)
PaidWasCharged ==
  \A b \in Bookings : LiveBooking(b) /\ bookSession[b].payment_status = "paid" =>
    \E i \in Intents :
      intent[i] # NULL /\ intent[i].booking = b /\ intent[i].status = "succeeded"

(* The cron job completes only bookings that were joined and whose hour is *)
(* over.                                                                   *)
CompletedWasHeld ==
  \A b \in Bookings : LiveBooking(b) /\ bookSession[b].is_completed =>
    /\ bookSession[b].is_joined
    /\ bookSession[b].session_date + OneHour <= clock

(* A session is marked completed only after one of its bookings was, even  *)
(* if the batch dies in between.                                           *)
CompletedSessionHasCompletedBooking ==
  \A s \in Sessions : LiveSession(s) /\ createSession[s].is_completed =>
    \E b \in BookingsOf(s) : bookSession[b].is_completed

(* A booking is flagged as having a reschedule request only if the request *)
(* exists, and a request exists only for a booking that was started: the   *)
(* row is inserted first, the flag set second.                             *)
FlaggedHasRequest ==
  \A b \in Bookings :
    /\ LiveBooking(b) /\ bookSession[b].is_request_for_reschedule => reschedule[b] # "none"
    /\ reschedule[b] # "none" => LiveBooking(b) /\ bookSession[b].started_at # NULL

(* The status text never runs ahead of the flags: "completed" and          *)
(* "Reschedule_requested" are backed by their flag, and "pending" means    *)
(* that neither flag is set.                                               *)
StatusBackedByFlags ==
  \A b \in Bookings : LiveBooking(b) =>
    LET row == bookSession[b] IN
    /\ row.status = "completed" => row.is_completed
    /\ row.status = "Reschedule_requested" => row.is_request_for_reschedule
    /\ row.status = "pending" => ~row.is_completed /\ ~row.is_request_for_reschedule

(* If a booking has been started, its session is marked started, or the    *)
(* request that starts it is on its way, or something failed before it     *)
(* could be marked.                                                        *)
StartReachesSession ==
  \A b \in Bookings :
    LiveBooking(b) /\ bookSession[b].started_at # NULL /\ bookSession[b].create_session_id # NULL =>
      LET s == bookSession[b].create_session_id IN
      \/ createSession[s].is_started
      \/ \E h \in Handlers : At(h, "start.session") /\ handler[h].session = s
      \/ faults > 0

(* Likewise a reschedule request whose booking is not flagged.             *)
RequestReachesBooking ==
  \A b \in Bookings : reschedule[b] # "none" =>
    \/ bookSession[b].is_request_for_reschedule
    \/ \E h \in Handlers : At(h, "request.flag") /\ handler[h].booking = b
    \/ faults > 0

(* Flag and request agree, in both directions, as far as two statements    *)
(* that are no transaction allow.                                          *)
RequestsAgree == FlaggedHasRequest /\ RequestReachesBooking

(* The slot counter of a session lies between a value its teacher gave it  *)
(* and that value less the bookings there are: each request writes back    *)
(* the counter it read at the beginning, less one, so that overlapping     *)
(* requests, edits and failures lose decrements, but no booking is counted *)
(* twice and no slot appears that was never offered.  A missing value      *)
(* counts as 0, and what is no number stays none.                          *)
SlotsAccounted ==
  \A s \in Sessions : LiveSession(s) =>
    LET slots == Number(createSession[s].slots_available) IN
    slots # NaN => \E given \in SlotInputs :
      /\ Number(given) # NaN
      /\ slots \in Number(given) - Cardinality(BookingsOf(s)) .. Number(given)

(* The tables implement the contract of a booking.                         *)
Stage(b) ==
  CASE ~LiveBooking(b) -> "none"
    [] LiveBooking(b) /\ bookSession[b].is_completed -> "completed"
    [] LiveBooking(b) /\ ~bookSession[b].is_completed /\ bookSession[b].is_joined -> "joined"
    [] OTHER -> "booked"

Abstract == INSTANCE BookingContract WITH
  stage <- [b \in Bookings |-> Stage(b)],
  paid  <- {b \in Bookings : LiveBooking(b) /\ bookSession[b].payment_status = "paid"}

ContractKept == Abstract!Contract

(* And the contract of a session and what is booked of it: no request that *)
(* holds the id of a session revives or changes it after it was deleted,   *)
(* and its bookings know.                                                  *)
Offers == INSTANCE SessionContract WITH
  offered   <- {s \in Sessions : LiveSession(s)},
  withdrawn <- {s \in Sessions : createSession[s] = Deleted},
  started   <- {s \in Sessions : LiveSession(s) /\ createSession[s].is_started},
  completed <- {s \in Sessions : LiveSession(s) /\ createSession[s].is_completed},
  made      <- {b \in Bookings : LiveBooking(b)},
  ended     <- {b \in Bookings : LiveBooking(b) /\ bookSession[b].is_completed},
  of        <- [b \in Bookings |->
                 IF LiveBooking(b) THEN bookSession[b].create_session_id ELSE NULL]

SessionsKept == Offers!Contract

----------------------------------------------------------------------------
(* What the services' own messages say.  These hold as long as requests    *)
(* are served one at a time and fail when two of them interleave.          *)

(* 'Cannot join a cancelled session' and 'You cannot cancel a session that *)
(* has already been joined'.                                               *)
JoinedNotCancelled ==
  \A b \in Bookings : LiveBooking(b) =>
    ~(bookSession[b].is_joined /\ bookSession[b].is_cancelled)

(* 'You have already booked this session at the selected time'.            *)
NoDoubleBooking ==
  \A b, c \in Bookings :
    /\ b # c /\ LiveBooking(b) /\ LiveBooking(c)
    /\ bookSession[b].create_session_id # NULL
    => \/ bookSession[b].user_id # bookSession[c].user_id
       \/ bookSession[b].create_session_id # bookSession[c].create_session_id
       \/ bookSession[b].session_date # bookSession[c].session_date

(* 'This request has already been accepted, you cannot reject this', and   *)
(* the reverse.                                                            *)
DecisionFinal ==
  [][\A b \in Bookings :
       reschedule[b] \in {"accepted", "rejected"} => reschedule'[b] = reschedule[b]]_reschedule

(* 'You cannot reschedule a session that has already been joined', 'You    *)
(* cannot reschedule a cancelled session'.                                 *)
RequestedWhileOpen ==
  [][\A b \in Bookings : reschedule[b] = "none" /\ reschedule'[b] # "none" =>
       ~bookSession[b].is_joined /\ ~bookSession[b].is_cancelled]_reschedule

----------------------------------------------------------------------------
(* Liveness                                                                *)

(* Every booking that was joined and whose hour is over gets completed,    *)
(* although a session deleted under the cron job, a failing statement or a *)
(* crash ends its batch.                                                   *)
HeldGetsCompleted ==
  \A b \in Bookings :
    (LiveBooking(b) /\ bookSession[b].is_joined /\ bookSession[b].session_date + OneHour <= clock)
      ~> (LiveBooking(b) /\ bookSession[b].is_completed)

(* And so does its session, unless it is deleted or something fails: a     *)
(* session whose only booking is completed is never selected again.        *)
SessionFollows ==
  \A b \in Bookings, s \in Sessions :
    (b \in BookingsOf(s) /\ bookSession[b].is_completed)
      ~> (~LiveSession(s) \/ createSession[s].is_completed \/ faults > 0)

(* A charge reaches the booking it was made for, unless something fails:   *)
(* an event whose handling failed is not sent again.                       *)
ChargeReachesBooking ==
  \A i \in Intents, b \in Bookings :
    (intent[i] # NULL /\ intent[i].status = "succeeded" /\ intent[i].booking = b)
      ~> ((LiveBooking(b) /\ bookSession[b].payment_status = "paid") \/ faults > 0)
=============================================================================
