------------------------------- MODULE MCLMS -------------------------------
(* Instances of LMS for TLC.                                               *)
EXTENDS Listings, TLC

CONSTANTS h1, h2

(* Requests are interchangeable, and so are users and bookings where       *)
(* nothing starts from rows.                                               *)
FreshSymmetry ==
  Permutations(Handlers) \cup Permutations(Students) \cup Permutations(Teachers)
    \cup Permutations(Bookings)

(* A later moment of the system: every booking is of some session, paid by *)
(* an intent of its own and joined, with nothing in progress.  The cron    *)
(* job then has a batch of several sessions to get through.                *)
HeldInit ==
  \E t \in Teachers, u \in [Bookings -> Students],
     of \in [Bookings -> Sessions],
     by \in {f \in [Bookings -> Intents] : \A b, c \in Bookings : b # c => f[b] # f[c]} :
    /\ \A b, c \in Bookings : b # c => u[b] # u[c] \/ of[b] # of[c]
    /\ clock = 0
    /\ faults = 0
    /\ createSession = [s \in Sessions |->
         [user_id |-> t, slots_available |-> NULL, session_charge |-> 5,
          available_slots |-> Dates, is_started |-> TRUE, is_completed |-> FALSE]]
    /\ bookSession = [b \in Bookings |->
         [NewBooking(u[b], of[b], 0) EXCEPT !.payment_status = "paid", !.is_joined = TRUE,
                                         !.started_at = 0]]
    /\ reschedule = [b \in Bookings |-> "none"]
    /\ intent = [i \in Intents |->
         IF \E b \in Bookings : by[b] = i
           THEN [booking |-> CHOOSE b \in Bookings : by[b] = i, status |-> "succeeded"]
           ELSE NULL]
    /\ event = {}
    /\ handler = [h \in Handlers |-> Idle]
    /\ cron = CronIdle

(* An earlier moment: one session is left, a booking of it was just made,  *)
(* and the first attempt to pay it was canceled.                           *)
BookedInit ==
  \E t \in Teachers, u \in Students :
    LET s == CHOOSE s \in Sessions : TRUE
        b == CHOOSE b \in Bookings : TRUE
        i == CHOOSE i \in Intents : TRUE
    IN
    /\ clock = 0
    /\ faults = 0
    /\ createSession = [z \in Sessions |->
         IF z = s
           THEN [user_id |-> t, slots_available |-> 0, session_charge |-> 5,
                 available_slots |-> Dates, is_started |-> FALSE, is_completed |-> FALSE]
           ELSE Deleted]
    /\ bookSession = [c \in Bookings |-> IF c = b THEN NewBooking(u, s, 0) ELSE NULL]
    /\ reschedule = [c \in Bookings |-> "none"]
    /\ intent = [j \in Intents |->
         IF j = i THEN [booking |-> b, status |-> "canceled"] ELSE NULL]
    /\ event = {}
    /\ handler = [h \in Handlers |-> Idle]
    /\ cron = CronIdle

SequentialSpec == (BookedInit \/ HeldInit) /\ [][Next]_vars /\ Fairness
=============================================================================
