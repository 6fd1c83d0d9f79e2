------------------------------- MODULE Store -------------------------------
(***************************************************************************)
(* The state the services share: the PostgreSQL tables of the tutoring     *)
(* core as prisma/schema.prisma declares them, and the requests the Node   *)
(* process is in the middle of.                                            *)
(*                                                                         *)
(* No service opens a transaction for its writes, so the unit of atomicity *)
(* is one Prisma call.  A request is therefore a little process: it reads, *)
(* awaits, and writes what it decided from the values it read.  handler[h] *)
(* holds the name of the statement request h will issue next, with the     *)
(* local values that statement uses.  Everything the process holds in      *)
(* memory is lost by a crash; the tables are not.                          *)
(***************************************************************************)
EXTENDS Integers, FiniteSets

CONSTANTS
  Students,      \* users that book sessions
  Teachers,      \* users that own sessions
  Sessions,      \* ids of create_sessions rows
  Bookings,      \* ids of book_sessions rows
  Intents,       \* ids of Stripe payment intents
  Handlers,      \* how many requests are served at once
  Dates,         \* slot dates, as readings of the clock
  SlotInputs,    \* what a teacher may give as slots_available
  ChargeInputs,  \* what a teacher may give as session_charge
  BodyColumns,   \* the columns of a session that bodies of an update name
  TenSeconds, OneHour, ThreeHours,
  MaxClock,      \* bound: the clock stops here
  MaxFaults,     \* bound: how often the process dies or a statement fails
  NULL,          \* the SQL null, and an id that names no row yet
  NaN,           \* what Number() makes of a text that is no number
  Deleted        \* an id whose row was deleted

ASSUME StoreAssumption ==
  /\ Dates \subseteq Nat
  /\ SlotInputs \subseteq Int \cup {NULL, NaN}
  /\ ChargeInputs \subseteq Int \cup {NaN}
  /\ {TenSeconds, OneHour, ThreeHours, MaxClock, MaxFaults} \subseteq Nat
  /\ NULL \notin Int /\ NaN \notin Int /\ NULL # NaN
  /\ NULL \notin Students \cup Teachers \cup Sessions \cup Bookings

VARIABLES
  clock,         \* new Date()
  faults,        \* crashes and failed statements so far
  createSession, \* table create_sessions
  bookSession,   \* table book_sessions
  reschedule,    \* table reschedule_sessions, by its book_session_id
  intent,        \* payment intents, held by Stripe
  event,         \* webhook events Stripe has sent and may send again
  handler,       \* requests in progress
  cron           \* the batch SchedulerService is working on

vars == <<clock, faults, createSession, bookSession, reschedule,
          intent, event, handler, cron>>

(* The variables a group of actions leaves alone.                          *)
process  == <<clock, faults>>
stripe   == <<intent, event>>
allButHandler == <<process, createSession, bookSession, reschedule, stripe, cron>>

----------------------------------------------------------------------------
(* Rows.  Int flags that only ever hold 0 or 1 are BOOLEANs.               *)

SlotValues   == Int \cup {NULL, NaN}
ChargeValues == Int \cup {NaN}

SessionRow ==
  [user_id: Teachers, slots_available: SlotValues, session_charge: ChargeValues,
   available_slots: SUBSET Dates, is_started: BOOLEAN, is_completed: BOOLEAN]

BookingRow ==
  [user_id: Students, create_session_id: Sessions \cup {NULL}, session_date: Dates,
   payment_status: {"pending", "paid"},
   status: {"pending", "Reschedule_requested", "completed"},
   is_cancelled: BOOLEAN, is_joined: BOOLEAN, is_completed: BOOLEAN,
   is_request_for_reschedule: BOOLEAN, started_at: Nat \cup {NULL}]

(* A request's (is_accepted, is_rejected), always written as one of (0,0), *)
(* (1,0) and (0,1), with rescheduled_date set by (1,0) alone; "none" is no *)
(* row.                                                                    *)
Decision == {"none", "pending", "accepted", "rejected"}

IntentRow == [booking: Bookings, status: {"open", "succeeded", "canceled"}]

StripeEvent == [type: {"succeeded", "payment_failed", "canceled"}, intent: Intents]

LiveSession(s) == createSession[s] \notin {NULL, Deleted}
LiveBooking(b) == bookSession[b] # NULL

ASSUME RowAssumption ==
  /\ {NULL, Deleted} \cap SessionRow = {} /\ NULL # Deleted
  /\ NULL \notin BookingRow \cup IntentRow

(* An update writes whatever its body holds, and the validation pipe takes *)
(* nothing away (main.ts: no whitelist), so that a body may name any       *)
(* column.  Those of this API name columns of the form a session is        *)
(* created from: CreateSessionDto, and UpdateSessionDto without the first. *)
ASSUME BodyAssumption ==
  BodyColumns \subseteq {"slots_available", "session_charge", "available_slots"}

(* The bookings whose foreign key still names session s.                   *)
BookingsOf(s) == {b \in Bookings : LiveBooking(b) /\ bookSession[b].create_session_id = s}

----------------------------------------------------------------------------
(* Requests in progress: the statement to issue next and the values that   *)
(* were read for it.                                                       *)

Idle == [pc |-> "idle"]

HandlerState ==
  {Idle}
    \cup [pc: {"book.find", "book.create", "book.count"}, user: Students,
          session: Sessions, date: Dates, slots: SlotValues]
    \cup [pc: {"join.update", "cancel.update", "request.create", "request.flag",
               "pay.intent"}, booking: Bookings]
    \cup [pc: {"request.find"}, booking: Bookings, started_at: Nat \cup {NULL},
          requested: BOOLEAN]
    \cup [pc: {"start.bookings", "start.session", "edit.update", "delete.row"},
          session: Sessions]
    \cup [pc: {"accept.update", "reject.update"}, booking: Bookings]

(* A request h arrives and its first statement is answered: what it will   *)
(* do next is st.  A request that is refused changes nothing and is not a  *)
(* step.                                                                   *)
Arrive(h, st) ==
  /\ handler[h] = Idle
  /\ handler' = [handler EXCEPT ![h] = st]

At(h, pc)    == handler[h].pc = pc
Goto(h, pc)  == handler' = [handler EXCEPT ![h].pc = pc]
Finish(h)    == handler' = [handler EXCEPT ![h] = Idle]

CronIdle == [todo |-> {}, mark |-> NULL]

TypeOK ==
  /\ clock \in Nat
  /\ faults \in Nat
  /\ createSession \in [Sessions -> SessionRow \cup {NULL, Deleted}]
  /\ bookSession \in [Bookings -> BookingRow \cup {NULL}]
  /\ reschedule \in [Bookings -> Decision]
  /\ intent \in [Intents -> IntentRow \cup {NULL}]
  /\ event \subseteq StripeEvent
  /\ handler \in [Handlers -> HandlerState]
  /\ cron \in [todo: SUBSET (Bookings \X (Sessions \cup {NULL})),
               mark: Sessions \cup {NULL}]

Init ==
  /\ clock = 0
  /\ faults = 0
  /\ createSession = [s \in Sessions |-> NULL]
  /\ bookSession = [b \in Bookings |-> NULL]
  /\ reschedule = [b \in Bookings |-> "none"]
  /\ intent = [i \in Intents |-> NULL]
  /\ event = {}
  /\ handler = [h \in Handlers |-> Idle]
  /\ cron = CronIdle

(* Time passes while everything else waits.                                *)
Tick ==
  /\ clock < MaxClock
  /\ clock' = clock + 1
  /\ UNCHANGED <<faults, createSession, bookSession, reschedule, stripe, handler, cron>>

(* The Node process dies between two statements: requests and the cron     *)
(* batch are forgotten, the tables and Stripe are as they were.            *)
Crash ==
  /\ faults < MaxFaults
  /\ faults' = faults + 1
  /\ handler' = [h \in Handlers |-> Idle]
  /\ cron' = CronIdle
  /\ UNCHANGED <<clock, createSession, bookSession, reschedule, stripe>>

(* The next statement of one request fails (the connection is lost, it     *)
(* times out): the rejected promise ends the request where it stands, and  *)
(* what it has written stays written.                                      *)
StatementFails(h) ==
  /\ faults < MaxFaults
  /\ handler[h] # Idle
  /\ faults' = faults + 1
  /\ Finish(h)
  /\ UNCHANGED <<clock, createSession, bookSession, reschedule, stripe, cron>>
=============================================================================
