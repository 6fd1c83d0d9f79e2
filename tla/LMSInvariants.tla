--------------------------- MODULE LMSInvariants ----------------------------
(***************************************************************************)
(* Every step of LMS keeps its invariants, for any number of students,     *)
(* teachers, sessions, bookings, intents and requests.                     *)
(*                                                                         *)
(* First, what each statement does to the tables.  Then the invariants are *)
(* proved in groups: types, references, payment, cron, reschedule          *)
(* requests, starting, slots.  A group has a lemma that says what a step   *)
(* may do without concerning it; the others are taken one by one.          *)
(***************************************************************************)
EXTENDS LMS, FiniteSetTheorems, TLAPS

SessionSteps == {"book.find", "book.create", "book.count", "edit.update",
                 "start.bookings", "start.session", "delete.row"}

(* What the next statement of a request carries.                           *)
LEMMA HandlerTypes ==
  ASSUME TypeOK, NEW h \in Handlers
  PROVE  /\ Idle \in HandlerState
         /\ handler[h].pc \in BookingSteps => handler[h].booking \in Bookings
         /\ handler[h].pc \in SessionSteps => handler[h].session \in Sessions
         /\ handler[h].pc \in {"book.find", "book.create", "book.count"} =>
              /\ handler[h].user \in Students /\ handler[h].date \in Dates
              /\ handler[h].slots \in SlotValues
         /\ handler[h].pc = "request.find" =>
              handler[h].started_at \in Nat \cup {NULL} /\ handler[h].requested \in BOOLEAN
BY DEF TypeOK, HandlerState, Idle, BookingSteps, SessionSteps

(* A live id names a row of the type.                                      *)
LEMMA LiveRow ==
  ASSUME TypeOK, NEW b \in Bookings, LiveBooking(b)
  PROVE  bookSession[b] \in BookingRow
BY DEF TypeOK, LiveBooking

(* Likewise a live session.                                                *)
LEMMA LiveSessionRow ==
  ASSUME TypeOK, NEW s \in Sessions, LiveSession(s)
  PROVE  createSession[s] \in SessionRow
BY DEF TypeOK, LiveSession

----------------------------------------------------------------------------
(* What each statement that updates book_sessions does to the table: it    *)
(* writes some columns of some rows, and makes and removes no row.         *)

Keeps(new, old, columns) ==
  /\ new.create_session_id = old.create_session_id \/ "create_session_id" \in columns
  /\ new.user_id = old.user_id /\ new.session_date = old.session_date
  /\ new.is_cancelled = old.is_cancelled \/ "is_cancelled" \in columns
  /\ new.payment_status = old.payment_status \/ "payment_status" \in columns
  /\ new.status = old.status \/ "status" \in columns
  /\ new.is_joined = old.is_joined \/ "is_joined" \in columns
  /\ new.is_completed = old.is_completed \/ "is_completed" \in columns
  /\ new.is_request_for_reschedule = old.is_request_for_reschedule
       \/ "is_request_for_reschedule" \in columns
  /\ new.started_at = old.started_at \/ "started_at" \in columns

Edits(rows, columns) ==
  /\ bookSession' \in [Bookings -> BookingRow \cup {NULL}]
  /\ \A c \in Bookings : LiveBooking(c)' <=> LiveBooking(c)
  /\ \A c \in Bookings : c \notin rows => bookSession'[c] = bookSession[c]
  /\ \A c \in Bookings : LiveBooking(c) => Keeps(bookSession'[c], bookSession[c], columns)

(* A booking edited in some columns is a booking.                          *)
LEMMA RowEdits ==
  ASSUME NEW r \in BookingRow, NEW t \in Nat
  PROVE  LET j == [r EXCEPT !.is_joined = TRUE]
             c == [r EXCEPT !.is_cancelled = TRUE]
             f == [r EXCEPT !.is_request_for_reschedule = TRUE,
                            !.status = "Reschedule_requested"]
             d == [r EXCEPT !.is_completed = TRUE, !.status = "completed"]
             p == [r EXCEPT !.payment_status = "paid"]
             g == [r EXCEPT !.started_at = t]
             n == [r EXCEPT !.create_session_id = NULL]
         IN
         /\ {j, c, f, d, p, g, n} \subseteq BookingRow
         /\ j.is_joined /\ Keeps(j, r, {"is_joined"})
         /\ Keeps(c, r, {"is_cancelled"})
         /\ f.is_request_for_reschedule /\ f.status = "Reschedule_requested"
            /\ Keeps(f, r, {"is_request_for_reschedule", "status"})
         /\ d.is_completed /\ d.status = "completed" /\ Keeps(d, r, {"is_completed", "status"})
         /\ p.payment_status = "paid" /\ Keeps(p, r, {"payment_status"})
         /\ g.started_at = t /\ Keeps(g, r, {"started_at"})
         /\ n.create_session_id = NULL /\ Keeps(n, r, {"create_session_id"})
         /\ \A columns : Keeps(r, r, columns)
BY DEF BookingRow, Keeps

(* A statement that replaces the row of one live booking by a row that     *)
(* differs in some columns edits that row in those columns.                *)
LEMMA OneRow ==
  ASSUME TypeOK, NEW b \in Bookings, LiveBooking(b), NEW row \in BookingRow, NEW columns,
         bookSession' = [bookSession EXCEPT ![b] = row],
         Keeps(row, bookSession[b], columns)
  PROVE  Edits({b}, columns) /\ bookSession'[b] = row
<1>1. /\ bookSession' \in [Bookings -> BookingRow \cup {NULL}]
      /\ bookSession'[b] = row
      /\ \A c \in Bookings : c # b => bookSession'[c] = bookSession[c]
      /\ \A c \in Bookings : LiveBooking(c)' <=> LiveBooking(c)
  BY RowAssumption DEF TypeOK, LiveBooking
<1>2. \A c \in Bookings : LiveBooking(c) => Keeps(bookSession'[c], bookSession[c], columns)
  BY <1>1 DEF Keeps
<1> QED
  BY <1>1, <1>2 DEF Edits

(* The row that bookASession inserts is a booking.                         *)
LEMMA NewRow ==
  ASSUME TypeOK, NEW h \in Handlers, NEW b \in Bookings, BookCreate(h, b)
  PROVE  NewBooking(handler[h].user, handler[h].session, handler[h].date) \in BookingRow
<1>1. /\ handler[h].user \in Students /\ handler[h].session \in Sessions
      /\ handler[h].date \in Dates
  BY HandlerTypes DEF BookCreate, At, SessionSteps
<1> QED
  BY <1>1 DEF NewBooking, BookingRow

(* The update of joinsession sets is_joined of one booking.                *)
LEMMA JoinWrites ==
  ASSUME TypeOK, References, NEW h \in Handlers, JoinUpdate(h)
  PROVE  LET b == handler[h].booking IN
         /\ b \in Bookings /\ LiveBooking(b) /\ Edits({b}, {"is_joined"})
         /\ bookSession'[b].is_joined
<1> DEFINE b == handler[h].booking
           row == [bookSession[b] EXCEPT !.is_joined = TRUE]
<1>1. b \in Bookings /\ LiveBooking(b)
  BY HandlerTypes DEF JoinUpdate, At, BookingSteps, References
<1>2. row \in BookingRow /\ Keeps(row, bookSession[b], {"is_joined"}) /\ row.is_joined
  BY <1>1, LiveRow, RowEdits, StoreAssumption
<1>3. bookSession' = [bookSession EXCEPT ![b] = row]
  BY <1>1 DEF JoinUpdate, TypeOK
<1> QED
  BY <1>1, <1>2, <1>3, OneRow

(* The update of cancellSession sets is_cancelled of one booking.          *)
LEMMA CancelWrites ==
  ASSUME TypeOK, References, NEW h \in Handlers, CancelUpdate(h)
  PROVE  Edits({handler[h].booking}, {"is_cancelled"})
<1> DEFINE b == handler[h].booking
           row == [bookSession[b] EXCEPT !.is_cancelled = TRUE]
<1>1. b \in Bookings /\ LiveBooking(b)
  BY HandlerTypes DEF CancelUpdate, At, BookingSteps, References
<1>2. row \in BookingRow /\ Keeps(row, bookSession[b], {"is_cancelled"})
  BY <1>1, LiveRow, RowEdits, StoreAssumption
<1>3. bookSession' = [bookSession EXCEPT ![b] = row]
  BY <1>1 DEF CancelUpdate, TypeOK
<1> QED
  BY <1>1, <1>2, <1>3, OneRow

(* The second write of requestRescheduleSession sets the flag and the      *)
(* status text of one booking.                                             *)
LEMMA FlagWrites ==
  ASSUME TypeOK, References, NEW h \in Handlers, RequestFlag(h)
  PROVE  LET b == handler[h].booking IN
         /\ b \in Bookings /\ LiveBooking(b)
         /\ Edits({b}, {"is_request_for_reschedule", "status"})
         /\ bookSession'[b].is_request_for_reschedule
         /\ bookSession'[b].status = "Reschedule_requested"
<1> DEFINE b == handler[h].booking
           row == [bookSession[b] EXCEPT !.is_request_for_reschedule = TRUE,
                                         !.status = "Reschedule_requested"]
<1>1. b \in Bookings /\ LiveBooking(b)
  BY HandlerTypes DEF RequestFlag, At, BookingSteps, References
<1>2. row \in BookingRow /\ Keeps(row, bookSession[b], {"is_request_for_reschedule", "status"})
      /\ row.is_request_for_reschedule /\ row.status = "Reschedule_requested"
  BY <1>1, LiveRow, RowEdits, StoreAssumption
<1>3. bookSession' = [bookSession EXCEPT ![b] = row]
  BY <1>1 DEF RequestFlag, TypeOK
<1> QED
  BY <1>1, <1>2, <1>3, OneRow

(* The cron job's first write completes one booking of its batch.          *)
LEMMA CronWrites ==
  ASSUME TypeOK, References, NEW b \in Bookings, NEW s \in Sessions \cup {NULL},
         CronBooking(b, s)
  PROVE  /\ LiveBooking(b) /\ Edits({b}, {"is_completed", "status"})
         /\ bookSession'[b].is_completed /\ bookSession'[b].status = "completed"
<1> DEFINE row == [bookSession[b] EXCEPT !.is_completed = TRUE, !.status = "completed"]
<1>1. LiveBooking(b)
  BY DEF CronBooking, References
<1>2. row \in BookingRow /\ Keeps(row, bookSession[b], {"is_completed", "status"})
      /\ row.is_completed /\ row.status = "completed"
  BY <1>1, LiveRow, RowEdits, StoreAssumption
<1>3. bookSession' = [bookSession EXCEPT ![b] = row]
  BY DEF CronBooking, TypeOK
<1> QED
  BY <1>1, <1>2, <1>3, OneRow

(* The webhook marks one booking paid.                                     *)
LEMMA WebhookWrites ==
  ASSUME TypeOK, References, NEW e \in StripeEvent, WebhookSucceeded(e)
  PROVE  LET b == intent[e.intent].booking IN
         /\ e.intent \in Intents /\ intent[e.intent] # NULL
         /\ b \in Bookings /\ LiveBooking(b) /\ Edits({b}, {"payment_status"})
         /\ bookSession'[b].payment_status = "paid"
<1> DEFINE b == intent[e.intent].booking
           row == [bookSession[b] EXCEPT !.payment_status = "paid"]
<1>1. e.intent \in Intents /\ intent[e.intent] \in IntentRow
  BY DEF WebhookSucceeded, References, TypeOK, StripeEvent
<1>2. b \in Bookings /\ LiveBooking(b)
  BY <1>1, RowAssumption DEF References, IntentRow
<1>3. row \in BookingRow /\ Keeps(row, bookSession[b], {"payment_status"})
      /\ row.payment_status = "paid"
  BY <1>2, LiveRow, RowEdits, StoreAssumption
<1>4. bookSession' = [bookSession EXCEPT ![b] = row]
  BY DEF WebhookSucceeded
<1> QED
  BY <1>1, <1>2, <1>3, <1>4, OneRow, RowAssumption

(* The first write of startASession stamps the bookings of the session and *)
(* no others.                                                              *)
LEMMA StartWrites ==
  ASSUME TypeOK, NEW h \in Handlers, StartBookings(h)
  PROVE  /\ Edits(BookingsOf(handler[h].session), {"started_at"})
         /\ \A c \in BookingsOf(handler[h].session) : bookSession'[c].started_at = clock
<1> DEFINE rows == BookingsOf(handler[h].session)
           Row(c) == [bookSession[c] EXCEPT !.started_at = clock]
<1>1. \A c \in rows : /\ Row(c) \in BookingRow /\ Row(c).started_at = clock
                      /\ Keeps(Row(c), bookSession[c], {"started_at"})
  BY LiveRow, RowEdits DEF BookingsOf, TypeOK
<1>2. \A c \in Bookings : bookSession'[c] = IF c \in rows THEN Row(c) ELSE bookSession[c]
  BY DEF StartBookings
<1>3. bookSession' \in [Bookings -> BookingRow \cup {NULL}]
  BY <1>1, <1>2 DEF StartBookings, TypeOK
<1>4. \A c \in Bookings : LiveBooking(c)' <=> LiveBooking(c)
  BY <1>1, <1>2, RowAssumption DEF LiveBooking, BookingsOf
<1>5. \A c \in Bookings : LiveBooking(c) => Keeps(bookSession'[c], bookSession[c], {"started_at"})
  BY <1>1, <1>2 DEF Keeps
<1>6. \A c \in Bookings : c \in rows => bookSession'[c] = Row(c)
  BY <1>2
<1> QED
  BY <1>1, <1>2, <1>3, <1>4, <1>5, <1>6 DEF Edits, BookingsOf

(* Deleting a session clears the reference of its bookings and touches     *)
(* nothing else of them.                                                   *)
LEMMA DeleteWrites ==
  ASSUME TypeOK, NEW h \in Handlers, DeleteRow(h)
  PROVE  /\ Edits(BookingsOf(handler[h].session), {"create_session_id"})
         /\ LiveSession(handler[h].session) =>
              \A c \in BookingsOf(handler[h].session) : bookSession'[c].create_session_id = NULL
         /\ \A c \in Bookings : LiveBooking(c) =>
              \/ bookSession'[c].create_session_id = bookSession[c].create_session_id
              \/ bookSession'[c].create_session_id = NULL
<1> DEFINE rows == BookingsOf(handler[h].session)
           Row(c) == [bookSession[c] EXCEPT !.create_session_id = NULL]
<1>1. \A c \in rows : /\ Row(c) \in BookingRow /\ Row(c).create_session_id = NULL
                      /\ Keeps(Row(c), bookSession[c], {"create_session_id"})
  BY LiveRow, RowEdits, StoreAssumption DEF BookingsOf, TypeOK
<1>2. CASE LiveSession(handler[h].session)
  <2>1. \A c \in Bookings : bookSession'[c] = IF c \in rows THEN Row(c) ELSE bookSession[c]
    BY <1>2 DEF DeleteRow
  <2>2. bookSession' \in [Bookings -> BookingRow \cup {NULL}]
    BY <1>1, <1>2, <2>1 DEF DeleteRow, TypeOK
  <2>3. \A c \in Bookings : LiveBooking(c)' <=> LiveBooking(c)
    BY <1>1, <2>1, RowAssumption DEF LiveBooking, BookingsOf
  <2>4. \A c \in Bookings : LiveBooking(c) =>
          Keeps(bookSession'[c], bookSession[c], {"create_session_id"})
    BY <1>1, <2>1 DEF Keeps
  <2>5. \A c \in rows : bookSession'[c] = Row(c)
    BY <2>1 DEF BookingsOf
  <2> QED
    BY <1>1, <2>1, <2>2, <2>3, <2>4, <2>5 DEF Edits
<1>3. CASE ~LiveSession(handler[h].session)
  <2>1. bookSession' = bookSession
    BY <1>3 DEF DeleteRow
  <2> QED
    BY <1>3, <2>1 DEF Edits, Keeps, TypeOK, LiveBooking
<1> QED
  BY <1>2, <1>3

----------------------------------------------------------------------------
(* The same for create_sessions.                                           *)

(* A session edited in some columns is a session.                          *)
LEMMA SessionRowEdits ==
  ASSUME NEW r \in SessionRow, NEW n \in SlotValues
  PROVE  /\ [r EXCEPT !.slots_available = n] \in SessionRow
         /\ [r EXCEPT !.is_started = TRUE] \in SessionRow
         /\ [r EXCEPT !.is_completed = TRUE] \in SessionRow
BY DEF SessionRow

(* A statement that replaces the row of one live session leaves the others *)
(* alone and deletes none.                                                 *)
LEMMA OneSession ==
  ASSUME TypeOK, NEW s \in Sessions, LiveSession(s), NEW row \in SessionRow,
         createSession' = [createSession EXCEPT ![s] = row]
  PROVE  /\ createSession' \in [Sessions -> SessionRow \cup {NULL, Deleted}]
         /\ createSession'[s] = row
         /\ \A c \in Sessions : c # s => createSession'[c] = createSession[c]
         /\ \A c \in Sessions : LiveSession(c)' <=> LiveSession(c)
BY RowAssumption DEF TypeOK, LiveSession

(* The four statements that edit a session make and remove none; only the  *)
(* cron job completes one and none takes is_started back.                  *)
SessionEdit ==
  \/ \E h \in Handlers : BookCount(h) \/ EditUpdate(h) \/ StartSession(h)
  \/ CronSession

(* The counter written back is again a counter, NaN included.              *)
LEMMA CountTypes ==
  ASSUME NEW v \in SlotValues
  PROVE  OneLess(Number(v)) \in SlotValues
BY StoreAssumption DEF OneLess, Number, SlotValues

(* An update leaves a row a row: its counter is the one that was there or   *)
(* one the body gives, and its owner and flags stay what they are.          *)
LEMMA BodyRow ==
  ASSUME NEW r \in SessionRow, NEW row \in Bodies(r)
  PROVE  /\ row \in SessionRow
         /\ row.user_id = r.user_id
         /\ row.is_started = r.is_started /\ row.is_completed = r.is_completed
         /\ row.slots_available = r.slots_available \/ row.slots_available \in SlotInputs
<1>1. /\ row.user_id = r.user_id
      /\ row.is_started = r.is_started /\ row.is_completed = r.is_completed
  BY BodyAssumption DEF Bodies, Written
<1>2. /\ row.slots_available = r.slots_available \/ row.slots_available \in SlotInputs
      /\ row.session_charge = r.session_charge \/ row.session_charge \in ChargeInputs
      /\ row.available_slots = r.available_slots \/ row.available_slots \in SUBSET Dates
  BY DEF Bodies, Written
<1>3. /\ row.slots_available \in SlotValues /\ row.session_charge \in ChargeValues
      /\ row.available_slots \in SUBSET Dates
  BY <1>2, StoreAssumption DEF SessionRow, SlotValues, ChargeValues
<1>4. row = [user_id |-> row.user_id, slots_available |-> row.slots_available,
             session_charge |-> row.session_charge, available_slots |-> row.available_slots,
             is_started |-> row.is_started, is_completed |-> row.is_completed]
  BY DEF Bodies
<1> QED
  BY <1>1, <1>2, <1>3, <1>4 DEF SessionRow

(* And of the tables they leave everything else alone.                     *)
LEMMA SessionEdits ==
  ASSUME TypeOK, SessionEdit
  PROVE  /\ createSession' \in [Sessions -> SessionRow \cup {NULL, Deleted}]
         /\ \A c \in Sessions : LiveSession(c)' <=> LiveSession(c)
         /\ \A c \in Sessions : ~LiveSession(c) => createSession'[c] = createSession[c]
         /\ \A c \in Sessions : LiveSession(c) =>
              /\ createSession[c].is_started => createSession'[c].is_started
              /\ createSession'[c].is_completed =>
                   createSession[c].is_completed \/ (CronSession /\ cron.mark = c)
         /\ UNCHANGED <<clock, faults, bookSession, reschedule, intent, event>>
<1> DEFINE Kept ==
      /\ createSession' \in [Sessions -> SessionRow \cup {NULL, Deleted}]
      /\ \A c \in Sessions : LiveSession(c)' <=> LiveSession(c)
      /\ \A c \in Sessions : ~LiveSession(c) => createSession'[c] = createSession[c]
      /\ \A c \in Sessions : LiveSession(c) =>
           /\ createSession[c].is_started => createSession'[c].is_started
           /\ createSession'[c].is_completed =>
                createSession[c].is_completed \/ (CronSession /\ cron.mark = c)
<1>0. ASSUME createSession' = createSession PROVE Kept
  BY <1>0 DEF TypeOK, LiveSession
<1>1. ASSUME NEW h \in Handlers, BookCount(h) PROVE Kept
  <2> DEFINE s == handler[h].session
             row == [createSession[s] EXCEPT !.slots_available =
                       OneLess(Number(handler[h].slots))]
  <2>1. s \in Sessions /\ handler[h].slots \in SlotValues
    BY <1>1, HandlerTypes DEF BookCount, At, SessionSteps
  <2>2. CASE LiveSession(s)
    <3>1. row \in SessionRow /\ createSession' = [createSession EXCEPT ![s] = row]
      BY <1>1, <2>1, <2>2, LiveSessionRow, SessionRowEdits, CountTypes,
         StoreAssumption DEF BookCount, ChargeValues
    <3>2. row.is_started = createSession[s].is_started
          /\ row.is_completed = createSession[s].is_completed
      BY <2>1, <2>2, LiveSessionRow DEF SessionRow
    <3> QED
      BY <2>1, <2>2, <3>1, <3>2, OneSession
  <2>3. CASE ~LiveSession(s)
    BY <1>0, <1>1, <2>3 DEF BookCount
  <2> QED
    BY <2>2, <2>3
<1>2. ASSUME NEW h \in Handlers, EditUpdate(h) PROVE Kept
  <2> DEFINE s == handler[h].session
  <2>1. s \in Sessions
    BY <1>2, HandlerTypes DEF EditUpdate, At, SessionSteps
  <2>2. CASE LiveSession(s)
    <3>1. PICK row \in Bodies(createSession[s]) :
            createSession' = [createSession EXCEPT ![s] = row]
      BY <1>2, <2>2 DEF EditUpdate
    <3>2. /\ row \in SessionRow /\ row.is_started = createSession[s].is_started
          /\ row.is_completed = createSession[s].is_completed
      BY <2>1, <2>2, LiveSessionRow, BodyRow
    <3> QED
      BY <2>1, <2>2, <3>1, <3>2, OneSession
  <2>3. CASE ~LiveSession(s)
    BY <1>0, <1>2, <2>3 DEF EditUpdate
  <2> QED
    BY <2>2, <2>3
<1>3. ASSUME NEW h \in Handlers, StartSession(h) PROVE Kept
  <2> DEFINE s == handler[h].session
             row == [createSession[s] EXCEPT !.is_started = TRUE]
  <2>1. s \in Sessions
    BY <1>3, HandlerTypes DEF StartSession, At, SessionSteps
  <2>2. CASE LiveSession(s)
    <3>1. row \in SessionRow /\ createSession' = [createSession EXCEPT ![s] = row]
      BY <1>3, <2>1, <2>2, LiveSessionRow DEF StartSession, SessionRow
    <3>2. row.is_started /\ row.is_completed = createSession[s].is_completed
      BY <2>1, <2>2, LiveSessionRow DEF SessionRow
    <3> QED
      BY <2>1, <2>2, <3>1, <3>2, OneSession
  <2>3. CASE ~LiveSession(s)
    BY <1>0, <1>3, <2>3 DEF StartSession
  <2> QED
    BY <2>2, <2>3
<1>4. ASSUME CronSession PROVE Kept
  <2> DEFINE s == cron.mark
             row == [createSession[s] EXCEPT !.is_completed = TRUE]
  <2>1. s \in Sessions
    BY <1>4 DEF CronSession, TypeOK
  <2>2. CASE LiveSession(s)
    <3>1. row \in SessionRow /\ createSession' = [createSession EXCEPT ![s] = row]
      BY <1>4, <2>1, <2>2, LiveSessionRow DEF CronSession, SessionRow
    <3>2. row.is_started = createSession[s].is_started
      BY <2>1, <2>2, LiveSessionRow DEF SessionRow
    <3> QED
      BY <1>4, <2>1, <2>2, <3>1, <3>2, OneSession
  <2>3. CASE ~LiveSession(s)
    BY <1>0, <1>4, <2>3 DEF CronSession
  <2> QED
    BY <2>2, <2>3
<1>5. UNCHANGED <<clock, faults, bookSession, reschedule, intent, event>>
  BY DEF SessionEdit, BookCount, EditUpdate, StartSession, CronSession, process, stripe
<1> QED
  BY <1>1, <1>2, <1>3, <1>4, <1>5 DEF SessionEdit

----------------------------------------------------------------------------
(* Every step keeps the types.                                             *)

(* Every step keeps the types of tables, requests and batch.               *)
LEMMA TypeStep ==
  ASSUME TypeOK, References, [Next]_vars
  PROVE  TypeOK'
<1>1. ASSUME NEW h \in Handlers, BookCount(h) PROVE TypeOK'
  BY <1>1, SessionEdits, HandlerTypes DEF SessionEdit, BookCount, TypeOK, Finish
<1>2. ASSUME NEW h \in Handlers, JoinUpdate(h) PROVE TypeOK'
  BY <1>2, JoinWrites, HandlerTypes DEF JoinUpdate, Edits, TypeOK, Finish,
     process, stripe
<1>3. ASSUME NEW h \in Handlers, CancelUpdate(h) PROVE TypeOK'
  BY <1>3, CancelWrites, HandlerTypes DEF CancelUpdate, Edits, TypeOK, Finish,
     process, stripe
<1>4. ASSUME NEW h \in Handlers, RequestFlag(h) PROVE TypeOK'
  BY <1>4, FlagWrites, HandlerTypes DEF RequestFlag, Edits, TypeOK, Finish,
     process, stripe
<1>5. ASSUME NEW h \in Handlers, EditUpdate(h) PROVE TypeOK'
  BY <1>5, SessionEdits, HandlerTypes DEF SessionEdit, EditUpdate, TypeOK,
     Finish
<1>6. ASSUME NEW h \in Handlers, StartBookings(h) PROVE TypeOK'
  <2>1. At(h, "start.bookings") /\ handler[h].session \in Sessions
    BY <1>6, HandlerTypes DEF StartBookings, At, SessionSteps
  <2>2. handler' \in [Handlers -> HandlerState]
    BY <1>6, <2>1 DEF StartBookings, TypeOK, HandlerState, Idle, At, Goto
  <2> QED
    BY <1>6, <2>2, StartWrites DEF StartBookings, Edits, TypeOK, process, stripe
<1>7. ASSUME NEW h \in Handlers, StartSession(h) PROVE TypeOK'
  BY <1>7, SessionEdits, HandlerTypes DEF SessionEdit, StartSession, TypeOK,
     Finish
<1>8. ASSUME NEW h \in Handlers, DeleteRow(h) PROVE TypeOK'
  <2>1. createSession' \in [Sessions -> SessionRow \cup {NULL, Deleted}]
    BY <1>8 DEF DeleteRow, TypeOK
  <2>2. handler' \in [Handlers -> HandlerState]
    BY <1>8, HandlerTypes DEF DeleteRow, TypeOK, Finish
  <2> QED
    BY <1>8, <2>1, <2>2, DeleteWrites DEF DeleteRow, Edits, TypeOK, process, stripe
<1>9. ASSUME NEW b \in Bookings, NEW z \in Sessions \cup {NULL}, CronBooking(b, z)
      PROVE TypeOK'
  BY <1>9, CronWrites, HandlerTypes DEF CronBooking, Edits, TypeOK, Finish,
     process, stripe
<1>10. ASSUME CronSession PROVE TypeOK'
  <2>1. cron' \in [todo: SUBSET (Bookings \X (Sessions \cup {NULL})), mark: Sessions \cup {NULL}]
    BY <1>10 DEF CronSession, TypeOK, CronIdle
  <2> QED
    BY <1>10, <2>1, SessionEdits DEF SessionEdit, CronSession, TypeOK, process, stripe
<1>11. ASSUME NEW e \in StripeEvent, WebhookSucceeded(e) PROVE TypeOK'
  BY <1>11, WebhookWrites, HandlerTypes DEF WebhookSucceeded, Edits, TypeOK,
     Finish, process, stripe, Answered
<1> USE DEF TypeOK, At, Idle, HandlerState, Arrive, Goto, Finish, allButHandler,
               process, stripe, LiveSession, LiveBooking, BookingsOf,
               SessionRow, BookingRow, IntentRow, SlotValues, ChargeValues,
               Decision, StripeEvent, CronIdle, Owns, BookingSteps, References
<1>12. ASSUME NEW h \in Handlers, NEW u \in Students, NEW s \in Sessions, NEW d \in Dates,
            Book(h, u, s, d) PROVE TypeOK'
  BY <1>12, StoreAssumption DEF Book
<1>13. ASSUME NEW h \in Handlers, BookFind(h) PROVE TypeOK'
  BY <1>13, StoreAssumption DEF BookFind
<1>14. ASSUME NEW h \in Handlers, NEW b \in Bookings, BookCreate(h, b) PROVE TypeOK'
  BY <1>14, StoreAssumption DEF BookCreate, NewBooking
<1>15. ASSUME NEW h \in Handlers, BookOrphan(h) PROVE TypeOK'
  BY <1>15, StoreAssumption DEF BookOrphan
<1>16. ASSUME NEW h \in Handlers, NEW b \in Bookings, Join(h, b) PROVE TypeOK'
  BY <1>16, StoreAssumption DEF Join
<1>17. ASSUME NEW h \in Handlers, NEW b \in Bookings, Cancel(h, b) PROVE TypeOK'
  BY <1>17, StoreAssumption DEF Cancel
<1>18. ASSUME NEW h \in Handlers, NEW b \in Bookings, RequestReschedule(h, b)
      PROVE TypeOK'
  BY <1>18, StoreAssumption DEF RequestReschedule
<1>19. ASSUME NEW h \in Handlers, RequestFind(h) PROVE TypeOK'
  BY <1>19, StoreAssumption DEF RequestFind
<1>20. ASSUME NEW h \in Handlers, RequestCreate(h) PROVE TypeOK'
  BY <1>20, StoreAssumption DEF RequestCreate
<1>21. ASSUME NEW t \in Teachers, NEW s \in Sessions, Create(t, s) PROVE TypeOK'
  BY <1>21, StoreAssumption DEF Create, OfferedDates
<1>22. ASSUME NEW h \in Handlers, NEW t \in Teachers, NEW s \in Sessions, Edit(h, t, s)
      PROVE TypeOK'
  BY <1>22, StoreAssumption DEF Edit
<1>23. ASSUME NEW h \in Handlers, NEW t \in Teachers, NEW s \in Sessions, Start(h, t, s)
      PROVE TypeOK'
  BY <1>23, StoreAssumption DEF Start
<1>24. ASSUME NEW h \in Handlers, NEW t \in Teachers, NEW s \in Sessions,
            Remove(h, t, s) PROVE TypeOK'
  BY <1>24, StoreAssumption DEF Remove
<1>25. ASSUME NEW h \in Handlers, NEW s \in Sessions, AdminDelete(h, s) PROVE TypeOK'
  BY <1>25, StoreAssumption DEF AdminDelete
<1>26. ASSUME NEW h \in Handlers, NEW t \in Teachers, NEW b \in Bookings,
            NEW a \in {"accept.update", "reject.update"}, HandleRequest(h, t, b, a)
      PROVE TypeOK'
  BY <1>26, StoreAssumption DEF HandleRequest, Undecided
<1>27. ASSUME NEW h \in Handlers, AcceptUpdate(h) PROVE TypeOK'
  BY <1>27, StoreAssumption DEF AcceptUpdate
<1>28. ASSUME NEW h \in Handlers, RejectUpdate(h) PROVE TypeOK'
  BY <1>28, StoreAssumption DEF RejectUpdate
<1>29. ASSUME CronFind PROVE TypeOK'
  <2>1. \A b \in Bookings : Due(b) => bookSession[b].create_session_id \in Sessions \cup {NULL}
    BY DEF Due
  <2> DEFINE due == {c \in Bookings : Due(c)}
             T == {<<b, bookSession[b].create_session_id>> : b \in due}
  <2>2. T \in SUBSET (Bookings \X (Sessions \cup {NULL}))
    BY <2>1
  <2> HIDE DEF T
  <2>3. cron' = [todo |-> T, mark |-> NULL]
    BY <1>29 DEF CronFind, T
  <2> QED
    BY <1>29, <2>2, <2>3 DEF CronFind
<1>30. ASSUME CronFails PROVE TypeOK'
  BY <1>30, StoreAssumption DEF CronFails
<1>31. ASSUME NEW h \in Handlers, NEW u \in Students, NEW b \in Bookings, Pay(h, u, b)
      PROVE TypeOK'
  BY <1>31, StoreAssumption DEF Pay, Payable
<1>32. ASSUME NEW h \in Handlers, NEW i \in Intents, PayIntent(h, i) PROVE TypeOK'
  BY <1>32, StoreAssumption DEF PayIntent
<1>33. ASSUME NEW i \in Intents, NEW o \in {"succeeded", "payment_failed", "canceled"},
            Settled(i, o) PROVE TypeOK'
  BY <1>33, StoreAssumption DEF Settled
<1>34. ASSUME NEW e \in StripeEvent, WebhookNotSucceeded(e) PROVE TypeOK'
  BY <1>34, StoreAssumption DEF WebhookNotSucceeded
<1>35. ASSUME NEW e \in StripeEvent, WebhookFails(e) PROVE TypeOK'
  BY <1>35, StoreAssumption DEF WebhookFails
<1>36. ASSUME Tick PROVE TypeOK'
  BY <1>36, StoreAssumption DEF Tick
<1>37. ASSUME Crash PROVE TypeOK'
  BY <1>37, StoreAssumption DEF Crash
<1>38. ASSUME NEW h \in Handlers, StatementFails(h) PROVE TypeOK'
  BY <1>38, StoreAssumption DEF StatementFails
<1>39. CASE UNCHANGED vars
  BY <1>39 DEF vars
<1> QED
  BY <1>1, <1>2, <1>3, <1>4, <1>5, <1>6, <1>7, <1>8, <1>9, <1>10, <1>11, <1>12,
     <1>13, <1>14, <1>15, <1>16, <1>17, <1>18, <1>19, <1>20, <1>21, <1>22,
     <1>23, <1>24, <1>25, <1>26, <1>27, <1>28, <1>29, <1>30, <1>31, <1>32,
     <1>33, <1>34, <1>35, <1>36, <1>37, <1>38, <1>39 DEF Next, StudentsNext,
     TeachersNext, SchedulerNext, CronStep, StripeNext

----------------------------------------------------------------------------
(* Every step keeps the references: bookings are not removed, a deleted    *)
(* session is cleared from its bookings, and ids are not used again.       *)

(* References survives a step that removes no row and adds no reference to *)
(* an absent one.                                                          *)
LEMMA ReferencesKept ==
  ASSUME TypeOK, References, UNCHANGED <<intent, reschedule>>,
         event' \subseteq event, cron'.todo \subseteq cron.todo,
         \A s \in Sessions : LiveSession(s)' <=> LiveSession(s),
         \A b \in Bookings : LiveBooking(b)' <=> LiveBooking(b),
         \A b \in Bookings : LiveBooking(b) =>
           bookSession'[b].create_session_id = bookSession[b].create_session_id,
         \A h \in Handlers : handler'[h] = handler[h] \/ handler'[h].pc \notin BookingSteps
  PROVE  References'
<1>1. (\A b \in Bookings : LiveBooking(b) /\ bookSession[b].create_session_id # NULL =>
         LiveSession(bookSession[b].create_session_id))'
  BY LiveRow DEF References, BookingRow
<1>2. (\A h \in Handlers : handler[h].pc \in BookingSteps => LiveBooking(handler[h].booking))'
  <2> SUFFICES ASSUME NEW h \in Handlers, handler'[h].pc \in BookingSteps
               PROVE  LiveBooking(handler[h].booking)'
    OBVIOUS
  <2>1. handler'[h] = handler[h] /\ handler[h].booking \in Bookings
    BY HandlerTypes
  <2>2. LiveBooking(handler[h].booking)
    BY <2>1 DEF References
  <2> QED
    BY <2>1, <2>2
<1>3. (\A p \in cron.todo : LiveBooking(p[1]))'
  BY DEF References, TypeOK
<1>4. (\A i \in Intents : intent[i] # NULL => LiveBooking(intent[i].booking))'
  BY DEF References, TypeOK, IntentRow
<1>5. (\A e \in event : intent[e.intent] # NULL)'
  BY DEF References
<1>6. (\A b \in Bookings : reschedule[b] # "none" => LiveBooking(b))'
  BY DEF References
<1> QED
  BY <1>1, <1>2, <1>3, <1>4, <1>5, <1>6 DEF References


(* Every step keeps References.                                            *)
LEMMA ReferencesStep ==
  ASSUME TypeOK, References, [Next]_vars
  PROVE  References'
<1>1. ASSUME NEW h \in Handlers, BookCount(h) PROVE References'
  BY <1>1, SessionEdits, ReferencesKept DEF SessionEdit, BookCount, Edits,
     Keeps, TypeOK, Goto, Finish, At, Idle, BookingSteps, LiveSession,
     LiveBooking, process, stripe
<1>2. ASSUME NEW h \in Handlers, JoinUpdate(h) PROVE References'
  BY <1>2, JoinWrites, ReferencesKept DEF JoinUpdate, Edits, Keeps, TypeOK,
     Goto, Finish, At, Idle, BookingSteps, LiveSession, LiveBooking, process,
     stripe
<1>3. ASSUME NEW h \in Handlers, CancelUpdate(h) PROVE References'
  BY <1>3, CancelWrites, ReferencesKept DEF CancelUpdate, Edits, Keeps, TypeOK,
     Goto, Finish, At, Idle, BookingSteps, LiveSession, LiveBooking, process,
     stripe
<1>4. ASSUME NEW h \in Handlers, RequestFlag(h) PROVE References'
  BY <1>4, FlagWrites, ReferencesKept DEF RequestFlag, Edits, Keeps, TypeOK,
     Goto, Finish, At, Idle, BookingSteps, LiveSession, LiveBooking, process,
     stripe
<1>5. ASSUME NEW h \in Handlers, EditUpdate(h) PROVE References'
  BY <1>5, SessionEdits, ReferencesKept DEF SessionEdit, EditUpdate, Edits,
     Keeps, TypeOK, Goto, Finish, At, Idle, BookingSteps, LiveSession,
     LiveBooking, process, stripe
<1>6. ASSUME NEW h \in Handlers, StartBookings(h) PROVE References'
  <2>1. handler' = [handler EXCEPT ![h] = [handler[h] EXCEPT !.pc = "start.session"]]
          /\ handler'[h].pc = "start.session"
    BY <1>6 DEF StartBookings, Goto, At, TypeOK, HandlerState, Idle
  <2>2. UNCHANGED <<createSession, intent, event, reschedule, cron>>
    BY <1>6 DEF StartBookings, stripe
  <2>3. \A s \in Sessions : LiveSession(s)' <=> LiveSession(s)
    BY <2>2 DEF LiveSession
  <2> QED
    BY <2>1, <2>2, <2>3, StartWrites, <1>6, ReferencesKept DEF Edits, Keeps, BookingSteps, TypeOK
<1>7. ASSUME NEW h \in Handlers, StartSession(h) PROVE References'
  BY <1>7, SessionEdits, ReferencesKept DEF SessionEdit, StartSession, Edits,
     Keeps, TypeOK, Goto, Finish, At, Idle, BookingSteps, LiveSession,
     LiveBooking, process, stripe
<1>8. ASSUME NEW h \in Handlers, DeleteRow(h) PROVE References'
  <2>1. \A b \in Bookings : LiveBooking(b)' <=> LiveBooking(b)
    BY <1>8, DeleteWrites DEF Edits
  <2>2. \A s \in Sessions : LiveSession(s)' <=> LiveSession(s) /\ s # handler[h].session
    BY <1>8, HandlerTypes DEF DeleteRow, LiveSession, TypeOK, At, SessionSteps
  <2>3. \A b \in Bookings : LiveBooking(b) /\ bookSession'[b].create_session_id # NULL =>
          /\ bookSession'[b].create_session_id = bookSession[b].create_session_id
          /\ bookSession'[b].create_session_id # handler[h].session
    BY <1>8, DeleteWrites DEF References, BookingsOf
  <2>4. handler' = [handler EXCEPT ![h] = Idle]
    BY <1>8 DEF DeleteRow, Finish
  <2>5. UNCHANGED <<intent, event, reschedule, cron>>
    BY <1>8 DEF DeleteRow, stripe
  <2> QED
    <3>1. (\A b \in Bookings : LiveBooking(b) /\ bookSession[b].create_session_id # NULL =>
             LiveSession(bookSession[b].create_session_id))'
      BY <2>1, <2>2, <2>3, LiveRow DEF References, BookingRow
    <3>2. (\A k \in Handlers : handler[k].pc \in BookingSteps => LiveBooking(handler[k].booking))'
      BY <2>1, <2>4, HandlerTypes DEF References, TypeOK, Idle, BookingSteps
    <3>3. (\A p \in cron.todo : LiveBooking(p[1]))'
      BY <2>1, <2>5 DEF References, TypeOK
    <3>4. (\A i \in Intents : intent[i] # NULL => LiveBooking(intent[i].booking))'
      BY <2>1, <2>5 DEF References, TypeOK, IntentRow
    <3>5. (\A e \in event : intent[e.intent] # NULL)'
      BY <2>5 DEF References
    <3>6. (\A b \in Bookings : reschedule[b] # "none" => LiveBooking(b))'
      BY <2>1, <2>5 DEF References
    <3> QED
      BY <3>1, <3>2, <3>3, <3>4, <3>5, <3>6 DEF References
<1>9. ASSUME NEW b \in Bookings, NEW z \in Sessions \cup {NULL}, CronBooking(b, z)
      PROVE References'
  BY <1>9, CronWrites, ReferencesKept DEF CronBooking, Edits, Keeps, TypeOK,
     Goto, Finish, At, Idle, BookingSteps, LiveSession, LiveBooking, process,
     stripe
<1>10. ASSUME CronSession PROVE References'
  BY <1>10, SessionEdits, ReferencesKept DEF SessionEdit, CronSession, Edits,
     Keeps, TypeOK, Goto, Finish, At, Idle, BookingSteps, LiveSession,
     LiveBooking, process, stripe, CronIdle
<1>11. ASSUME NEW e \in StripeEvent, WebhookSucceeded(e) PROVE References'
  BY <1>11, WebhookWrites, ReferencesKept DEF WebhookSucceeded, Edits, Keeps,
     TypeOK, Goto, Finish, At, Idle, BookingSteps, LiveSession, LiveBooking,
     process, stripe, Answered
<1> USE DEF TypeOK, References, At, Idle, HandlerState, Arrive, Goto, Finish,
               allButHandler, process, stripe, LiveSession, LiveBooking,
               BookingsOf, SessionRow, BookingRow, IntentRow, SlotValues,
               ChargeValues, Decision, StripeEvent, CronIdle, Owns, BookingSteps
<1>12. ASSUME NEW h \in Handlers, NEW u \in Students, NEW s \in Sessions, NEW d \in Dates,
            Book(h, u, s, d) PROVE References'
  BY <1>12, StoreAssumption, RowAssumption DEF Book
<1>13. ASSUME NEW h \in Handlers, BookFind(h) PROVE References'
  BY <1>13, StoreAssumption, RowAssumption DEF BookFind
<1>14. ASSUME NEW h \in Handlers, NEW b \in Bookings, BookCreate(h, b) PROVE References'
  BY <1>14, StoreAssumption, RowAssumption DEF BookCreate, NewBooking
<1>15. ASSUME NEW h \in Handlers, BookOrphan(h) PROVE References'
  BY <1>15, StoreAssumption, RowAssumption DEF BookOrphan
<1>16. ASSUME NEW h \in Handlers, NEW b \in Bookings, Join(h, b) PROVE References'
  BY <1>16, StoreAssumption, RowAssumption DEF Join
<1>17. ASSUME NEW h \in Handlers, NEW b \in Bookings, Cancel(h, b) PROVE References'
  BY <1>17, StoreAssumption, RowAssumption DEF Cancel
<1>18. ASSUME NEW h \in Handlers, NEW b \in Bookings, RequestReschedule(h, b)
      PROVE References'
  BY <1>18, StoreAssumption, RowAssumption DEF RequestReschedule
<1>19. ASSUME NEW h \in Handlers, RequestFind(h) PROVE References'
  BY <1>19, StoreAssumption, RowAssumption DEF RequestFind
<1>20. ASSUME NEW h \in Handlers, RequestCreate(h) PROVE References'
  BY <1>20, StoreAssumption, RowAssumption DEF RequestCreate
<1>21. ASSUME NEW t \in Teachers, NEW s \in Sessions, Create(t, s) PROVE References'
  BY <1>21, StoreAssumption, RowAssumption DEF Create, OfferedDates
<1>22. ASSUME NEW h \in Handlers, NEW t \in Teachers, NEW s \in Sessions, Edit(h, t, s)
      PROVE References'
  BY <1>22, StoreAssumption, RowAssumption DEF Edit
<1>23. ASSUME NEW h \in Handlers, NEW t \in Teachers, NEW s \in Sessions, Start(h, t, s)
      PROVE References'
  BY <1>23, StoreAssumption, RowAssumption DEF Start
<1>24. ASSUME NEW h \in Handlers, NEW t \in Teachers, NEW s \in Sessions,
            Remove(h, t, s) PROVE References'
  BY <1>24, StoreAssumption, RowAssumption DEF Remove
<1>25. ASSUME NEW h \in Handlers, NEW s \in Sessions, AdminDelete(h, s)
      PROVE References'
  BY <1>25, StoreAssumption, RowAssumption DEF AdminDelete
<1>26. ASSUME NEW h \in Handlers, NEW t \in Teachers, NEW b \in Bookings,
            NEW a \in {"accept.update", "reject.update"}, HandleRequest(h, t, b, a)
      PROVE References'
  BY <1>26, StoreAssumption, RowAssumption DEF HandleRequest, Undecided
<1>27. ASSUME NEW h \in Handlers, AcceptUpdate(h) PROVE References'
  BY <1>27, StoreAssumption, RowAssumption DEF AcceptUpdate
<1>28. ASSUME NEW h \in Handlers, RejectUpdate(h) PROVE References'
  BY <1>28, StoreAssumption, RowAssumption DEF RejectUpdate
<1>29. ASSUME CronFind PROVE References'
  BY <1>29, StoreAssumption, RowAssumption DEF CronFind, Due
<1>30. ASSUME CronFails PROVE References'
  BY <1>30, StoreAssumption, RowAssumption DEF CronFails
<1>31. ASSUME NEW h \in Handlers, NEW u \in Students, NEW b \in Bookings, Pay(h, u, b)
      PROVE References'
  BY <1>31, StoreAssumption, RowAssumption DEF Pay, Payable
<1>32. ASSUME NEW h \in Handlers, NEW i \in Intents, PayIntent(h, i) PROVE References'
  BY <1>32, StoreAssumption, RowAssumption DEF PayIntent
<1>33. ASSUME NEW i \in Intents, NEW o \in {"succeeded", "payment_failed", "canceled"},
            Settled(i, o) PROVE References'
  BY <1>33, StoreAssumption, RowAssumption DEF Settled
<1>34. ASSUME NEW e \in StripeEvent, WebhookNotSucceeded(e) PROVE References'
  BY <1>34, StoreAssumption, RowAssumption DEF WebhookNotSucceeded
<1>35. ASSUME NEW e \in StripeEvent, WebhookFails(e) PROVE References'
  BY <1>35, StoreAssumption, RowAssumption DEF WebhookFails
<1>36. ASSUME Tick PROVE References'
  BY <1>36, StoreAssumption, RowAssumption DEF Tick
<1>37. ASSUME Crash PROVE References'
  BY <1>37, StoreAssumption, RowAssumption DEF Crash
<1>38. ASSUME NEW h \in Handlers, StatementFails(h) PROVE References'
  BY <1>38, StoreAssumption, RowAssumption DEF StatementFails
<1>39. CASE UNCHANGED vars
  BY <1>39 DEF vars
<1> QED
  BY <1>1, <1>2, <1>3, <1>4, <1>5, <1>6, <1>7, <1>8, <1>9, <1>10, <1>11, <1>12,
     <1>13, <1>14, <1>15, <1>16, <1>17, <1>18, <1>19, <1>20, <1>21, <1>22,
     <1>23, <1>24, <1>25, <1>26, <1>27, <1>28, <1>29, <1>30, <1>31, <1>32,
     <1>33, <1>34, <1>35, <1>36, <1>37, <1>38, <1>39 DEF Next, StudentsNext,
     TeachersNext, SchedulerNext, CronStep, StripeNext

----------------------------------------------------------------------------
(* Payment: what a join decided on and what a webhook event reports stays  *)
(* so, because no statement sets a payment or a charge back.               *)

PaymentInv == PaidBeforeJoined /\ PaidWasCharged /\ JoinReads /\ EventReads

(* Requests that go anywhere but to "join.update", and bookings whose      *)
(* payment and is_joined are left alone, are of no concern to it.          *)
LEMMA PaymentKept ==
  ASSUME TypeOK, References, PaymentInv, UNCHANGED intent, event' \subseteq event,
         \A b \in Bookings : LiveBooking(b)' <=> LiveBooking(b),
         \A b \in Bookings : LiveBooking(b) =>
           /\ bookSession'[b].payment_status = bookSession[b].payment_status
           /\ bookSession'[b].is_joined = bookSession[b].is_joined,
         \A h \in Handlers : handler'[h] = handler[h] \/ handler'[h].pc # "join.update"
  PROVE  PaymentInv'
<1>1. PaidBeforeJoined' /\ PaidWasCharged' /\ EventReads'
  BY DEF PaymentInv, PaidBeforeJoined, PaidWasCharged, EventReads
<1>2. JoinReads'
  BY HandlerTypes DEF PaymentInv, JoinReads, References, At, BookingSteps
<1> QED
  BY <1>1, <1>2 DEF PaymentInv

(* Every step keeps what is known of payments.                             *)
LEMMA PaymentStep ==
  ASSUME TypeOK, References, PaymentInv, [Next]_vars
  PROVE  PaymentInv'
<1>1. ASSUME NEW h \in Handlers, JoinUpdate(h) PROVE PaymentInv'
  <2> DEFINE b == handler[h].booking
  <2>1. b \in Bookings /\ LiveBooking(b) /\ bookSession[b].payment_status = "paid"
    BY <1>1, JoinWrites DEF PaymentInv, JoinReads, JoinUpdate
  <2>2. UNCHANGED <<intent, event>> /\ handler' = [handler EXCEPT ![h] = Idle]
    BY <1>1 DEF JoinUpdate, stripe, Finish
  <2>3. PaidBeforeJoined' /\ PaidWasCharged' /\ EventReads'
    BY <1>1, <2>1, <2>2, JoinWrites
    DEF PaymentInv, PaidBeforeJoined, PaidWasCharged, EventReads, Edits, Keeps
  <2>4. JoinReads'
    BY <1>1, <2>2, JoinWrites, HandlerTypes
    DEF PaymentInv, JoinReads, References, At, Idle, BookingSteps, TypeOK, Edits, Keeps
  <2> QED
    BY <2>3, <2>4 DEF PaymentInv
<1>2. ASSUME NEW h \in Handlers, CancelUpdate(h) PROVE PaymentInv'
  BY <1>2, CancelWrites, PaymentKept DEF CancelUpdate, Edits, Keeps, TypeOK,
     Finish, Idle, stripe
<1>3. ASSUME NEW h \in Handlers, RequestFlag(h) PROVE PaymentInv'
  BY <1>3, FlagWrites, PaymentKept DEF RequestFlag, Edits, Keeps, TypeOK,
     Finish, Idle, stripe
<1>4. ASSUME NEW h \in Handlers, EditUpdate(h) PROVE PaymentInv'
  BY <1>4, SessionEdits, PaymentKept DEF SessionEdit, EditUpdate, LiveBooking,
     Finish, Idle, TypeOK
<1>5. ASSUME NEW h \in Handlers, StartBookings(h) PROVE PaymentInv'
  <2>1. handler'[h].pc = "start.session" /\ \A k \in Handlers : k # h => handler'[k] = handler[k]
    BY <1>5 DEF StartBookings, Goto, At, TypeOK, HandlerState, Idle
  <2> QED
    BY <1>5, <2>1, StartWrites, PaymentKept DEF StartBookings, Edits, Keeps, stripe
<1>6. ASSUME NEW h \in Handlers, DeleteRow(h) PROVE PaymentInv'
  BY <1>6, DeleteWrites, PaymentKept DEF DeleteRow, Edits, Keeps, TypeOK,
     Finish, Idle, stripe
<1>7. ASSUME NEW b \in Bookings, NEW z \in Sessions \cup {NULL}, CronBooking(b, z)
      PROVE PaymentInv'
  BY <1>7, CronWrites, PaymentKept DEF CronBooking, Edits, Keeps, TypeOK,
     Finish, Idle, stripe
<1>8. ASSUME NEW e \in StripeEvent, WebhookSucceeded(e) PROVE PaymentInv'
  <2> DEFINE b == intent[e.intent].booking
  <2>1. intent[e.intent].status = "succeeded"
    BY <1>8 DEF PaymentInv, EventReads, WebhookSucceeded
  <2>2. UNCHANGED <<intent, handler>> /\ event' \subseteq event
    BY <1>8 DEF WebhookSucceeded, Answered
  <2>3. PaidBeforeJoined' /\ PaidWasCharged' /\ EventReads'
    BY <1>8, <2>1, <2>2, WebhookWrites
    DEF PaymentInv, PaidBeforeJoined, PaidWasCharged, EventReads, Edits, Keeps
  <2>4. JoinReads'
    BY <1>8, <2>2, WebhookWrites, HandlerTypes
    DEF PaymentInv, JoinReads, References, At, BookingSteps, Edits, Keeps
  <2> QED
    BY <2>3, <2>4 DEF PaymentInv
<1> USE DEF TypeOK, References, PaymentInv, PaidBeforeJoined, PaidWasCharged,
               JoinReads, EventReads, BookingSteps, LiveBooking, BookingRow,
               IntentRow, HandlerState, StripeEvent, At, Arrive, Goto, Finish,
               allButHandler, process, stripe, Idle
<1>9. ASSUME NEW h \in Handlers, NEW u \in Students, NEW s \in Sessions, NEW d \in Dates,
            Book(h, u, s, d) PROVE PaymentInv'
  BY <1>9, StoreAssumption, RowAssumption DEF Book
<1>10. ASSUME NEW h \in Handlers, BookFind(h) PROVE PaymentInv'
  BY <1>10, StoreAssumption, RowAssumption DEF BookFind
<1>11. ASSUME NEW h \in Handlers, NEW b \in Bookings, BookCreate(h, b) PROVE PaymentInv'
  BY <1>11, StoreAssumption, RowAssumption DEF BookCreate, NewBooking
<1>12. ASSUME NEW h \in Handlers, BookOrphan(h) PROVE PaymentInv'
  BY <1>12, StoreAssumption, RowAssumption DEF BookOrphan
<1>13. ASSUME NEW h \in Handlers, BookCount(h) PROVE PaymentInv'
  BY <1>13, StoreAssumption, RowAssumption DEF BookCount
<1>14. ASSUME NEW h \in Handlers, NEW b \in Bookings, Join(h, b) PROVE PaymentInv'
  BY <1>14, StoreAssumption, RowAssumption DEF Join, MayJoin
<1>15. ASSUME NEW h \in Handlers, NEW b \in Bookings, Cancel(h, b) PROVE PaymentInv'
  BY <1>15, StoreAssumption, RowAssumption DEF Cancel
<1>16. ASSUME NEW h \in Handlers, NEW b \in Bookings, RequestReschedule(h, b)
      PROVE PaymentInv'
  BY <1>16, StoreAssumption, RowAssumption DEF RequestReschedule
<1>17. ASSUME NEW h \in Handlers, RequestFind(h) PROVE PaymentInv'
  BY <1>17, StoreAssumption, RowAssumption DEF RequestFind
<1>18. ASSUME NEW h \in Handlers, RequestCreate(h) PROVE PaymentInv'
  BY <1>18, StoreAssumption, RowAssumption DEF RequestCreate
<1>19. ASSUME NEW t \in Teachers, NEW s \in Sessions, Create(t, s) PROVE PaymentInv'
  BY <1>19, StoreAssumption, RowAssumption DEF Create
<1>20. ASSUME NEW h \in Handlers, NEW t \in Teachers, NEW s \in Sessions, Edit(h, t, s)
      PROVE PaymentInv'
  BY <1>20, StoreAssumption, RowAssumption DEF Edit
<1>21. ASSUME NEW h \in Handlers, NEW t \in Teachers, NEW s \in Sessions, Start(h, t, s)
      PROVE PaymentInv'
  BY <1>21, StoreAssumption, RowAssumption DEF Start
<1>22. ASSUME NEW h \in Handlers, StartSession(h) PROVE PaymentInv'
  BY <1>22, StoreAssumption, RowAssumption DEF StartSession
<1>23. ASSUME NEW h \in Handlers, NEW t \in Teachers, NEW s \in Sessions,
            Remove(h, t, s) PROVE PaymentInv'
  BY <1>23, StoreAssumption, RowAssumption DEF Remove
<1>24. ASSUME NEW h \in Handlers, NEW s \in Sessions, AdminDelete(h, s)
      PROVE PaymentInv'
  BY <1>24, StoreAssumption, RowAssumption DEF AdminDelete
<1>25. ASSUME NEW h \in Handlers, NEW t \in Teachers, NEW b \in Bookings,
            NEW a \in {"accept.update", "reject.update"}, HandleRequest(h, t, b, a)
      PROVE PaymentInv'
  BY <1>25, StoreAssumption, RowAssumption DEF HandleRequest
<1>26. ASSUME NEW h \in Handlers, AcceptUpdate(h) PROVE PaymentInv'
  BY <1>26, StoreAssumption, RowAssumption DEF AcceptUpdate
<1>27. ASSUME NEW h \in Handlers, RejectUpdate(h) PROVE PaymentInv'
  BY <1>27, StoreAssumption, RowAssumption DEF RejectUpdate
<1>28. ASSUME CronFind PROVE PaymentInv'
  BY <1>28, StoreAssumption, RowAssumption DEF CronFind
<1>29. ASSUME CronSession PROVE PaymentInv'
  BY <1>29, StoreAssumption, RowAssumption DEF CronSession
<1>30. ASSUME CronFails PROVE PaymentInv'
  BY <1>30, StoreAssumption, RowAssumption DEF CronFails
<1>31. ASSUME NEW h \in Handlers, NEW u \in Students, NEW b \in Bookings, Pay(h, u, b)
      PROVE PaymentInv'
  BY <1>31, StoreAssumption, RowAssumption DEF Pay
<1>32. ASSUME NEW h \in Handlers, NEW i \in Intents, PayIntent(h, i) PROVE PaymentInv'
  BY <1>32, StoreAssumption, RowAssumption DEF PayIntent
<1>33. ASSUME NEW i \in Intents, NEW o \in {"succeeded", "payment_failed", "canceled"},
            Settled(i, o) PROVE PaymentInv'
  BY <1>33, StoreAssumption, RowAssumption DEF Settled
<1>34. ASSUME NEW e \in StripeEvent, WebhookNotSucceeded(e) PROVE PaymentInv'
  BY <1>34, StoreAssumption, RowAssumption DEF WebhookNotSucceeded
<1>35. ASSUME NEW e \in StripeEvent, WebhookFails(e) PROVE PaymentInv'
  BY <1>35, StoreAssumption, RowAssumption DEF WebhookFails
<1>36. ASSUME Tick PROVE PaymentInv'
  BY <1>36, StoreAssumption, RowAssumption DEF Tick
<1>37. ASSUME Crash PROVE PaymentInv'
  BY <1>37, StoreAssumption, RowAssumption DEF Crash
<1>38. ASSUME NEW h \in Handlers, StatementFails(h) PROVE PaymentInv'
  BY <1>38, StoreAssumption, RowAssumption DEF StatementFails
<1>39. CASE UNCHANGED vars
  BY <1>39 DEF vars
<1> QED
  BY <1>1, <1>2, <1>3, <1>4, <1>5, <1>6, <1>7, <1>8, <1>9, <1>10, <1>11, <1>12,
     <1>13, <1>14, <1>15, <1>16, <1>17, <1>18, <1>19, <1>20, <1>21, <1>22,
     <1>23, <1>24, <1>25, <1>26, <1>27, <1>28, <1>29, <1>30, <1>31, <1>32,
     <1>33, <1>34, <1>35, <1>36, <1>37, <1>38, <1>39 DEF Next, StudentsNext,
     TeachersNext, SchedulerNext, CronStep, StripeNext

----------------------------------------------------------------------------
(* The cron job: its batch is a list of bookings read once; they stay      *)
(* joined and due, and the session of each stays theirs or is deleted.     *)

CronInv == CompletedWasHeld /\ CompletedSessionHasCompletedBooking /\ CronReads

(* What is known of the cron job survives a step that takes back neither a *)
(* completion nor a deletion and moves no date.                            *)
LEMMA CronKept ==
  ASSUME TypeOK, References, CronInv,
         clock' \in Nat, clock' >= clock,
         cron' = cron \/ cron' = CronIdle,
         \A b \in Bookings : LiveBooking(b)' <=> LiveBooking(b),
         \A b \in Bookings : LiveBooking(b) =>
           /\ bookSession'[b].create_session_id = bookSession[b].create_session_id
           /\ bookSession'[b].session_date = bookSession[b].session_date
           /\ bookSession'[b].is_completed = bookSession[b].is_completed
           /\ bookSession[b].is_joined => bookSession'[b].is_joined,
         \A s \in Sessions :
           /\ createSession[s] = Deleted => createSession'[s] = Deleted
           /\ LiveSession(s)' /\ createSession'[s].is_completed =>
                LiveSession(s) /\ createSession[s].is_completed
  PROVE  CronInv'
<1>1. CompletedWasHeld'
  <2> SUFFICES ASSUME NEW b \in Bookings, LiveBooking(b)', bookSession'[b].is_completed
               PROVE  bookSession'[b].is_joined /\ bookSession'[b].session_date + OneHour <= clock'
    BY DEF CompletedWasHeld
  <2>1. LiveBooking(b) /\ bookSession[b].session_date \in Nat /\ clock \in Nat /\ OneHour \in Nat
    BY LiveRow, StoreAssumption DEF BookingRow, TypeOK
  <2> QED
    BY <2>1 DEF CronInv, CompletedWasHeld
<1>2. CompletedSessionHasCompletedBooking'
  BY DEF CronInv, CompletedSessionHasCompletedBooking, BookingsOf
<1>3. (\A p \in cron.todo :
         /\ bookSession[p[1]].is_joined
         /\ bookSession[p[1]].session_date + OneHour <= clock
         /\ p[2] # NULL => \/ bookSession[p[1]].create_session_id = p[2]
                           \/ createSession[p[2]] = Deleted)'
  <2> SUFFICES ASSUME NEW p \in cron'.todo
               PROVE  (/\ bookSession[p[1]].is_joined
                       /\ bookSession[p[1]].session_date + OneHour <= clock
                       /\ p[2] # NULL => \/ bookSession[p[1]].create_session_id = p[2]
                                         \/ createSession[p[2]] = Deleted)'
    OBVIOUS
  <2>1. p \in cron.todo /\ p[1] \in Bookings /\ p[2] \in Sessions \cup {NULL} /\ LiveBooking(p[1])
    BY DEF References, TypeOK, CronIdle
  <2>2. bookSession[p[1]].session_date \in Nat /\ clock \in Nat /\ OneHour \in Nat
    BY <2>1, LiveRow, StoreAssumption DEF BookingRow, TypeOK
  <2> QED
    BY <2>1, <2>2 DEF CronInv, CronReads
<1>4. (cron.mark # NULL => \/ createSession[cron.mark] = Deleted
                          \/ \E b \in BookingsOf(cron.mark) : bookSession[b].is_completed)'
  BY DEF CronInv, CronReads, CronIdle, TypeOK, BookingsOf
<1> QED
  BY <1>1, <1>2, <1>3, <1>4 DEF CronInv, CronReads

(* In particular a step that edits bookings but not these columns.         *)
LEMMA CronKeptByBookings ==
  ASSUME TypeOK, References, CronInv, UNCHANGED <<clock, createSession, cron>>,
         \A b \in Bookings : LiveBooking(b)' <=> LiveBooking(b),
         \A b \in Bookings : LiveBooking(b) =>
           /\ bookSession'[b].create_session_id = bookSession[b].create_session_id
           /\ bookSession'[b].session_date = bookSession[b].session_date
           /\ bookSession'[b].is_completed = bookSession[b].is_completed
           /\ bookSession[b].is_joined => bookSession'[b].is_joined
  PROVE  CronInv'
<1>1. clock' \in Nat /\ clock' >= clock
  BY DEF TypeOK
<1>2. \A s \in Sessions : LiveSession(s)' <=> LiveSession(s)
  BY DEF LiveSession
<1> QED
  BY <1>1, <1>2, CronKept

(* And one that edits sessions without completing or deleting any.         *)
LEMMA CronKeptBySessions ==
  ASSUME TypeOK, References, CronInv, UNCHANGED <<clock, bookSession>>,
         cron' = cron \/ cron' = CronIdle,
         \A s \in Sessions :
           /\ createSession[s] = Deleted => createSession'[s] = Deleted
           /\ LiveSession(s)' /\ createSession'[s].is_completed =>
                LiveSession(s) /\ createSession[s].is_completed
  PROVE  CronInv'
<1>1. clock' \in Nat /\ clock' >= clock
  BY DEF TypeOK
<1>2. \A b \in Bookings : LiveBooking(b)' <=> LiveBooking(b)
  BY DEF LiveBooking
<1> QED
  BY <1>1, <1>2, CronKept

(* Every step keeps what is known of the cron job.                         *)
LEMMA CronStepInv ==
  ASSUME TypeOK, References, CronInv, [Next]_vars
  PROVE  CronInv'
<1>1. ASSUME NEW h \in Handlers, NEW b \in Bookings, BookCreate(h, b) PROVE CronInv'
  <2>1. /\ ~LiveBooking(b) /\ UNCHANGED <<clock, createSession, cron>>
        /\ \A c \in Bookings : c # b => bookSession'[c] = bookSession[c]
        /\ ~bookSession'[b].is_completed
    BY <1>1 DEF BookCreate, NewBooking, process, TypeOK
  <2>2. CompletedWasHeld'
    BY <2>1 DEF CronInv, CompletedWasHeld, LiveBooking
  <2>3. CompletedSessionHasCompletedBooking'
    BY <2>1 DEF CronInv, CompletedSessionHasCompletedBooking, BookingsOf, LiveBooking, LiveSession
  <2>4. CronReads'
    BY <2>1 DEF CronInv, CronReads, BookingsOf, LiveBooking, References, TypeOK
  <2> QED
    BY <2>2, <2>3, <2>4 DEF CronInv
<1>2. ASSUME NEW h \in Handlers, BookCount(h) PROVE CronInv'
  <2>1. UNCHANGED <<clock, bookSession, cron>>
    BY <1>2 DEF BookCount, process
  <2>2. ~CronSession
    BY <2>1 DEF CronSession, CronIdle, TypeOK
  <2> QED
    BY <1>2, <2>1, <2>2, SessionEdits, CronKeptBySessions DEF SessionEdit, LiveSession
<1>3. ASSUME NEW h \in Handlers, JoinUpdate(h) PROVE CronInv'
  <2>1. UNCHANGED <<clock, createSession, cron>>
    BY <1>3 DEF JoinUpdate, process
  <2> QED
    BY <1>3, <2>1, JoinWrites, CronKeptByBookings DEF Edits, Keeps
<1>4. ASSUME NEW h \in Handlers, CancelUpdate(h) PROVE CronInv'
  <2>1. UNCHANGED <<clock, createSession, cron>>
    BY <1>4 DEF CancelUpdate, process
  <2> QED
    BY <1>4, <2>1, CancelWrites, CronKeptByBookings DEF Edits, Keeps
<1>5. ASSUME NEW h \in Handlers, RequestFlag(h) PROVE CronInv'
  <2>1. UNCHANGED <<clock, createSession, cron>>
    BY <1>5 DEF RequestFlag, process
  <2> QED
    BY <1>5, <2>1, FlagWrites, CronKeptByBookings DEF Edits, Keeps
<1>6. ASSUME NEW t \in Teachers, NEW s \in Sessions, Create(t, s) PROVE CronInv'
  <2>1. \A z \in Sessions : z # s => createSession'[z] = createSession[z]
    BY <1>6 DEF Create, TypeOK
  <2>2. createSession[s] = NULL /\ ~createSession'[s].is_completed
    BY <1>6 DEF Create, TypeOK
  <2>3. UNCHANGED <<clock, bookSession, cron>>
    BY <1>6 DEF Create, process
  <2>4. createSession[s] # Deleted
    BY <2>2, RowAssumption
  <2> QED
    BY <2>1, <2>2, <2>3, <2>4, CronKeptBySessions DEF LiveSession
<1>7. ASSUME NEW h \in Handlers, EditUpdate(h) PROVE CronInv'
  <2>1. UNCHANGED <<clock, bookSession, cron>>
    BY <1>7 DEF EditUpdate, process
  <2>2. ~CronSession
    BY <2>1 DEF CronSession, CronIdle, TypeOK
  <2> QED
    BY <1>7, <2>1, <2>2, SessionEdits, CronKeptBySessions DEF SessionEdit, LiveSession
<1>8. ASSUME NEW h \in Handlers, StartBookings(h) PROVE CronInv'
  BY <1>8, StartWrites, CronKeptByBookings DEF StartBookings, Edits, Keeps,
     process
<1>9. ASSUME NEW h \in Handlers, StartSession(h) PROVE CronInv'
  <2>1. UNCHANGED <<clock, bookSession, cron>>
    BY <1>9 DEF StartSession, process
  <2>2. ~CronSession
    BY <2>1 DEF CronSession, CronIdle, TypeOK
  <2> QED
    BY <1>9, <2>1, <2>2, SessionEdits, CronKeptBySessions DEF SessionEdit, LiveSession
<1>10. ASSUME NEW h \in Handlers, DeleteRow(h) PROVE CronInv'
  <2> DEFINE z == handler[h].session
  <2>1. z \in Sessions /\ UNCHANGED <<clock, cron>>
    BY <1>10, HandlerTypes DEF DeleteRow, At, SessionSteps, process
  <2>2. CASE LiveSession(z)
    <3>1. createSession' = [createSession EXCEPT ![z] = Deleted]
      BY <1>10, <2>2 DEF DeleteRow
    <3>2. \A b \in Bookings : LiveBooking(b) =>
            /\ Keeps(bookSession'[b], bookSession[b], {"create_session_id"})
            /\ LiveBooking(b)'
            /\ bookSession[b].create_session_id # z =>
                 bookSession'[b].create_session_id = bookSession[b].create_session_id
      BY <1>10, DeleteWrites DEF Edits, BookingsOf
    <3>3. CompletedWasHeld'
      BY <1>10, <2>1, DeleteWrites DEF CronInv, CompletedWasHeld, Edits, Keeps
    <3>4. CompletedSessionHasCompletedBooking'
      BY <2>1, <3>1, <3>2 DEF CronInv, CompletedSessionHasCompletedBooking,
                              BookingsOf, LiveSession, TypeOK, Keeps
    <3>5. CronReads'
      <4>1. createSession'[z] = Deleted
            /\ \A s \in Sessions : s # z => createSession'[s] = createSession[s]
        BY <2>1, <3>1 DEF TypeOK
      <4>2. \A p \in cron.todo : p[1] \in Bookings /\ LiveBooking(p[1])
                                /\ p[2] \in Sessions \cup {NULL}
        BY DEF References, TypeOK
      <4>3. cron.mark \in Sessions \cup {NULL}
        BY DEF TypeOK
      <4> QED
        BY <2>1, <3>2, <4>1, <4>2, <4>3 DEF CronInv, CronReads, BookingsOf, Keeps
    <3> QED
      BY <3>3, <3>4, <3>5 DEF CronInv
  <2>3. CASE ~LiveSession(z)
    BY <1>10, <2>1, <2>3, CronKeptBySessions DEF DeleteRow, LiveSession
  <2> QED
    BY <2>2, <2>3
<1>11. ASSUME CronFind PROVE CronInv'
  <2>1. UNCHANGED <<clock, createSession, bookSession>>
    BY <1>11 DEF CronFind, process
  <2>2. \A b \in Bookings : Due(b) =>
          bookSession[b].is_joined /\ bookSession[b].session_date + OneHour <= clock
    BY LiveRow, StoreAssumption DEF Due, BookingRow, TypeOK
  <2>3. cron'.mark = NULL
        /\ \A p \in cron'.todo : \E b \in Bookings :
             Due(b) /\ p = <<b, bookSession[b].create_session_id>>
    BY <1>11 DEF CronFind
  <2>4. CronReads'
    BY <2>1, <2>2, <2>3 DEF CronReads
  <2> QED
    BY <2>1, <2>4 DEF CronInv, CompletedWasHeld, CompletedSessionHasCompletedBooking,
                     BookingsOf, LiveBooking, LiveSession
<1>12. ASSUME NEW b \in Bookings, NEW z \in Sessions \cup {NULL}, CronBooking(b, z)
      PROVE CronInv'
  <2>1. UNCHANGED <<clock, createSession>> /\ <<b, z>> \in cron.todo
        /\ cron' = [todo |-> cron.todo \ {<<b, z>>}, mark |-> z]
    BY <1>12 DEF CronBooking, process
  <2>2. /\ bookSession[b].is_joined /\ bookSession[b].session_date + OneHour <= clock
        /\ z # NULL => bookSession[b].create_session_id = z \/ createSession[z] = Deleted
    BY <2>1 DEF CronInv, CronReads
  <2>3. CompletedWasHeld'
    BY <1>12, <2>1, <2>2, CronWrites DEF CronInv, CompletedWasHeld, Edits, Keeps
  <2>4. CompletedSessionHasCompletedBooking'
    <3>1. \A c \in Bookings : LiveBooking(c) =>
            /\ LiveBooking(c)'
            /\ bookSession'[c].create_session_id = bookSession[c].create_session_id
            /\ bookSession[c].is_completed => bookSession'[c].is_completed
      BY <1>12, CronWrites DEF Edits, Keeps
    <3> QED
      BY <2>1, <3>1 DEF CronInv, CompletedSessionHasCompletedBooking, BookingsOf, LiveSession
  <2>5. CronReads'
    <3>1. \A c \in Bookings : LiveBooking(c) =>
            /\ bookSession'[c].create_session_id = bookSession[c].create_session_id
            /\ bookSession'[c].session_date = bookSession[c].session_date
            /\ bookSession'[c].is_joined = bookSession[c].is_joined
      BY <1>12, CronWrites DEF Edits, Keeps
    <3>2. \A p \in cron.todo : p[1] \in Bookings /\ LiveBooking(p[1])
      BY DEF References, TypeOK
    <3>3. z # NULL => createSession[z] = Deleted \/ b \in BookingsOf(z)'
      BY <1>12, <2>2, <3>1, CronWrites DEF BookingsOf, Edits
    <3>4. bookSession'[b].is_completed
      BY <1>12, CronWrites
    <3> QED
      BY <2>1, <3>1, <3>2, <3>3, <3>4 DEF CronInv, CronReads
  <2> QED
    BY <2>3, <2>4, <2>5 DEF CronInv
<1>13. ASSUME CronSession PROVE CronInv'
  <2> DEFINE z == cron.mark
  <2>1. UNCHANGED <<clock, bookSession>> /\ z \in Sessions
    BY <1>13 DEF CronSession, process, TypeOK
  <2>2. \A s \in Sessions :
          /\ createSession[s] = Deleted => createSession'[s] = Deleted
          /\ LiveSession(s)' <=> LiveSession(s)
          /\ LiveSession(s) /\ createSession'[s].is_completed =>
               createSession[s].is_completed \/ s = z
    <3>1. \A s \in Sessions :
            /\ LiveSession(s)' <=> LiveSession(s)
            /\ ~LiveSession(s) => createSession'[s] = createSession[s]
            /\ LiveSession(s) /\ createSession'[s].is_completed =>
                 createSession[s].is_completed \/ s = z
      BY <1>13, SessionEdits DEF SessionEdit
    <3> QED
      BY <3>1 DEF LiveSession
  <2>3. LiveSession(z) => \E b \in BookingsOf(z) : bookSession[b].is_completed
    BY <1>13 DEF CronInv, CronReads, CronSession, LiveSession
  <2>4. cron'.todo \subseteq cron.todo /\ cron'.mark = NULL
    BY <1>13 DEF CronSession, TypeOK, CronIdle
  <2>5. CompletedSessionHasCompletedBooking'
    <3> SUFFICES ASSUME NEW s \in Sessions, LiveSession(s)', createSession'[s].is_completed
                 PROVE  \E b \in BookingsOf(s)' : bookSession'[b].is_completed
      BY DEF CompletedSessionHasCompletedBooking
    <3>1. BookingsOf(s)' = BookingsOf(s)
      BY <2>1 DEF BookingsOf, LiveBooking
    <3>2. LiveSession(s) /\ (createSession[s].is_completed \/ s = z)
      BY <2>2
    <3> QED
      BY <2>1, <2>3, <3>1, <3>2 DEF CronInv, CompletedSessionHasCompletedBooking
  <2>6. CronReads'
    <3>1. \A p \in cron.todo : p[2] \in Sessions \cup {NULL}
      BY DEF TypeOK
    <3> QED
      BY <2>1, <2>2, <2>4, <3>1 DEF CronInv, CronReads
  <2> QED
    BY <2>1, <2>5, <2>6 DEF CronInv, CompletedWasHeld, LiveBooking
<1>14. ASSUME NEW e \in StripeEvent, WebhookSucceeded(e) PROVE CronInv'
  <2>1. UNCHANGED <<clock, createSession, cron>>
    BY <1>14 DEF WebhookSucceeded, process
  <2> QED
    BY <1>14, <2>1, WebhookWrites, CronKeptByBookings DEF Edits, Keeps
<1> USE DEF TypeOK, LiveBooking, LiveSession, At, Arrive, Goto, Finish,
               allButHandler, process, stripe, Idle
<1>15. ASSUME NEW h \in Handlers, NEW u \in Students, NEW s \in Sessions, NEW d \in Dates,
            Book(h, u, s, d) PROVE CronInv'
  BY <1>15, CronKept, StoreAssumption DEF Book
<1>16. ASSUME NEW h \in Handlers, BookFind(h) PROVE CronInv'
  BY <1>16, CronKept, StoreAssumption DEF BookFind
<1>17. ASSUME NEW h \in Handlers, BookOrphan(h) PROVE CronInv'
  BY <1>17, CronKept, StoreAssumption DEF BookOrphan
<1>18. ASSUME NEW h \in Handlers, NEW b \in Bookings, Join(h, b) PROVE CronInv'
  BY <1>18, CronKept, StoreAssumption DEF Join
<1>19. ASSUME NEW h \in Handlers, NEW b \in Bookings, Cancel(h, b) PROVE CronInv'
  BY <1>19, CronKept, StoreAssumption DEF Cancel
<1>20. ASSUME NEW h \in Handlers, NEW b \in Bookings, RequestReschedule(h, b)
      PROVE CronInv'
  BY <1>20, CronKept, StoreAssumption DEF RequestReschedule
<1>21. ASSUME NEW h \in Handlers, RequestFind(h) PROVE CronInv'
  BY <1>21, CronKept, StoreAssumption DEF RequestFind
<1>22. ASSUME NEW h \in Handlers, RequestCreate(h) PROVE CronInv'
  BY <1>22, CronKept, StoreAssumption DEF RequestCreate
<1>23. ASSUME NEW h \in Handlers, NEW t \in Teachers, NEW s \in Sessions, Edit(h, t, s)
      PROVE CronInv'
  BY <1>23, CronKept, StoreAssumption DEF Edit
<1>24. ASSUME NEW h \in Handlers, NEW t \in Teachers, NEW s \in Sessions, Start(h, t, s)
      PROVE CronInv'
  BY <1>24, CronKept, StoreAssumption DEF Start
<1>25. ASSUME NEW h \in Handlers, NEW t \in Teachers, NEW s \in Sessions,
            Remove(h, t, s) PROVE CronInv'
  BY <1>25, CronKept, StoreAssumption DEF Remove
<1>26. ASSUME NEW h \in Handlers, NEW s \in Sessions, AdminDelete(h, s) PROVE CronInv'
  BY <1>26, CronKept, StoreAssumption DEF AdminDelete
<1>27. ASSUME NEW h \in Handlers, NEW t \in Teachers, NEW b \in Bookings,
            NEW a \in {"accept.update", "reject.update"}, HandleRequest(h, t, b, a)
      PROVE CronInv'
  BY <1>27, CronKept, StoreAssumption DEF HandleRequest
<1>28. ASSUME NEW h \in Handlers, AcceptUpdate(h) PROVE CronInv'
  BY <1>28, CronKept, StoreAssumption DEF AcceptUpdate
<1>29. ASSUME NEW h \in Handlers, RejectUpdate(h) PROVE CronInv'
  BY <1>29, CronKept, StoreAssumption DEF RejectUpdate
<1>30. ASSUME CronFails PROVE CronInv'
  BY <1>30, CronKept, StoreAssumption DEF CronFails
<1>31. ASSUME NEW h \in Handlers, NEW u \in Students, NEW b \in Bookings, Pay(h, u, b)
      PROVE CronInv'
  BY <1>31, CronKept, StoreAssumption DEF Pay
<1>32. ASSUME NEW h \in Handlers, NEW i \in Intents, PayIntent(h, i) PROVE CronInv'
  BY <1>32, CronKept, StoreAssumption DEF PayIntent
<1>33. ASSUME NEW i \in Intents, NEW o \in {"succeeded", "payment_failed", "canceled"},
            Settled(i, o) PROVE CronInv'
  BY <1>33, CronKept, StoreAssumption DEF Settled
<1>34. ASSUME NEW e \in StripeEvent, WebhookNotSucceeded(e) PROVE CronInv'
  BY <1>34, CronKept, StoreAssumption DEF WebhookNotSucceeded
<1>35. ASSUME NEW e \in StripeEvent, WebhookFails(e) PROVE CronInv'
  BY <1>35, CronKept, StoreAssumption DEF WebhookFails
<1>36. ASSUME Tick PROVE CronInv'
  BY <1>36, CronKept, StoreAssumption DEF Tick
<1>37. ASSUME Crash PROVE CronInv'
  BY <1>37, CronKept, StoreAssumption DEF Crash
<1>38. ASSUME NEW h \in Handlers, StatementFails(h) PROVE CronInv'
  BY <1>38, CronKept, StoreAssumption DEF StatementFails
<1>39. CASE UNCHANGED vars
  BY <1>39, CronKeptBySessions DEF vars
<1> QED
  BY <1>1, <1>2, <1>3, <1>4, <1>5, <1>6, <1>7, <1>8, <1>9, <1>10, <1>11, <1>12,
     <1>13, <1>14, <1>15, <1>16, <1>17, <1>18, <1>19, <1>20, <1>21, <1>22,
     <1>23, <1>24, <1>25, <1>26, <1>27, <1>28, <1>29, <1>30, <1>31, <1>32,
     <1>33, <1>34, <1>35, <1>36, <1>37, <1>38, <1>39 DEF Next, StudentsNext,
     TeachersNext, SchedulerNext, CronStep, StripeNext

----------------------------------------------------------------------------
(* Reschedule requests: the row comes first and the flag second, and only  *)
(* a failure can come between them for good.                               *)

RequestInv ==
  FlaggedHasRequest /\ StatusBackedByFlags /\ RequestReads /\ RequestReachesBooking

RequestSteps == {"request.find", "request.create", "request.flag",
                 "accept.update", "reject.update"}

(* What is known of reschedule requests survives a step that leaves their  *)
(* rows, flags and status texts alone.                                     *)
LEMMA RequestKept ==
  ASSUME TypeOK, References, RequestInv, UNCHANGED reschedule,
         faults > 0 => faults' > 0,
         \A b \in Bookings : LiveBooking(b)' <=> LiveBooking(b),
         \A b \in Bookings : LiveBooking(b) =>
           /\ bookSession'[b].is_request_for_reschedule = bookSession[b].is_request_for_reschedule
           /\ bookSession'[b].status = bookSession[b].status
           /\ bookSession'[b].is_completed = bookSession[b].is_completed
           /\ bookSession[b].started_at # NULL => bookSession'[b].started_at # NULL,
         \A h \in Handlers :
           \/ handler'[h] = handler[h]
           \/ /\ handler'[h].pc \notin RequestSteps
              /\ handler[h].pc = "request.flag" => faults' > 0
  PROVE  RequestInv'
<1>1. FlaggedHasRequest' /\ StatusBackedByFlags'
  BY DEF RequestInv, FlaggedHasRequest, StatusBackedByFlags
<1>2. RequestReads'
  <2> SUFFICES ASSUME NEW h \in Handlers, handler'[h].pc \in RequestSteps
               PROVE  /\ \/ handler'[h].pc = "request.find" /\ handler'[h].started_at # NULL
                         \/ handler'[h].pc = "request.create"
                         => bookSession'[handler'[h].booking].started_at # NULL
                      /\ handler'[h].pc \in {"request.flag", "accept.update", "reject.update"} =>
                           reschedule'[handler'[h].booking] # "none"
    BY DEF RequestReads, At, RequestSteps
  <2>1. handler'[h] = handler[h]
    OBVIOUS
  <2>2. handler[h].booking \in Bookings /\ LiveBooking(handler[h].booking)
    BY <2>1, HandlerTypes DEF References, BookingSteps, RequestSteps
  <2> QED
    BY <2>1, <2>2 DEF RequestInv, RequestReads, At
<1>3. RequestReachesBooking'
  BY DEF RequestInv, RequestReachesBooking, References, At
<1> QED
  BY <1>1, <1>2, <1>3 DEF RequestInv

(* Every step keeps what is known of reschedule requests.                  *)
LEMMA RequestStep ==
  ASSUME TypeOK, References, RequestInv, [Next]_vars
  PROVE  RequestInv'
<1>1. ASSUME NEW h \in Handlers, NEW b \in Bookings, BookCreate(h, b) PROVE RequestInv'
  <2>1. /\ ~LiveBooking(b) /\ LiveBooking(b)' /\ UNCHANGED <<faults, reschedule>>
        /\ \A c \in Bookings : c # b => bookSession'[c] = bookSession[c]
        /\ ~bookSession'[b].is_completed /\ ~bookSession'[b].is_request_for_reschedule
        /\ bookSession'[b].status = "pending"
    <3>1. NewBooking(handler[h].user, handler[h].session, handler[h].date) # NULL
      BY <1>1, NewRow, RowAssumption
    <3> QED
      BY <1>1, <3>1 DEF BookCreate, NewBooking, process, TypeOK, LiveBooking
  <2>2. handler'[h].pc = "book.count" /\ \A k \in Handlers : k # h => handler'[k] = handler[k]
    BY <1>1 DEF BookCreate, Goto, At, TypeOK, HandlerState, Idle
  <2>3. FlaggedHasRequest' /\ StatusBackedByFlags'
    BY <2>1 DEF RequestInv, FlaggedHasRequest, StatusBackedByFlags, LiveBooking
  <2>4. RequestReads'
    BY <2>1, <2>2, HandlerTypes DEF RequestInv, RequestReads, References, BookingSteps, At
  <2>5. RequestReachesBooking'
    BY <1>1, <2>1, <2>2 DEF RequestInv, RequestReachesBooking, References, At, BookCreate
  <2> QED
    BY <2>3, <2>4, <2>5 DEF RequestInv
<1>2. ASSUME NEW h \in Handlers, JoinUpdate(h) PROVE RequestInv'
  <2>1. /\ UNCHANGED <<faults, reschedule>>
        /\ \A k \in Handlers :
             \/ handler'[k] = handler[k]
             \/ handler[k].pc # "request.flag" /\ handler'[k].pc = "idle"
    BY <1>2 DEF JoinUpdate, process, TypeOK, Finish, Idle, At
  <2> QED
    BY <1>2, <2>1, JoinWrites, RequestKept DEF Edits, Keeps, RequestSteps
<1>3. ASSUME NEW h \in Handlers, CancelUpdate(h) PROVE RequestInv'
  <2>1. /\ UNCHANGED <<faults, reschedule>>
        /\ \A k \in Handlers :
             \/ handler'[k] = handler[k]
             \/ handler[k].pc # "request.flag" /\ handler'[k].pc = "idle"
    BY <1>3 DEF CancelUpdate, process, TypeOK, Finish, Idle, At
  <2> QED
    BY <1>3, <2>1, CancelWrites, RequestKept DEF Edits, Keeps, RequestSteps
<1>4. ASSUME NEW h \in Handlers, RequestCreate(h) PROVE RequestInv'
  <2> DEFINE b == handler[h].booking
  <2>1. /\ b \in Bookings /\ LiveBooking(b) /\ bookSession[b].started_at # NULL
        /\ UNCHANGED <<faults, bookSession>>
    BY <1>4, HandlerTypes
    DEF RequestCreate, RequestInv, RequestReads, References, BookingSteps, At, process
  <2>2. CASE reschedule[b] = "none"
    <3>1. /\ reschedule' = [reschedule EXCEPT ![b] = "pending"]
          /\ handler'[h].pc = "request.flag" /\ handler'[h].booking = b
          /\ \A k \in Handlers : k # h => handler'[k] = handler[k]
      BY <1>4, <2>2 DEF RequestCreate, Goto, At, TypeOK, HandlerState, Idle
    <3>2. reschedule'[b] = "pending" /\ \A c \in Bookings : c # b => reschedule'[c] = reschedule[c]
      BY <2>1, <3>1 DEF TypeOK
    <3>3. FlaggedHasRequest' /\ StatusBackedByFlags'
      BY <2>1, <3>2 DEF RequestInv, FlaggedHasRequest, StatusBackedByFlags, LiveBooking
    <3>4. RequestReads'
      BY <2>1, <3>1, <3>2, HandlerTypes DEF RequestInv, RequestReads, BookingSteps, At
    <3>5. RequestReachesBooking'
      <4> SUFFICES ASSUME NEW c \in Bookings, reschedule'[c] # "none"
                   PROVE  \/ bookSession'[c].is_request_for_reschedule
                          \/ \E k \in Handlers : handler'[k].pc = "request.flag"
                                                /\ handler'[k].booking = c
                          \/ faults' > 0
        BY DEF RequestReachesBooking, At
      <4>1. CASE c = b
        BY <3>1, <4>1
      <4>2. CASE c # b
        <5>1. \A k \in Handlers : At(k, "request.flag") => handler'[k] = handler[k]
          BY <1>4, <3>1 DEF At, RequestCreate
        <5> QED
          BY <2>1, <3>2, <4>2, <5>1 DEF RequestInv, RequestReachesBooking, At
      <4> QED
        BY <4>1, <4>2
    <3> QED
      BY <3>3, <3>4, <3>5 DEF RequestInv
  <2>3. CASE reschedule[b] # "none"
    BY <1>4, <2>1, <2>3, RequestKept
    DEF RequestCreate, At, Finish, Idle, TypeOK, RequestSteps, LiveBooking
  <2> QED
    BY <2>2, <2>3
<1>5. ASSUME NEW h \in Handlers, RequestFlag(h) PROVE RequestInv'
  <2> DEFINE b == handler[h].booking
  <2>1. UNCHANGED <<faults, reschedule>> /\ handler' = [handler EXCEPT ![h] = Idle]
    BY <1>5 DEF RequestFlag, process, Finish
  <2>2. /\ b \in Bookings /\ reschedule[b] # "none"
        /\ bookSession'[b].is_request_for_reschedule
        /\ bookSession'[b].status = "Reschedule_requested"
    BY <1>5, FlagWrites DEF RequestInv, RequestReads, RequestFlag, At
  <2>3. \A c \in Bookings : LiveBooking(c) =>
          /\ LiveBooking(c)'
          /\ c # b => bookSession'[c] = bookSession[c]
          /\ bookSession'[c].started_at = bookSession[c].started_at
          /\ bookSession'[c].is_completed = bookSession[c].is_completed
    BY <1>5, FlagWrites DEF Edits, Keeps
  <2>4. \A c \in Bookings : LiveBooking(c)' => LiveBooking(c)
    BY <1>5, FlagWrites DEF Edits
  <2>5. FlaggedHasRequest' /\ StatusBackedByFlags'
    BY <2>1, <2>2, <2>3, <2>4 DEF RequestInv, FlaggedHasRequest, StatusBackedByFlags
  <2>6. RequestReads'
    BY <2>1, <2>3, HandlerTypes
    DEF RequestInv, RequestReads, References, BookingSteps, At, Idle, TypeOK
  <2>7. RequestReachesBooking'
    BY <2>1, <2>2, <2>3 DEF RequestInv, RequestReachesBooking, References, At, TypeOK
  <2> QED
    BY <2>5, <2>6, <2>7 DEF RequestInv
<1>6. ASSUME NEW h \in Handlers, EditUpdate(h) PROVE RequestInv'
  BY <1>6, SessionEdits, RequestKept DEF SessionEdit, EditUpdate, LiveBooking,
     At, Finish, Idle, TypeOK, RequestSteps
<1>7. ASSUME NEW h \in Handlers, StartBookings(h) PROVE RequestInv'
  <2>1. handler'[h].pc = "start.session" /\ \A k \in Handlers : k # h => handler'[k] = handler[k]
    BY <1>7 DEF StartBookings, Goto, At, TypeOK, HandlerState, Idle
  <2>2. \A b \in Bookings : LiveBooking(b) /\ bookSession[b].started_at # NULL =>
          bookSession'[b].started_at # NULL
    BY <1>7, StartWrites, StoreAssumption DEF Edits, TypeOK
  <2>3. UNCHANGED <<faults, reschedule>> /\ handler[h].pc # "request.flag"
    BY <1>7 DEF StartBookings, At, process
  <2> QED
    BY <1>7, <2>1, <2>2, <2>3, StartWrites, RequestKept DEF Edits, Keeps, RequestSteps
<1>8. ASSUME NEW h \in Handlers, DeleteRow(h) PROVE RequestInv'
  <2>1. /\ UNCHANGED <<faults, reschedule>>
        /\ \A k \in Handlers :
             \/ handler'[k] = handler[k]
             \/ handler[k].pc # "request.flag" /\ handler'[k].pc = "idle"
    BY <1>8 DEF DeleteRow, process, TypeOK, Finish, Idle, At
  <2> QED
    BY <1>8, <2>1, DeleteWrites, RequestKept DEF Edits, Keeps, RequestSteps
<1>9. ASSUME NEW b \in Bookings, NEW z \in Sessions \cup {NULL}, CronBooking(b, z)
      PROVE RequestInv'
  <2>1. UNCHANGED <<faults, reschedule, handler>>
    BY <1>9 DEF CronBooking, process
  <2>2. /\ LiveBooking(b) /\ bookSession'[b].is_completed /\ bookSession'[b].status = "completed"
    BY <1>9, CronWrites
  <2>3. \A c \in Bookings :
          /\ LiveBooking(c)' <=> LiveBooking(c)
          /\ c # b => bookSession'[c] = bookSession[c]
          /\ LiveBooking(c) =>
               /\ bookSession'[c].is_request_for_reschedule = bookSession[c].is_request_for_reschedule
               /\ bookSession'[c].started_at = bookSession[c].started_at
    BY <1>9, CronWrites DEF Edits, Keeps
  <2>4. FlaggedHasRequest' /\ StatusBackedByFlags'
    BY <2>1, <2>2, <2>3 DEF RequestInv, FlaggedHasRequest, StatusBackedByFlags
  <2>5. RequestReads'
    BY <2>1, <2>3, HandlerTypes DEF RequestInv, RequestReads, References, BookingSteps, At
  <2>6. RequestReachesBooking'
    BY <2>1, <2>3 DEF RequestInv, RequestReachesBooking, References, At
  <2> QED
    BY <2>4, <2>5, <2>6 DEF RequestInv
<1>10. ASSUME NEW e \in StripeEvent, WebhookSucceeded(e) PROVE RequestInv'
  <2>1. /\ UNCHANGED <<faults, reschedule>>
        /\ \A k \in Handlers :
             \/ handler'[k] = handler[k]
             \/ handler[k].pc # "request.flag" /\ handler'[k].pc = "idle"
    BY <1>10 DEF WebhookSucceeded, process, TypeOK, Finish, Idle, At
  <2> QED
    BY <1>10, <2>1, WebhookWrites, RequestKept DEF Edits, Keeps, RequestSteps
<1>11. ASSUME Crash PROVE RequestInv'
  BY <1>11, RequestKept DEF Crash, TypeOK, LiveBooking, Finish, Idle,
     RequestSteps
<1>12. ASSUME NEW h \in Handlers, StatementFails(h) PROVE RequestInv'
  BY <1>12, RequestKept DEF StatementFails, TypeOK, LiveBooking, Finish, Idle,
     RequestSteps
<1> USE DEF TypeOK, References, RequestInv, FlaggedHasRequest,
               StatusBackedByFlags, RequestReads, RequestReachesBooking,
               BookingSteps, LiveBooking, HandlerState, At, Arrive, Goto,
               Finish, allButHandler, process, stripe, Idle
<1>13. ASSUME NEW h \in Handlers, NEW u \in Students, NEW s \in Sessions, NEW d \in Dates,
            Book(h, u, s, d) PROVE RequestInv'
  BY <1>13, StoreAssumption DEF Book
<1>14. ASSUME NEW h \in Handlers, BookFind(h) PROVE RequestInv'
  BY <1>14, StoreAssumption DEF BookFind
<1>15. ASSUME NEW h \in Handlers, BookOrphan(h) PROVE RequestInv'
  BY <1>15, StoreAssumption DEF BookOrphan
<1>16. ASSUME NEW h \in Handlers, BookCount(h) PROVE RequestInv'
  BY <1>16, StoreAssumption DEF BookCount
<1>17. ASSUME NEW h \in Handlers, NEW b \in Bookings, Join(h, b) PROVE RequestInv'
  BY <1>17, StoreAssumption DEF Join
<1>18. ASSUME NEW h \in Handlers, NEW b \in Bookings, Cancel(h, b) PROVE RequestInv'
  BY <1>18, StoreAssumption DEF Cancel
<1>19. ASSUME NEW h \in Handlers, NEW b \in Bookings, RequestReschedule(h, b)
      PROVE RequestInv'
  BY <1>19, StoreAssumption DEF RequestReschedule
<1>20. ASSUME NEW h \in Handlers, RequestFind(h) PROVE RequestInv'
  BY <1>20, StoreAssumption DEF RequestFind, InWindow
<1>21. ASSUME NEW t \in Teachers, NEW s \in Sessions, Create(t, s) PROVE RequestInv'
  BY <1>21, StoreAssumption DEF Create
<1>22. ASSUME NEW h \in Handlers, NEW t \in Teachers, NEW s \in Sessions, Edit(h, t, s)
      PROVE RequestInv'
  BY <1>22, StoreAssumption DEF Edit
<1>23. ASSUME NEW h \in Handlers, NEW t \in Teachers, NEW s \in Sessions, Start(h, t, s)
      PROVE RequestInv'
  BY <1>23, StoreAssumption DEF Start
<1>24. ASSUME NEW h \in Handlers, StartSession(h) PROVE RequestInv'
  BY <1>24, StoreAssumption DEF StartSession
<1>25. ASSUME NEW h \in Handlers, NEW t \in Teachers, NEW s \in Sessions,
            Remove(h, t, s) PROVE RequestInv'
  BY <1>25, StoreAssumption DEF Remove
<1>26. ASSUME NEW h \in Handlers, NEW s \in Sessions, AdminDelete(h, s)
      PROVE RequestInv'
  BY <1>26, StoreAssumption DEF AdminDelete
<1>27. ASSUME NEW h \in Handlers, NEW t \in Teachers, NEW b \in Bookings,
            NEW a \in {"accept.update", "reject.update"}, HandleRequest(h, t, b, a)
      PROVE RequestInv'
  BY <1>27, StoreAssumption DEF HandleRequest, Undecided
<1>28. ASSUME NEW h \in Handlers, AcceptUpdate(h) PROVE RequestInv'
  BY <1>28, StoreAssumption DEF AcceptUpdate
<1>29. ASSUME NEW h \in Handlers, RejectUpdate(h) PROVE RequestInv'
  BY <1>29, StoreAssumption DEF RejectUpdate
<1>30. ASSUME CronFind PROVE RequestInv'
  BY <1>30, StoreAssumption DEF CronFind
<1>31. ASSUME CronSession PROVE RequestInv'
  BY <1>31, StoreAssumption DEF CronSession
<1>32. ASSUME CronFails PROVE RequestInv'
  BY <1>32, StoreAssumption DEF CronFails
<1>33. ASSUME NEW h \in Handlers, NEW u \in Students, NEW b \in Bookings, Pay(h, u, b)
      PROVE RequestInv'
  BY <1>33, StoreAssumption DEF Pay
<1>34. ASSUME NEW h \in Handlers, NEW i \in Intents, PayIntent(h, i) PROVE RequestInv'
  BY <1>34, StoreAssumption DEF PayIntent
<1>35. ASSUME NEW i \in Intents, NEW o \in {"succeeded", "payment_failed", "canceled"},
            Settled(i, o) PROVE RequestInv'
  BY <1>35, StoreAssumption DEF Settled
<1>36. ASSUME NEW e \in StripeEvent, WebhookNotSucceeded(e) PROVE RequestInv'
  BY <1>36, StoreAssumption DEF WebhookNotSucceeded
<1>37. ASSUME NEW e \in StripeEvent, WebhookFails(e) PROVE RequestInv'
  BY <1>37, StoreAssumption DEF WebhookFails
<1>38. ASSUME Tick PROVE RequestInv'
  BY <1>38, StoreAssumption DEF Tick
<1>39. CASE UNCHANGED vars
  BY <1>39 DEF vars
<1> QED
  BY <1>1, <1>2, <1>3, <1>4, <1>5, <1>6, <1>7, <1>8, <1>9, <1>10, <1>11, <1>12,
     <1>13, <1>14, <1>15, <1>16, <1>17, <1>18, <1>19, <1>20, <1>21, <1>22,
     <1>23, <1>24, <1>25, <1>26, <1>27, <1>28, <1>29, <1>30, <1>31, <1>32,
     <1>33, <1>34, <1>35, <1>36, <1>37, <1>38, <1>39 DEF Next, StudentsNext,
     TeachersNext, SchedulerNext, CronStep, StripeNext

----------------------------------------------------------------------------
(* Starting: the bookings are stamped first and the session is marked      *)
(* second, and only a failure can come between them for good.              *)

(* StartReachesSession survives a step that stamps no booking and unmarks  *)
(* no session.                                                             *)
LEMMA StartKept ==
  ASSUME StartReachesSession, faults > 0 => faults' > 0,
         \A b \in Bookings : LiveBooking(b)' =>
           \/ bookSession'[b].started_at = NULL
           \/ bookSession'[b].create_session_id = NULL
           \/ /\ LiveBooking(b) /\ bookSession[b].started_at # NULL
              /\ bookSession'[b].create_session_id = bookSession[b].create_session_id
              /\ createSession[bookSession[b].create_session_id].is_started =>
                   createSession'[bookSession[b].create_session_id].is_started,
         \A h \in Handlers : handler[h].pc = "start.session" =>
           handler'[h] = handler[h] \/ faults' > 0
  PROVE  StartReachesSession'
BY DEF StartReachesSession, At

(* Every step keeps StartReachesSession.                                   *)
LEMMA StartStep ==
  ASSUME TypeOK, References, StartReachesSession, [Next]_vars
  PROVE  StartReachesSession'
<1>1. ASSUME NEW h \in Handlers, NEW b \in Bookings, BookCreate(h, b)
      PROVE StartReachesSession'
  <2>1. /\ UNCHANGED <<faults, createSession>> /\ bookSession'[b].started_at = NULL
        /\ \A c \in Bookings : c # b => bookSession'[c] = bookSession[c]
    BY <1>1 DEF BookCreate, NewBooking, process, TypeOK
  <2>2. \A k \in Handlers : handler[k].pc = "start.session" => handler'[k] = handler[k]
    BY <1>1 DEF BookCreate, Goto, At, TypeOK
  <2> QED
    BY <2>1, <2>2, StartKept DEF LiveBooking
<1>2. ASSUME NEW h \in Handlers, BookCount(h) PROVE StartReachesSession'
  <2>1. /\ UNCHANGED <<faults, bookSession>>
        /\ \A s \in Sessions :
             LiveSession(s) /\ createSession[s].is_started => createSession'[s].is_started
    BY <1>2, SessionEdits DEF SessionEdit
  <2>2. \A k \in Handlers : handler[k].pc = "start.session" => handler'[k] = handler[k]
    BY <1>2 DEF BookCount, Finish, At, TypeOK
  <2> QED
    BY <2>1, <2>2, LiveRow, StartKept DEF References, BookingRow, LiveBooking
<1>3. ASSUME NEW h \in Handlers, JoinUpdate(h) PROVE StartReachesSession'
  <2>1. /\ UNCHANGED <<faults, createSession>>
        /\ \A k \in Handlers : handler[k].pc = "start.session" => handler'[k] = handler[k]
    BY <1>3 DEF JoinUpdate, process, TypeOK, Finish, At
  <2> QED
    BY <1>3, <2>1, JoinWrites, StartKept DEF Edits, Keeps
<1>4. ASSUME NEW h \in Handlers, CancelUpdate(h) PROVE StartReachesSession'
  <2>1. /\ UNCHANGED <<faults, createSession>>
        /\ \A k \in Handlers : handler[k].pc = "start.session" => handler'[k] = handler[k]
    BY <1>4 DEF CancelUpdate, process, TypeOK, Finish, At
  <2> QED
    BY <1>4, <2>1, CancelWrites, StartKept DEF Edits, Keeps
<1>5. ASSUME NEW h \in Handlers, RequestFlag(h) PROVE StartReachesSession'
  <2>1. /\ UNCHANGED <<faults, createSession>>
        /\ \A k \in Handlers : handler[k].pc = "start.session" => handler'[k] = handler[k]
    BY <1>5 DEF RequestFlag, process, TypeOK, Finish, At
  <2> QED
    BY <1>5, <2>1, FlagWrites, StartKept DEF Edits, Keeps
<1>6. ASSUME NEW t \in Teachers, NEW s \in Sessions, Create(t, s)
      PROVE StartReachesSession'
  <2>1. /\ UNCHANGED <<faults, bookSession, handler>> /\ ~LiveSession(s)
        /\ \A z \in Sessions : z # s => createSession'[z] = createSession[z]
    BY <1>6 DEF Create, process, TypeOK, LiveSession
  <2> QED
    BY <2>1, LiveRow, StartKept DEF References, BookingRow, LiveBooking
<1>7. ASSUME NEW h \in Handlers, EditUpdate(h) PROVE StartReachesSession'
  <2>1. /\ UNCHANGED <<faults, bookSession>>
        /\ \A s \in Sessions :
             LiveSession(s) /\ createSession[s].is_started => createSession'[s].is_started
    BY <1>7, SessionEdits DEF SessionEdit
  <2>2. \A k \in Handlers : handler[k].pc = "start.session" => handler'[k] = handler[k]
    BY <1>7 DEF EditUpdate, Finish, At, TypeOK
  <2> QED
    BY <2>1, <2>2, LiveRow, StartKept DEF References, BookingRow, LiveBooking
<1>8. ASSUME NEW h \in Handlers, StartBookings(h) PROVE StartReachesSession'
  <2>1. /\ handler'[h].pc = "start.session" /\ handler'[h].session = handler[h].session
        /\ \A k \in Handlers : k # h => handler'[k] = handler[k]
        /\ handler[h].pc # "start.session" /\ UNCHANGED <<faults, createSession>>
    BY <1>8 DEF StartBookings, Goto, At, TypeOK, HandlerState, Idle, process
  <2> SUFFICES ASSUME NEW b \in Bookings, LiveBooking(b)', bookSession'[b].started_at # NULL,
                      bookSession'[b].create_session_id # NULL
               PROVE  LET s == bookSession'[b].create_session_id IN
                      \/ createSession'[s].is_started
                      \/ \E k \in Handlers : handler'[k].pc = "start.session"
                                            /\ handler'[k].session = s
                      \/ faults' > 0
    BY DEF StartReachesSession, At
  <2>2. /\ LiveBooking(b) /\ Keeps(bookSession'[b], bookSession[b], {"started_at"})
        /\ b \notin BookingsOf(handler[h].session) => bookSession'[b] = bookSession[b]
    BY <1>8, StartWrites DEF Edits
  <2>3. CASE b \in BookingsOf(handler[h].session)
    BY <2>1, <2>2, <2>3 DEF Keeps, BookingsOf
  <2>4. CASE b \notin BookingsOf(handler[h].session)
    BY <2>1, <2>2, <2>4 DEF StartReachesSession, At
  <2> QED
    BY <2>3, <2>4
<1>9. ASSUME NEW h \in Handlers, StartSession(h) PROVE StartReachesSession'
  <2> DEFINE z == handler[h].session
  <2>1. /\ \A k \in Handlers : k # h => handler'[k] = handler[k]
        /\ z \in Sessions
    BY <1>9, HandlerTypes DEF StartSession, Finish, TypeOK, At, SessionSteps
  <2>2. /\ UNCHANGED <<faults, bookSession>>
        /\ \A s \in Sessions :
             LiveSession(s) /\ createSession[s].is_started => createSession'[s].is_started
    BY <1>9, SessionEdits DEF SessionEdit
  <2>3. LiveSession(z) => createSession'[z].is_started
    BY <1>9, <2>1, LiveSessionRow DEF StartSession, SessionRow, TypeOK
  <2> SUFFICES ASSUME NEW b \in Bookings, LiveBooking(b), bookSession[b].started_at # NULL,
                      bookSession[b].create_session_id # NULL
               PROVE  \/ createSession'[bookSession[b].create_session_id].is_started
                      \/ \E k \in Handlers : handler'[k].pc = "start.session"
                               /\ handler'[k].session = bookSession[b].create_session_id
                      \/ faults' > 0
    BY <2>2 DEF StartReachesSession, At, LiveBooking
  <2>4. bookSession[b].create_session_id \in Sessions
        /\ LiveSession(bookSession[b].create_session_id)
    BY LiveRow DEF References, BookingRow
  <2>5. CASE bookSession[b].create_session_id = z
    BY <2>3, <2>4, <2>5
  <2>6. CASE bookSession[b].create_session_id # z
    BY <2>1, <2>2, <2>4, <2>6 DEF StartReachesSession, At
  <2> QED
    BY <2>5, <2>6
<1>10. ASSUME NEW h \in Handlers, DeleteRow(h) PROVE StartReachesSession'
  <2>1. /\ UNCHANGED faults
        /\ \A k \in Handlers : handler[k].pc = "start.session" => handler'[k] = handler[k]
        /\ \A s \in Sessions : s # handler[h].session => createSession'[s] = createSession[s]
        /\ ~LiveSession(handler[h].session) => UNCHANGED createSession
    BY <1>10 DEF DeleteRow, process, Finish, At, TypeOK
  <2> SUFFICES ASSUME NEW b \in Bookings, LiveBooking(b)', bookSession'[b].started_at # NULL,
                      bookSession'[b].create_session_id # NULL
               PROVE  /\ LiveBooking(b) /\ bookSession[b].started_at # NULL
                      /\ bookSession'[b].create_session_id = bookSession[b].create_session_id
                      /\ createSession'[bookSession[b].create_session_id]
                           = createSession[bookSession[b].create_session_id]
    BY <2>1, StartKept
  <2>2. /\ LiveBooking(b) /\ bookSession'[b].started_at = bookSession[b].started_at
        /\ bookSession'[b].create_session_id = bookSession[b].create_session_id
    BY <1>10, DeleteWrites DEF Edits, Keeps
  <2>3. LiveSession(handler[h].session) => bookSession[b].create_session_id # handler[h].session
    BY <1>10, <2>2, DeleteWrites DEF BookingsOf
  <2>4. bookSession[b].create_session_id \in Sessions
    BY <2>2, LiveRow DEF BookingRow
  <2> QED
    BY <2>1, <2>2, <2>3, <2>4
<1>11. ASSUME NEW b \in Bookings, NEW z \in Sessions \cup {NULL}, CronBooking(b, z)
      PROVE StartReachesSession'
  <2>1. /\ UNCHANGED <<faults, createSession>>
        /\ \A k \in Handlers : handler[k].pc = "start.session" => handler'[k] = handler[k]
    BY <1>11 DEF CronBooking, process, TypeOK, Finish, At
  <2> QED
    BY <1>11, <2>1, CronWrites, StartKept DEF Edits, Keeps
<1>12. ASSUME CronSession PROVE StartReachesSession'
  <2>1. /\ UNCHANGED <<faults, bookSession>>
        /\ \A s \in Sessions :
             LiveSession(s) /\ createSession[s].is_started => createSession'[s].is_started
    BY <1>12, SessionEdits DEF SessionEdit
  <2>2. \A k \in Handlers : handler[k].pc = "start.session" => handler'[k] = handler[k]
    BY <1>12 DEF CronSession, Finish, At, TypeOK
  <2> QED
    BY <2>1, <2>2, LiveRow, StartKept DEF References, BookingRow, LiveBooking
<1>13. ASSUME NEW e \in StripeEvent, WebhookSucceeded(e) PROVE StartReachesSession'
  <2>1. /\ UNCHANGED <<faults, createSession>>
        /\ \A k \in Handlers : handler[k].pc = "start.session" => handler'[k] = handler[k]
    BY <1>13 DEF WebhookSucceeded, process, TypeOK, Finish, At
  <2> QED
    BY <1>13, <2>1, WebhookWrites, StartKept DEF Edits, Keeps
<1> USE DEF TypeOK, LiveBooking, At, Arrive, Goto, Finish, allButHandler,
               process, stripe, Idle
<1>14. ASSUME NEW h \in Handlers, NEW u \in Students, NEW s \in Sessions, NEW d \in Dates,
            Book(h, u, s, d) PROVE StartReachesSession'
  BY <1>14, StartKept DEF Book
<1>15. ASSUME NEW h \in Handlers, BookFind(h) PROVE StartReachesSession'
  BY <1>15, StartKept DEF BookFind
<1>16. ASSUME NEW h \in Handlers, BookOrphan(h) PROVE StartReachesSession'
  BY <1>16, StartKept DEF BookOrphan
<1>17. ASSUME NEW h \in Handlers, NEW b \in Bookings, Join(h, b)
      PROVE StartReachesSession'
  BY <1>17, StartKept DEF Join
<1>18. ASSUME NEW h \in Handlers, NEW b \in Bookings, Cancel(h, b)
      PROVE StartReachesSession'
  BY <1>18, StartKept DEF Cancel
<1>19. ASSUME NEW h \in Handlers, NEW b \in Bookings, RequestReschedule(h, b)
      PROVE StartReachesSession'
  BY <1>19, StartKept DEF RequestReschedule
<1>20. ASSUME NEW h \in Handlers, RequestFind(h) PROVE StartReachesSession'
  BY <1>20, StartKept DEF RequestFind
<1>21. ASSUME NEW h \in Handlers, RequestCreate(h) PROVE StartReachesSession'
  BY <1>21, StartKept DEF RequestCreate
<1>22. ASSUME NEW h \in Handlers, NEW t \in Teachers, NEW s \in Sessions, Edit(h, t, s)
      PROVE StartReachesSession'
  BY <1>22, StartKept DEF Edit
<1>23. ASSUME NEW h \in Handlers, NEW t \in Teachers, NEW s \in Sessions, Start(h, t, s)
      PROVE StartReachesSession'
  BY <1>23, StartKept DEF Start
<1>24. ASSUME NEW h \in Handlers, NEW t \in Teachers, NEW s \in Sessions,
            Remove(h, t, s) PROVE StartReachesSession'
  BY <1>24, StartKept DEF Remove
<1>25. ASSUME NEW h \in Handlers, NEW s \in Sessions, AdminDelete(h, s)
      PROVE StartReachesSession'
  BY <1>25, StartKept DEF AdminDelete
<1>26. ASSUME NEW h \in Handlers, NEW t \in Teachers, NEW b \in Bookings,
            NEW a \in {"accept.update", "reject.update"}, HandleRequest(h, t, b, a)
      PROVE StartReachesSession'
  BY <1>26, StartKept DEF HandleRequest
<1>27. ASSUME NEW h \in Handlers, AcceptUpdate(h) PROVE StartReachesSession'
  BY <1>27, StartKept DEF AcceptUpdate
<1>28. ASSUME NEW h \in Handlers, RejectUpdate(h) PROVE StartReachesSession'
  BY <1>28, StartKept DEF RejectUpdate
<1>29. ASSUME CronFind PROVE StartReachesSession'
  BY <1>29, StartKept DEF CronFind
<1>30. ASSUME CronFails PROVE StartReachesSession'
  BY <1>30, StartKept DEF CronFails
<1>31. ASSUME NEW h \in Handlers, NEW u \in Students, NEW b \in Bookings, Pay(h, u, b)
      PROVE StartReachesSession'
  BY <1>31, StartKept DEF Pay
<1>32. ASSUME NEW h \in Handlers, NEW i \in Intents, PayIntent(h, i)
      PROVE StartReachesSession'
  BY <1>32, StartKept DEF PayIntent
<1>33. ASSUME NEW i \in Intents, NEW o \in {"succeeded", "payment_failed", "canceled"},
            Settled(i, o) PROVE StartReachesSession'
  BY <1>33, StartKept DEF Settled
<1>34. ASSUME NEW e \in StripeEvent, WebhookNotSucceeded(e) PROVE StartReachesSession'
  BY <1>34, StartKept DEF WebhookNotSucceeded
<1>35. ASSUME NEW e \in StripeEvent, WebhookFails(e) PROVE StartReachesSession'
  BY <1>35, StartKept DEF WebhookFails
<1>36. ASSUME Tick PROVE StartReachesSession'
  BY <1>36, StartKept DEF Tick
<1>37. ASSUME Crash PROVE StartReachesSession'
  BY <1>37, StartKept DEF Crash
<1>38. ASSUME NEW h \in Handlers, StatementFails(h) PROVE StartReachesSession'
  BY <1>38, StartKept DEF StatementFails
<1>39. CASE UNCHANGED vars
  BY <1>39, StartKept DEF vars
<1> QED
  BY <1>1, <1>2, <1>3, <1>4, <1>5, <1>6, <1>7, <1>8, <1>9, <1>10, <1>11, <1>12,
     <1>13, <1>14, <1>15, <1>16, <1>17, <1>18, <1>19, <1>20, <1>21, <1>22,
     <1>23, <1>24, <1>25, <1>26, <1>27, <1>28, <1>29, <1>30, <1>31, <1>32,
     <1>33, <1>34, <1>35, <1>36, <1>37, <1>38, <1>39 DEF Next, StudentsNext,
     TeachersNext, SchedulerNext, CronStep, StripeNext

----------------------------------------------------------------------------
(* The slot counter.  What bookASession writes back is the counter it read *)
(* at the beginning, less one.  So a counter a request holds is bounded by *)
(* the bookings of its session just as the counter in the table is, and    *)
(* after the insert even if one is taken off.                              *)

BookSteps == {"book.find", "book.create", "book.count"}

Made(s) == Cardinality(BookingsOf(s))

Backed(v, n) ==
  \E given \in SlotInputs : Number(given) # NaN /\ v \in Number(given) - n .. Number(given)

Counts(v, n) == Number(v) # NaN => Backed(Number(v), n)

Counted(h) ==
  LET s == handler[h].session IN
  /\ handler[h].pc \in BookSteps => createSession[s] # NULL
  /\ handler[h].pc \in {"book.find", "book.create"} /\ LiveSession(s) =>
       Counts(handler[h].slots, Made(s))
  /\ At(h, "book.count") /\ LiveSession(s) =>
       Counts(OneLess(Number(handler[h].slots)), Made(s))

SlotsInv ==
  /\ \A s \in Sessions : LiveSession(s) => Counts(createSession[s].slots_available, Made(s))
  /\ \A h \in Handlers : Counted(h)

(* A bound stays one when bookings are added, and drops with the counter.  *)
LEMMA CountsBounds ==
  ASSUME NEW v \in SlotValues, NEW n \in Nat, NEW m \in Nat, n <= m, Counts(v, n)
  PROVE  /\ Counts(v, m)
         /\ m = n + 1 => Counts(OneLess(Number(v)), m)
<1>1. \A given \in SlotInputs : Number(given) # NaN => Number(given) \in Int
  BY StoreAssumption DEF Number
<1>2. Number(v) # NaN => Number(v) \in Int
  BY StoreAssumption DEF Number, SlotValues
<1>3. Counts(v, m)
  BY <1>1, <1>2 DEF Counts, Backed
<1>4. ASSUME m = n + 1 PROVE Counts(OneLess(Number(v)), m)
  <2>1. CASE Number(v) = NaN
    BY <2>1, StoreAssumption DEF OneLess, Counts, Number
  <2>2. CASE Number(v) # NaN
    <3>1. /\ OneLess(Number(v)) = Number(v) - 1 /\ Number(v) \in Int
          /\ Number(OneLess(Number(v))) = Number(v) - 1
      BY <1>2, <2>2, StoreAssumption DEF OneLess, Number
    <3>2. PICK given \in SlotInputs : Number(given) # NaN /\ Number(v) \in Number(given) - n .. Number(given)
      BY <2>2 DEF Counts, Backed
    <3>3. Number(given) \in Int /\ Number(v) - 1 \in Number(given) - m .. Number(given)
      BY <1>1, <1>4, <3>1, <3>2
    <3> QED
      BY <3>1, <3>2, <3>3 DEF Counts, Backed
  <2> QED
    BY <2>1, <2>2
<1> QED
  BY <1>3, <1>4

(* A counter a teacher gives is a bound whatever was booked.               *)
LEMMA GivenCounts ==
  ASSUME NEW v \in SlotInputs, NEW n \in Nat
  PROVE  Counts(v, n)
<1>1. Number(v) # NaN => Number(v) \in Int
  BY StoreAssumption DEF Number
<1> QED
  BY <1>1 DEF Counts, Backed

(* The table of bookings is finite before and after a step.                *)
LiveRows == {b \in Bookings : LiveBooking(b)}

RowsFinite == IsFiniteSet(LiveRows) /\ IsFiniteSet(LiveRows')

(* The number of bookings of a session, and one more.                      *)
LEMMA MadeNat ==
  ASSUME NEW F, IsFiniteSet(F), NEW S \in SUBSET F
  PROVE  /\ IsFiniteSet(S) /\ Cardinality(S) \in Nat
         /\ \A T \in SUBSET S : Cardinality(T) <= Cardinality(S)
         /\ \A b : b \notin S => Cardinality(S \cup {b}) = Cardinality(S) + 1
<1>1. IsFiniteSet(S)
  BY FS_Subset
<1> QED
  BY <1>1, FS_Subset, FS_CardinalityType, FS_AddElement

(* Bookings of sessions are rows of the table.                             *)
LEMMA MadeRows ==
  ASSUME NEW s \in Sessions
  PROVE  BookingsOf(s) \in SUBSET LiveRows /\ BookingsOf(s)' \in SUBSET LiveRows'
BY DEF BookingsOf, LiveRows

(* A step that takes no booking from a session that stays, and leaves each *)
(* counter, in the table or in a request, as it was or counted.            *)
LEMMA SlotsKept ==
  ASSUME RowsFinite, TypeOK, SlotsInv,
         \A s \in Sessions : createSession[s] # NULL =>
           /\ createSession'[s] # NULL
           /\ LiveSession(s)' => LiveSession(s) /\ BookingsOf(s) \subseteq BookingsOf(s)',
         \A s \in Sessions : LiveSession(s)' =>
           \/ Counts(createSession'[s].slots_available, Made(s)')
           \/ LiveSession(s) /\ createSession'[s].slots_available = createSession[s].slots_available,
         \A h \in Handlers :
           handler'[h] = handler[h] \/ handler'[h].pc \notin BookSteps \/ Counted(h)'
  PROVE  SlotsInv'
<1>1. \A s \in Sessions :
        /\ Made(s) \in Nat /\ Made(s)' \in Nat
        /\ createSession[s] # NULL /\ LiveSession(s)' => Made(s) <= Made(s)'
  <2> TAKE s \in Sessions
  <2>1. Made(s) \in Nat /\ Made(s)' \in Nat
    BY MadeNat, MadeRows DEF Made, RowsFinite
  <2>2. \A T \in SUBSET (BookingsOf(s)') : Cardinality(T) <= Cardinality(BookingsOf(s)')
    BY MadeNat, MadeRows DEF RowsFinite
  <2>3. ASSUME createSession[s] # NULL, LiveSession(s)' PROVE Made(s) <= Made(s)'
    BY <2>2, <2>3 DEF Made
  <2> QED
    BY <2>1, <2>3
<1>2. ASSUME NEW s \in Sessions, LiveSession(s)'
      PROVE  Counts(createSession'[s].slots_available, Made(s)')
  <2>1. CASE LiveSession(s) /\ createSession'[s].slots_available = createSession[s].slots_available
    <3>1. createSession[s] # NULL /\ createSession[s].slots_available \in SlotValues
      BY <2>1, LiveSessionRow DEF SessionRow, LiveSession
    <3>2. Counts(createSession[s].slots_available, Made(s))
      BY <2>1 DEF SlotsInv
    <3> QED
      BY <1>1, <1>2, <2>1, <3>1, <3>2, CountsBounds
  <2> QED
    BY <1>2, <2>1
<1>3. ASSUME NEW h \in Handlers PROVE Counted(h)'
  <2>1. CASE handler'[h] = handler[h] /\ handler[h].pc \in BookSteps
    <3>1. handler[h].session \in Sessions /\ handler[h].slots \in SlotValues
      BY <2>1, HandlerTypes DEF BookSteps, SessionSteps
    <3>2. PICK s \in Sessions : s = handler[h].session
      BY <3>1
    <3>3. OneLess(Number(handler[h].slots)) \in SlotValues
      BY <3>1, CountTypes
    <3>4. createSession[s] # NULL /\ createSession'[s] # NULL
      BY <2>1, <3>2 DEF SlotsInv, Counted
    <3>5. ASSUME LiveSession(s)', NEW v \in SlotValues, Counts(v, Made(s))
          PROVE  Counts(v, Made(s)')
      BY <1>1, <3>4, <3>5, CountsBounds
    <3>6. LiveSession(s)' => LiveSession(s)
      BY <3>4
    <3>7. /\ handler[h].pc \in {"book.find", "book.create"} /\ LiveSession(s)' =>
               Counts(handler[h].slots, Made(s)')
          /\ handler[h].pc = "book.count" /\ LiveSession(s)' =>
               Counts(OneLess(Number(handler[h].slots)), Made(s)')
      BY <3>1, <3>2, <3>3, <3>5, <3>6 DEF SlotsInv, Counted, At
    <3> QED
      BY <2>1, <3>2, <3>4, <3>7 DEF Counted, At
  <2>2. CASE handler'[h].pc \notin BookSteps
    BY <2>2 DEF Counted, At, BookSteps
  <2> QED
    BY <2>1, <2>2
<1> QED
  BY <1>2, <1>3 DEF SlotsInv

(* A step that writes neither sessions nor bookings.                       *)
LEMMA SlotsRead ==
  ASSUME RowsFinite, TypeOK, SlotsInv, UNCHANGED <<createSession, bookSession>>,
         \A h \in Handlers :
           handler'[h] = handler[h] \/ handler'[h].pc \notin BookSteps \/ Counted(h)'
  PROVE  SlotsInv'
BY SlotsKept DEF LiveSession, BookingsOf, LiveBooking

(* A step that edits bookings and leaves them their sessions.              *)
LEMMA SlotsBeside ==
  ASSUME RowsFinite, TypeOK, SlotsInv, UNCHANGED createSession,
         NEW rows, NEW columns, Edits(rows, columns), "create_session_id" \notin columns,
         \A h \in Handlers : handler'[h] = handler[h] \/ handler'[h].pc \notin BookSteps
  PROVE  SlotsInv'
<1>1. \A s \in Sessions : BookingsOf(s)' = BookingsOf(s)
  BY DEF BookingsOf, Edits, Keeps
<1> QED
  BY <1>1, SlotsKept DEF LiveSession

(* bookASession inserts a booking: the counter it holds is one too high.   *)
LEMMA SlotsBookCreate ==
  ASSUME RowsFinite, TypeOK, SlotsInv, NEW h \in Handlers, NEW b \in Bookings,
         BookCreate(h, b)
  PROVE  SlotsInv'
<1> DEFINE row == NewBooking(handler[h].user, handler[h].session, handler[h].date)
<1>1. PICK s \in Sessions : s = handler[h].session
  BY HandlerTypes DEF BookCreate, At, SessionSteps
<1>2. /\ LiveSession(s) /\ LiveSession(s)' /\ ~LiveBooking(b) /\ UNCHANGED createSession
      /\ row \in BookingRow /\ row.create_session_id = s
      /\ bookSession' = [bookSession EXCEPT ![b] = row]
  BY <1>1, NewRow DEF BookCreate, NewBooking, LiveSession
<1>3. /\ bookSession'[b] = row /\ LiveBooking(b)'
      /\ \A c \in Bookings : c # b => bookSession'[c] = bookSession[c]
  BY <1>2, RowAssumption DEF TypeOK, LiveBooking
<1>4. \A z \in Sessions : BookingsOf(z) \subseteq BookingsOf(z)'
  BY <1>2, <1>3 DEF BookingsOf, LiveBooking
<1>5. BookingsOf(s)' = BookingsOf(s) \cup {b} /\ b \notin BookingsOf(s)
  BY <1>2, <1>3 DEF BookingsOf, LiveBooking
<1>6. Made(s) \in Nat /\ Made(s)' = Made(s) + 1
  BY <1>5, MadeNat, MadeRows DEF Made, RowsFinite
<1>7. handler[h].slots \in SlotValues /\ Counts(handler[h].slots, Made(s))
  BY <1>1, <1>2, HandlerTypes DEF BookCreate, At, SlotsInv, Counted
<1>8. Counts(OneLess(Number(handler[h].slots)), Made(s)')
  BY <1>6, <1>7, CountsBounds
<1>9. /\ handler'[h].pc = "book.count" /\ handler'[h].session = s
      /\ handler'[h].slots = handler[h].slots
      /\ \A g \in Handlers : g # h => handler'[g] = handler[g]
  <2>1. handler[h] \in [pc: {"book.find", "book.create", "book.count"}, user: Students,
                        session: Sessions, date: Dates, slots: SlotValues]
    BY DEF BookCreate, At, TypeOK, HandlerState, Idle
  <2>2. handler' = [handler EXCEPT ![h].pc = "book.count"]
    BY DEF BookCreate, Goto
  <2> QED
    BY <1>1, <2>1, <2>2 DEF TypeOK
<1>10. Counted(h)'
  BY <1>2, <1>8, <1>9 DEF Counted, At, LiveSession
<1> QED
  BY <1>2, <1>4, <1>9, <1>10, SlotsKept DEF LiveSession

(* And writes it back less one, over whatever is there.                    *)
LEMMA SlotsBookCount ==
  ASSUME RowsFinite, TypeOK, SlotsInv, NEW h \in Handlers, BookCount(h)
  PROVE  SlotsInv'
<1> DEFINE v == OneLess(Number(handler[h].slots))
<1>1. PICK s \in Sessions : s = handler[h].session
  BY HandlerTypes DEF BookCount, At, SessionSteps
<1>2. /\ handler'[h] = Idle /\ \A g \in Handlers : g # h => handler'[g] = handler[g]
      /\ UNCHANGED bookSession
  BY DEF BookCount, Finish, TypeOK
<1>3. \A z \in Sessions : BookingsOf(z)' = BookingsOf(z) /\ Made(z)' = Made(z)
  BY <1>2 DEF BookingsOf, Made, LiveBooking
<1>4. CASE ~LiveSession(s)
  <2>1. UNCHANGED createSession
    BY <1>1, <1>4 DEF BookCount
  <2> QED
    BY <1>2, <2>1, SlotsRead DEF Idle, BookSteps
<1>5. CASE LiveSession(s)
  <2>1. /\ createSession[s] \in SessionRow
        /\ createSession' = [createSession EXCEPT ![s].slots_available = v]
    BY <1>1, <1>5, LiveSessionRow DEF BookCount
  <2>2. v \in SlotValues /\ Counts(v, Made(s))
    BY <1>1, <1>5, HandlerTypes, CountTypes DEF BookCount, At, SlotsInv, Counted
  <2> DEFINE row == [createSession[s] EXCEPT !.slots_available = v]
  <2>3. row \in SessionRow /\ row.slots_available = v
    BY <2>1, <2>2 DEF SessionRow
  <2>4. createSession' = [createSession EXCEPT ![s] = row]
    BY <2>1 DEF TypeOK
  <2>5. /\ createSession'[s] = row /\ \A z \in Sessions : z # s => createSession'[z] = createSession[z]
        /\ \A z \in Sessions : LiveSession(z)' <=> LiveSession(z)
    BY <1>5, <2>3, <2>4, OneSession
  <2>6. \A z \in Sessions : createSession[z] # NULL => createSession'[z] # NULL
    BY <1>5, <2>5 DEF LiveSession
  <2> HIDE DEF v, row
  <2> QED
    BY <1>2, <1>3, <2>2, <2>3, <2>5, <2>6, SlotsKept DEF Idle, BookSteps
<1> QED
  BY <1>4, <1>5

(* A teacher gives a counter with a new session, or with an edit.          *)
LEMMA SlotsGiven ==
  ASSUME RowsFinite, TypeOK, TypeOK', SlotsInv, NEW s \in Sessions,
         NEW given \in SlotInputs, UNCHANGED bookSession, LiveSession(s)',
         createSession'[s].slots_available = given,
         createSession[s] = NULL \/ LiveSession(s),
         \A z \in Sessions : z # s => createSession'[z] = createSession[z],
         \A h \in Handlers : handler'[h] = handler[h] \/ handler'[h].pc \notin BookSteps
  PROVE  SlotsInv'
<1>1. \A z \in Sessions : BookingsOf(z)' = BookingsOf(z)
  BY DEF BookingsOf, LiveBooking
<1>2. Made(s)' \in Nat
  BY <1>1, MadeNat, MadeRows DEF Made, RowsFinite
<1>3. Counts(createSession'[s].slots_available, Made(s)')
  BY <1>2, GivenCounts
<1> QED
  BY <1>1, <1>3, SlotsKept DEF LiveSession

(* Every step keeps the counters bounded.                                  *)
LEMMA SlotsStep ==
  ASSUME RowsFinite, TypeOK, TypeOK', References, SlotsInv, [Next]_vars
  PROVE  SlotsInv'
<1>1. ASSUME NEW h \in Handlers, NEW b \in Bookings, BookCreate(h, b) PROVE SlotsInv'
  BY <1>1, SlotsBookCreate
<1>2. ASSUME NEW h \in Handlers, BookCount(h) PROVE SlotsInv'
  BY <1>2, SlotsBookCount
<1>3. ASSUME NEW t \in Teachers, NEW s \in Sessions, Create(t, s) PROVE SlotsInv'
  <2>1. PICK slots \in SlotInputs, charge \in ChargeInputs, ds \in OfferedDates :
          createSession' = [createSession EXCEPT ![s] =
            [user_id |-> t, slots_available |-> slots, session_charge |-> charge,
             available_slots |-> ds, is_started |-> FALSE, is_completed |-> FALSE]]
    BY <1>3 DEF Create
  <2> DEFINE row == [user_id |-> t, slots_available |-> slots, session_charge |-> charge,
                     available_slots |-> ds, is_started |-> FALSE, is_completed |-> FALSE]
  <2>2. row \in SessionRow
    BY StoreAssumption DEF SessionRow, SlotValues, ChargeValues, OfferedDates
  <2>3. row # NULL /\ row # Deleted
    BY <2>2, RowAssumption
  <2>4. LiveSession(s)' /\ createSession'[s].slots_available = slots
    BY <2>1, <2>3 DEF TypeOK, LiveSession
  <2> QED
    BY <1>3, <2>1, <2>4, SlotsGiven DEF Create, TypeOK
<1>4. ASSUME NEW h \in Handlers, EditUpdate(h) PROVE SlotsInv'
  <2>1. PICK s \in Sessions : s = handler[h].session
    BY <1>4, HandlerTypes DEF EditUpdate, At, SessionSteps
  <2>2. /\ handler'[h] = Idle /\ \A g \in Handlers : g # h => handler'[g] = handler[g]
        /\ UNCHANGED bookSession /\ Idle.pc \notin BookSteps
    BY <1>4 DEF EditUpdate, Finish, TypeOK, Idle, BookSteps
  <2>3. CASE ~LiveSession(s)
    BY <1>4, <2>1, <2>2, <2>3, SlotsRead DEF EditUpdate
  <2>4. CASE LiveSession(s)
    <3>1. PICK row \in Bodies(createSession[s]) :
            createSession' = [createSession EXCEPT ![s] = row]
      BY <1>4, <2>1, <2>4 DEF EditUpdate
    <3>2. /\ createSession'[s] = row
          /\ \A z \in Sessions : z # s => createSession'[z] = createSession[z]
      BY <3>1 DEF TypeOK
    <3>3. \A z \in Sessions : LiveSession(z)' <=> LiveSession(z)
      BY <1>4, SessionEdits DEF SessionEdit
    <3>4. CASE row.slots_available = createSession[s].slots_available
      <4>1. \A z \in Sessions :
              /\ BookingsOf(z)' = BookingsOf(z)
              /\ createSession[z] # NULL => createSession'[z] # NULL
              /\ LiveSession(z)' => LiveSession(z)
                   /\ createSession'[z].slots_available = createSession[z].slots_available
        BY <2>2, <2>4, <3>2, <3>3, <3>4 DEF BookingsOf, LiveBooking, LiveSession
      <4> QED
        BY <2>2, <4>1, SlotsKept
    <3>5. CASE row.slots_available \in SlotInputs
      BY <2>2, <2>4, <3>2, <3>3, <3>5, SlotsGiven
    <3> QED
      BY <2>4, <3>4, <3>5, LiveSessionRow, BodyRow
  <2> QED
    BY <2>3, <2>4
<1>5. ASSUME NEW h \in Handlers, DeleteRow(h) PROVE SlotsInv'
  <2>1. PICK s \in Sessions : s = handler[h].session
    BY <1>5, HandlerTypes DEF DeleteRow, At, SessionSteps
  <2>2. /\ handler'[h] = Idle /\ \A g \in Handlers : g # h => handler'[g] = handler[g]
    BY <1>5 DEF DeleteRow, Finish, TypeOK
  <2>3. CASE ~LiveSession(s)
    BY <1>5, <2>1, <2>2, <2>3, SlotsRead DEF DeleteRow, Idle, BookSteps
  <2>4. CASE LiveSession(s)
    <3>1. createSession' = [createSession EXCEPT ![s] = Deleted]
      BY <1>5, <2>1, <2>4 DEF DeleteRow
    <3>2. createSession'[s] = Deleted /\ \A z \in Sessions : z # s => createSession'[z] = createSession[z]
      BY <3>1 DEF TypeOK
    <3>3. ASSUME NEW z \in Sessions, z # s PROVE BookingsOf(z) \subseteq BookingsOf(z)'
      <4>1. Edits(BookingsOf(s), {"create_session_id"})
        BY <1>5, <2>1, DeleteWrites
      <4>2. ASSUME NEW b \in BookingsOf(z) PROVE b \in BookingsOf(z)'
        <5>1. b \in Bookings /\ b \notin BookingsOf(s)
          BY <3>3 DEF BookingsOf
        <5>2. bookSession'[b] = bookSession[b]
          BY <4>1, <5>1 DEF Edits
        <5> QED
          BY <5>1, <5>2 DEF BookingsOf, LiveBooking
      <4> QED
        BY <4>2
    <3> QED
      BY <2>2, <3>2, <3>3, SlotsKept, RowAssumption DEF LiveSession, Idle, BookSteps
  <2> QED
    BY <2>3, <2>4
<1>6. ASSUME NEW h \in Handlers, StartSession(h) PROVE SlotsInv'
  <2>1. PICK s \in Sessions : s = handler[h].session
    BY <1>6, HandlerTypes DEF StartSession, At, SessionSteps
  <2>2. \A z \in Sessions : LiveSession(z) =>
          createSession'[z].slots_available = createSession[z].slots_available
    <3>1. CASE LiveSession(s)
      <4>1. createSession' = [createSession EXCEPT ![s].is_started = TRUE]
        BY <1>6, <2>1, <3>1, Zenon DEF StartSession
      <4> QED
        BY <3>1, <4>1, LiveSessionRow DEF SessionRow, TypeOK
    <3>2. CASE ~LiveSession(s)
      BY <1>6, <2>1, <3>2 DEF StartSession
    <3> QED
      BY <3>1, <3>2
  <2>3. \A z \in Sessions : LiveSession(z)' <=> LiveSession(z)
    BY <1>6, SessionEdits DEF SessionEdit
  <2>4. \A z \in Sessions : createSession[z] # NULL => createSession'[z] # NULL
    BY <1>6, <2>3, SessionEdits DEF SessionEdit, LiveSession
  <2>5. \A z \in Sessions : BookingsOf(z)' = BookingsOf(z)
    BY <1>6 DEF StartSession, BookingsOf, LiveBooking
  <2>6. \A g \in Handlers : handler'[g] = handler[g] \/ handler'[g].pc \notin BookSteps
    BY <1>6 DEF StartSession, Finish, TypeOK, Idle, BookSteps
  <2> QED
    BY <2>2, <2>3, <2>4, <2>5, <2>6, SlotsKept
<1>7. ASSUME CronSession PROVE SlotsInv'
  <2>1. PICK s \in Sessions : s = cron.mark
    BY <1>7 DEF CronSession, TypeOK
  <2>2. \A z \in Sessions : LiveSession(z) =>
          createSession'[z].slots_available = createSession[z].slots_available
    <3>1. CASE LiveSession(s)
      <4>1. createSession' = [createSession EXCEPT ![s].is_completed = TRUE]
        BY <1>7, <2>1, <3>1, Zenon DEF CronSession
      <4> QED
        BY <3>1, <4>1, LiveSessionRow DEF SessionRow, TypeOK
    <3>2. CASE ~LiveSession(s)
      BY <1>7, <2>1, <3>2 DEF CronSession
    <3> QED
      BY <3>1, <3>2
  <2>3. \A z \in Sessions : LiveSession(z)' <=> LiveSession(z)
    BY <1>7, SessionEdits DEF SessionEdit
  <2>4. \A z \in Sessions : createSession[z] # NULL => createSession'[z] # NULL
    BY <1>7, <2>3, SessionEdits DEF SessionEdit, LiveSession
  <2>5. UNCHANGED <<bookSession, handler>>
    BY <1>7 DEF CronSession
  <2>6. \A z \in Sessions : BookingsOf(z)' = BookingsOf(z)
    BY <2>5 DEF BookingsOf, LiveBooking
  <2> QED
    BY <2>2, <2>3, <2>4, <2>5, <2>6, SlotsKept
<1>8. ASSUME NEW h \in Handlers, JoinUpdate(h) \/ CancelUpdate(h) \/ RequestFlag(h)
      PROVE  SlotsInv'
  <2>1. UNCHANGED createSession /\ handler' = [handler EXCEPT ![h] = Idle]
    BY <1>8 DEF JoinUpdate, CancelUpdate, RequestFlag, Finish
  <2>2. \A g \in Handlers : handler'[g] = handler[g] \/ handler'[g].pc \notin BookSteps
    BY <2>1 DEF TypeOK, Idle, BookSteps
  <2>3. CASE JoinUpdate(h)
    BY <2>1, <2>2, <2>3, JoinWrites, SlotsBeside
  <2>4. CASE CancelUpdate(h)
    BY <2>1, <2>2, <2>4, CancelWrites, SlotsBeside
  <2>5. CASE RequestFlag(h)
    BY <2>1, <2>2, <2>5, FlagWrites, SlotsBeside
  <2> QED
    BY <1>8, <2>3, <2>4, <2>5
<1>9. ASSUME NEW h \in Handlers, StartBookings(h) PROVE SlotsInv'
  <2>1. \A g \in Handlers : handler'[g] = handler[g] \/ handler'[g].pc \notin BookSteps
    BY <1>9 DEF StartBookings, At, Goto, TypeOK, HandlerState, Idle, BookSteps
  <2> QED
    BY <1>9, <2>1, StartWrites, SlotsBeside DEF StartBookings
<1>10. ASSUME NEW b \in Bookings, NEW z \in Sessions \cup {NULL}, CronBooking(b, z) PROVE SlotsInv'
  BY <1>10, CronWrites, SlotsBeside DEF CronBooking
<1>11. ASSUME NEW e \in StripeEvent, WebhookSucceeded(e) PROVE SlotsInv'
  BY <1>11, WebhookWrites, SlotsBeside DEF WebhookSucceeded
<1>12. ASSUME NEW h \in Handlers, NEW u \in Students, NEW s \in Sessions, NEW d \in Dates,
              Book(h, u, s, d)
       PROVE  SlotsInv'
  <2>1. /\ handler' = [handler EXCEPT ![h] =
             [pc |-> "book.find", user |-> u, session |-> s, date |-> d,
              slots |-> createSession[s].slots_available]]
        /\ UNCHANGED <<createSession, bookSession>> /\ LiveSession(s)
    BY <1>12 DEF Book, Arrive, allButHandler
  <2>2. Made(s)' = Made(s) /\ LiveSession(s)' = LiveSession(s)
    BY <2>1 DEF Made, BookingsOf, LiveBooking, LiveSession
  <2>3. /\ handler'[h].pc = "book.find" /\ handler'[h].session = s
        /\ handler'[h].slots = createSession[s].slots_available
        /\ \A g \in Handlers : g # h => handler'[g] = handler[g]
    BY <2>1 DEF TypeOK
  <2>4. Counted(h)'
    BY <2>1, <2>2, <2>3 DEF Counted, At, SlotsInv, LiveSession
  <2> QED
    BY <2>1, <2>3, <2>4, SlotsRead
<1>13. ASSUME NEW h \in Handlers, BookFind(h) PROVE SlotsInv'
  <2>1. UNCHANGED <<createSession, bookSession>>
    BY <1>13 DEF BookFind, allButHandler
  <2>2. CASE handler' = [handler EXCEPT ![h] = Idle]
    BY <2>1, <2>2, SlotsRead DEF TypeOK, Idle, BookSteps
  <2>3. CASE handler' = [handler EXCEPT ![h].pc = "book.create"]
    <3>1. handler[h] \in [pc: {"book.find", "book.create", "book.count"}, user: Students,
                          session: Sessions, date: Dates, slots: SlotValues]
          /\ handler[h].pc = "book.find"
      BY <1>13 DEF BookFind, At, TypeOK, HandlerState, Idle
    <3>2. /\ handler'[h].pc = "book.create" /\ handler'[h].session = handler[h].session
          /\ handler'[h].slots = handler[h].slots
          /\ \A g \in Handlers : g # h => handler'[g] = handler[g]
      BY <2>3, <3>1 DEF TypeOK
    <3>3. Counted(h)'
      BY <2>1, <3>1, <3>2
         DEF Counted, At, SlotsInv, BookSteps, LiveSession, Made, BookingsOf, LiveBooking
    <3> QED
      BY <2>1, <3>2, <3>3, SlotsRead
  <2> QED
    BY <1>13, <2>2, <2>3 DEF BookFind, Goto, Finish
<1>14. ASSUME NEW h \in Handlers, NEW b \in Bookings,
              Join(h, b) \/ Cancel(h, b) \/ RequestReschedule(h, b)
       PROVE  SlotsInv'
  <2>1. \A g \in Handlers : handler'[g] = handler[g] \/ handler'[g].pc \notin BookSteps
    BY <1>14 DEF Join, Cancel, RequestReschedule, Arrive, TypeOK, BookSteps
  <2> QED
    BY <1>14, <2>1, SlotsRead DEF Join, Cancel, RequestReschedule, allButHandler
<1>15. ASSUME NEW h \in Handlers, RequestFind(h) \/ RequestCreate(h) PROVE SlotsInv'
  <2>1. \A g \in Handlers : handler'[g] = handler[g] \/ handler'[g].pc \notin BookSteps
    BY <1>15 DEF RequestFind, RequestCreate, At, Goto, Finish, TypeOK, HandlerState, Idle, BookSteps
  <2> QED
    BY <1>15, <2>1, SlotsRead DEF RequestFind, RequestCreate, allButHandler
<1>16. ASSUME NEW h \in Handlers, NEW t \in Teachers, NEW s \in Sessions,
              Edit(h, t, s) \/ Start(h, t, s) \/ Remove(h, t, s)
       PROVE  SlotsInv'
  <2>1. \A g \in Handlers : handler'[g] = handler[g] \/ handler'[g].pc \notin BookSteps
    BY <1>16 DEF Edit, Start, Remove, Arrive, TypeOK, BookSteps
  <2> QED
    BY <1>16, <2>1, SlotsRead DEF Edit, Start, Remove, allButHandler
<1>17. ASSUME NEW h \in Handlers, NEW s \in Sessions, AdminDelete(h, s) PROVE SlotsInv'
  BY <1>17, SlotsRead DEF AdminDelete, Arrive, TypeOK, BookSteps, allButHandler
<1>18. ASSUME NEW h \in Handlers, NEW t \in Teachers, NEW b \in Bookings,
              NEW a \in {"accept.update", "reject.update"}, HandleRequest(h, t, b, a)
       PROVE  SlotsInv'
  BY <1>18, SlotsRead DEF HandleRequest, Arrive, TypeOK, BookSteps, allButHandler
<1>19. ASSUME NEW h \in Handlers,
              BookOrphan(h) \/ AcceptUpdate(h) \/ RejectUpdate(h) \/ StatementFails(h)
       PROVE  SlotsInv'
  <2>1. UNCHANGED <<createSession, bookSession>> /\ handler' = [handler EXCEPT ![h] = Idle]
    BY <1>19 DEF BookOrphan, AcceptUpdate, RejectUpdate, StatementFails, Finish, allButHandler
  <2> QED
    BY <2>1, SlotsRead DEF TypeOK, Idle, BookSteps
<1>20. ASSUME NEW h \in Handlers, NEW u \in Students, NEW b \in Bookings, Pay(h, u, b)
       PROVE  SlotsInv'
  BY <1>20, SlotsRead DEF Pay, Arrive, TypeOK, BookSteps, allButHandler
<1>21. ASSUME NEW h \in Handlers, NEW i \in Intents, PayIntent(h, i) PROVE SlotsInv'
  BY <1>21, SlotsRead DEF PayIntent, Finish, TypeOK, Idle, BookSteps
<1>22. CASE Crash
  BY <1>22, SlotsRead DEF Crash, Idle, BookSteps
<1>23. CASE \/ CronFind \/ CronFails \/ Tick \/ UNCHANGED vars
            \/ \E i \in Intents, o \in {"succeeded", "payment_failed", "canceled"} : Settled(i, o)
            \/ \E e \in StripeEvent : WebhookNotSucceeded(e) \/ WebhookFails(e)
  BY <1>23, SlotsRead DEF CronFind, CronFails, Tick, vars, Settled, WebhookNotSucceeded,
     WebhookFails
<1> QED
  BY <1>1, <1>2, <1>3, <1>4, <1>5, <1>6, <1>7, <1>8, <1>9, <1>10, <1>11, <1>12, <1>13, <1>14,
     <1>15, <1>16, <1>17, <1>18, <1>19, <1>20, <1>21, <1>22, <1>23
     DEF Next, StudentsNext, TeachersNext, SchedulerNext, CronStep, StripeNext
=============================================================================
