--------------------------- MODULE TeacherService ---------------------------
(***************************************************************************)
(* modules/teacher/teacher.service.ts: a teacher publishes, edits, starts  *)
(* and removes sessions and decides reschedule requests; and deleteSession *)
(* of modules/admin/sessions/sessions.service.ts.                          *)
(*                                                                         *)
(* Teachers are accounts of type teacher whose application is not pending; *)
(* the type of an account never changes once it is decided.                *)
(***************************************************************************)
EXTENDS Store

(* create: an unused id; no offered date lies in the past.                 *)
OfferedDates == {ds \in SUBSET Dates : ds # {} /\ \A d \in ds : d >= clock}

Create(t, s) ==
  /\ createSession[s] = NULL
  /\ \E slots \in SlotInputs, charge \in ChargeInputs, ds \in OfferedDates :
       createSession' = [createSession EXCEPT ![s] =
         [user_id |-> t, slots_available |-> slots, session_charge |-> charge,
          available_slots |-> ds, is_started |-> FALSE, is_completed |-> FALSE]]
  /\ UNCHANGED <<process, bookSession, reschedule, stripe, handler, cron>>

----------------------------------------------------------------------------
(* update: every column is optional; unlike create it does not look at the *)
(* dates.                                                                  *)

Owns(t, s) == LiveSession(s) /\ createSession[s].user_id = t

Edit(h, t, s) ==
  /\ Owns(t, s)
  /\ Arrive(h, [pc |-> "edit.update", session |-> s])
  /\ UNCHANGED allButHandler

(* What an update may leave in a column: one of the values a body may give *)
(* it, or what was there.                                                  *)
Written(row, column, values) ==
  {row[column]} \cup IF column \in BodyColumns THEN values ELSE {}

Bodies(row) ==
  [user_id: Written(row, "user_id", Teachers),
   slots_available: Written(row, "slots_available", SlotInputs),
   session_charge: Written(row, "session_charge", ChargeInputs),
   available_slots: Written(row, "available_slots", SUBSET Dates),
   is_started: Written(row, "is_started", BOOLEAN),
   is_completed: Written(row, "is_completed", BOOLEAN)]

EditUpdate(h) ==
  LET s == handler[h].session IN
  /\ At(h, "edit.update")
  /\ IF LiveSession(s)
       THEN \E row \in Bodies(createSession[s]) :
              createSession' = [createSession EXCEPT ![s] = row]
       ELSE UNCHANGED createSession
  /\ Finish(h)
  /\ UNCHANGED <<process, bookSession, reschedule, stripe, cron>>

----------------------------------------------------------------------------
(* startASession: stamp the bookings there are, then mark the session.     *)

Start(h, t, s) ==
  /\ Owns(t, s)
  /\ ~createSession[s].is_started
  /\ Arrive(h, [pc |-> "start.bookings", session |-> s])
  /\ UNCHANGED allButHandler

StartBookingsOnly(h) ==  \* mutant: never marks the session
  /\ At(h, "start.bookings")
  /\ bookSession' = [b \in Bookings |->
       IF b \in BookingsOf(handler[h].session)
         THEN [bookSession[b] EXCEPT !.started_at = clock] ELSE bookSession[b]]
  /\ Finish(h)
  /\ UNCHANGED <<process, createSession, reschedule, stripe, cron>>

StartBookings(h) ==
  /\ At(h, "start.bookings")
  /\ bookSession' = [b \in Bookings |->
       IF b \in BookingsOf(handler[h].session)
         THEN [bookSession[b] EXCEPT !.started_at = clock] ELSE bookSession[b]]
  /\ Goto(h, "start.session")
  /\ UNCHANGED <<process, createSession, reschedule, stripe, cron>>

(* updateMany: no error when the session is gone.                          *)
StartSession(h) ==
  LET s == handler[h].session IN
  /\ At(h, "start.session")
  /\ createSession' = IF LiveSession(s)
       THEN [createSession EXCEPT ![s].is_started = TRUE] ELSE createSession
  /\ Finish(h)
  /\ UNCHANGED <<process, bookSession, reschedule, stripe, cron>>

----------------------------------------------------------------------------
(* remove, and deleteSession of the admin who need not own the session.    *)
(* The foreign key of the session's bookings is ON DELETE SET NULL.        *)

Remove(h, t, s) ==
  /\ Owns(t, s)
  /\ Arrive(h, [pc |-> "delete.row", session |-> s])
  /\ UNCHANGED allButHandler

AdminDelete(h, s) ==
  /\ LiveSession(s)
  /\ Arrive(h, [pc |-> "delete.row", session |-> s])
  /\ UNCHANGED allButHandler

DeleteRowKeepsReferences(h) ==  \* mutant: no ON DELETE SET NULL
  LET s == handler[h].session IN
  /\ At(h, "delete.row")
  /\ createSession' = IF LiveSession(s)
       THEN [createSession EXCEPT ![s] = Deleted] ELSE createSession
  /\ Finish(h)
  /\ UNCHANGED <<process, bookSession, reschedule, stripe, cron>>

DeleteRow(h) ==
  LET s == handler[h].session IN
  /\ At(h, "delete.row")
  /\ IF LiveSession(s)
       THEN /\ createSession' = [createSession EXCEPT ![s] = Deleted]
            /\ bookSession' = [b \in Bookings |->
                 IF b \in BookingsOf(s)
                   THEN [bookSession[b] EXCEPT !.create_session_id = NULL]
                   ELSE bookSession[b]]
       ELSE UNCHANGED <<createSession, bookSession>>
  /\ Finish(h)
  /\ UNCHANGED <<process, reschedule, stripe, cron>>

----------------------------------------------------------------------------
(* handleRequest: the row, and its booking if the caller owns the session, *)
(* are read at once; the caller's type is looked up; the decision is       *)
(* written by id.                                                          *)

NotAccepted(b) == reschedule[b] \in {"pending", "rejected"}  \* mutant

Undecided(b) == reschedule[b] = "pending"

HandleRequest(h, t, b, action) ==
  /\ Undecided(b)
  /\ bookSession[b].create_session_id # NULL
  /\ Owns(t, bookSession[b].create_session_id)
  /\ Arrive(h, [pc |-> action, booking |-> b])
  /\ UNCHANGED allButHandler

AcceptUpdate(h) ==
  /\ At(h, "accept.update")
  /\ reschedule' = [reschedule EXCEPT ![handler[h].booking] = "accepted"]
  /\ Finish(h)
  /\ UNCHANGED <<process, createSession, bookSession, stripe, cron>>

RejectUpdate(h) ==
  /\ At(h, "reject.update")
  /\ reschedule' = [reschedule EXCEPT ![handler[h].booking] = "rejected"]
  /\ Finish(h)
  /\ UNCHANGED <<process, createSession, bookSession, stripe, cron>>

----------------------------------------------------------------------------
TeachersNext ==
  \/ \E t \in Teachers, s \in Sessions : Create(t, s)
  \/ \E h \in Handlers :
       \/ \E t \in Teachers, s \in Sessions : Edit(h, t, s) \/ Start(h, t, s) \/ Remove(h, t, s)
       \/ \E s \in Sessions : AdminDelete(h, s)
       \/ \E t \in Teachers, b \in Bookings, a \in {"accept.update", "reject.update"} :
            HandleRequest(h, t, b, a)
       \/ EditUpdate(h) \/ StartBookings(h) \/ StartSession(h) \/ DeleteRow(h)
       \/ AcceptUpdate(h) \/ RejectUpdate(h)
=============================================================================
