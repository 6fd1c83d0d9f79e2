----------------------------- MODULE Scheduler -----------------------------
(***************************************************************************)
(* SchedulerService.ts: every ten minutes the joined bookings that lie an  *)
(* hour back are marked completed, one after the other, and with each its  *)
(* session.                                                                *)
(*                                                                         *)
(* cron.todo holds the selected bookings not yet updated with the session  *)
(* each had when it was selected; cron.mark is the session whose booking   *)
(* has just been updated and which is itself updated next.                 *)
(***************************************************************************)
EXTENDS Store

DueAtStart(b) ==  \* mutant: an hour too early
  /\ LiveBooking(b)
  /\ bookSession[b].is_joined
  /\ ~bookSession[b].is_completed
  /\ bookSession[b].session_date <= clock

DueUnjoined(b) ==  \* mutant: no look at is_joined
  /\ LiveBooking(b)
  /\ ~bookSession[b].is_completed
  /\ bookSession[b].session_date <= clock - OneHour

DueOnTheHour(b) ==  \* mutant: = for <=
  /\ LiveBooking(b)
  /\ bookSession[b].is_joined
  /\ ~bookSession[b].is_completed
  /\ bookSession[b].session_date = clock - OneHour

Due(b) ==
  /\ LiveBooking(b)
  /\ bookSession[b].is_joined
  /\ ~bookSession[b].is_completed
  /\ bookSession[b].session_date <= clock - OneHour

CronFindSessionsFirst ==  \* mutant: updates a session before its booking
  /\ cron = CronIdle
  /\ \E b \in Bookings :
       /\ Due(b)
       /\ cron' = [todo |-> {<<c, bookSession[c].create_session_id>> : c \in {c \in Bookings : Due(c)}},
                   mark |-> bookSession[b].create_session_id]
  /\ UNCHANGED <<process, createSession, bookSession, reschedule, stripe, handler>>

CronFind ==
  /\ cron = CronIdle
  /\ \E b \in Bookings : Due(b)
  /\ cron' = [todo |-> {<<b, bookSession[b].create_session_id>> : b \in {c \in Bookings : Due(c)}},
              mark |-> NULL]
  /\ UNCHANGED <<process, createSession, bookSession, reschedule, stripe, handler>>

CronBookingKeepsStatus(b, s) ==  \* mutant: sets the flag and forgets the status text
  /\ cron.mark = NULL
  /\ <<b, s>> \in cron.todo
  /\ bookSession' = [bookSession EXCEPT ![b].is_completed = TRUE]
  /\ cron' = [todo |-> cron.todo \ {<<b, s>>}, mark |-> s]
  /\ UNCHANGED <<process, createSession, reschedule, stripe, handler>>

CronBooking(b, s) ==
  /\ cron.mark = NULL
  /\ <<b, s>> \in cron.todo
  /\ bookSession' = [bookSession EXCEPT ![b].is_completed = TRUE, ![b].status = "completed"]
  /\ cron' = [todo |-> cron.todo \ {<<b, s>>}, mark |-> s]
  /\ UNCHANGED <<process, createSession, reschedule, stripe, handler>>

CronSessionOnlyLast ==  \* mutant: marks the session of the last booking only
  LET s == cron.mark IN
  /\ s # NULL
  /\ createSession' = IF LiveSession(s) /\ cron.todo = {}
       THEN [createSession EXCEPT ![s].is_completed = TRUE] ELSE createSession
  /\ cron' = [cron EXCEPT !.mark = NULL]
  /\ UNCHANGED <<process, bookSession, reschedule, stripe, handler>>

(* Updating a session that is gone throws, which ends the batch.           *)
CronSession ==
  LET s == cron.mark IN
  /\ s # NULL
  /\ IF LiveSession(s)
       THEN /\ createSession' = [createSession EXCEPT ![s].is_completed = TRUE]
            /\ cron' = [cron EXCEPT !.mark = NULL]
       ELSE cron' = CronIdle /\ UNCHANGED createSession
  /\ UNCHANGED <<process, bookSession, reschedule, stripe, handler>>

(* A statement of the batch fails: the batch ends.                         *)
CronFails ==
  /\ faults < MaxFaults
  /\ cron # CronIdle
  /\ faults' = faults + 1
  /\ cron' = CronIdle
  /\ UNCHANGED <<clock, createSession, bookSession, reschedule, stripe, handler>>

CronStep ==
  CronSession \/ \E b \in Bookings, s \in Sessions \cup {NULL} : CronBooking(b, s)

SchedulerNext == CronFind \/ CronStep \/ CronFails
=============================================================================
