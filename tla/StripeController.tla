-------------------------- MODULE StripeController --------------------------
(***************************************************************************)
(* modules/payment/stripe/stripe.controller.ts: a student pays for a       *)
(* booking through a Stripe payment intent, and Stripe reports to the      *)
(* webhook.                                                                *)
(*                                                                         *)
(* Stripe delivers an event at least once and in no particular order: an   *)
(* event stays in the set event until a delivery is answered, and may stay *)
(* there after that.  The webhook's calls to TransactionRepository update  *)
(* payment_transactions by reference_number; no code inserts a row there,  *)
(* so they change nothing.                                                 *)
(***************************************************************************)
EXTENDS Store

(* pay: the first booking of the student that is not paid, in whatever     *)
(* order the database returned them; an invalid price is refused.          *)
Payable(u) == {b \in Bookings : /\ LiveBooking(b)
                                /\ bookSession[b].user_id = u
                                /\ bookSession[b].payment_status # "paid"}

Charge(b) ==
  LET s == bookSession[b].create_session_id
  IN  IF s = NULL THEN NaN ELSE createSession[s].session_charge

ValidAmount(amount) == amount # NaN /\ amount > 0

Pay(h, u, b) ==
  /\ b \in Payable(u)
  /\ ValidAmount(Charge(b))
  /\ Arrive(h, [pc |-> "pay.intent", booking |-> b])
  /\ UNCHANGED allButHandler

PayIntent(h, i) ==
  /\ At(h, "pay.intent")
  /\ intent[i] = NULL
  /\ intent' = [intent EXCEPT ![i] = [booking |-> handler[h].booking, status |-> "open"]]
  /\ Finish(h)
  /\ UNCHANGED <<process, createSession, bookSession, reschedule, event, cron>>

----------------------------------------------------------------------------
(* Stripe itself: an attempt on an open intent succeeds or fails, or the   *)
(* intent is canceled; each outcome is an event.  A failed attempt leaves  *)
(* the intent open for another.                                            *)

Settled(i, outcome) ==
  /\ intent[i] # NULL
  /\ intent[i].status = "open"
  /\ intent' = IF outcome = "payment_failed" THEN intent
                 ELSE [intent EXCEPT ![i].status = outcome]
  /\ event' = event \cup {[type |-> outcome, intent |-> i]}
  /\ UNCHANGED <<process, createSession, bookSession, reschedule, handler, cron>>

----------------------------------------------------------------------------
(* handleWebhook.  Any outcome is answered with a 2xx, so an event handled *)
(* or failed need not come again; a duplicate may.                         *)

Answered(e) == event' = event \/ event' = event \ {e}

WebhookSkipsCancelled(e) ==  \* mutant: ignores the charge of a cancelled booking
  /\ e \in event /\ e.type = "succeeded"
  /\ bookSession' = IF bookSession[intent[e.intent].booking].is_cancelled THEN bookSession
       ELSE [bookSession EXCEPT ![intent[e.intent].booking].payment_status = "paid"]
  /\ Answered(e)
  /\ UNCHANGED <<process, createSession, reschedule, intent, handler, cron>>

WebhookSucceeded(e) ==
  /\ e \in event /\ e.type = "succeeded"
  /\ bookSession' = [bookSession EXCEPT ![intent[e.intent].booking].payment_status = "paid"]
  /\ Answered(e)
  /\ UNCHANGED <<process, createSession, reschedule, intent, handler, cron>>

WebhookFallsThrough(e) ==  \* mutant: a break is missing in the switch
  /\ e \in event /\ e.type # "succeeded"
  /\ bookSession' = [bookSession EXCEPT ![intent[e.intent].booking].payment_status = "paid"]
  /\ event' = event \ {e}
  /\ UNCHANGED <<process, createSession, reschedule, intent, handler, cron>>

WebhookNotSucceeded(e) ==
  /\ e \in event /\ e.type # "succeeded"
  /\ event' = event \ {e}
  /\ UNCHANGED <<process, createSession, bookSession, reschedule, intent, handler, cron>>

(* An error is caught and answered with received: false, again a 2xx.      *)
WebhookFails(e) ==
  /\ faults < MaxFaults
  /\ e \in event
  /\ faults' = faults + 1
  /\ event' = event \ {e}
  /\ UNCHANGED <<clock, createSession, bookSession, reschedule, intent, handler, cron>>

StripeNext ==
  \/ \E h \in Handlers, u \in Students, b \in Bookings : Pay(h, u, b)
  \/ \E h \in Handlers, i \in Intents : PayIntent(h, i)
  \/ \E i \in Intents, o \in {"succeeded", "payment_failed", "canceled"} : Settled(i, o)
  \/ \E e \in StripeEvent : WebhookSucceeded(e) \/ WebhookNotSucceeded(e) \/ WebhookFails(e)
=============================================================================
