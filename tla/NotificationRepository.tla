----------------------- MODULE NotificationRepository -----------------------
(***************************************************************************)
(* common/repository/notification/notification.repository.ts, called by    *)
(* most services and mostly without awaiting it, and the admin's removal   *)
(* of notifications (modules/admin/notification/notification.service.ts).  *)
(*                                                                         *)
(* A notification refers to an event, which carries its type and text.     *)
(* Calls of a type in PlainTypes (session_booking) pass no text, and an    *)
(* undefined text in a Prisma filter matches every text.                   *)
(***************************************************************************)
EXTENDS Naturals, FiniteSets

CONSTANTS
  Events,         \* ids of notification_events rows
  Notifications,  \* ids of notifications rows
  Users,
  Calls,          \* how many calls are in progress at once
  TextTypes, PlainTypes, Texts,
  MaxFaults,      \* bound: crashes and failed statements
  NULL

Kinds == [type: TextTypes, text: Texts] \cup [type: PlainTypes, text: {NULL}]

ASSUME NotificationAssumption ==
  /\ TextTypes \cap PlainTypes = {}
  /\ NULL \notin Texts \cup Users \cup Kinds \cup Events
  /\ MaxFaults \in Nat

VARIABLES
  event,         \* table notification_events
  notification,  \* table notifications
  call,          \* createNotification calls in progress
  overlap,       \* history: a call was made during another
  faults

nvars == <<event, notification, call, overlap, faults>>

Idle == [pc |-> "idle"]

(* asked (history): what createNotification was asked to tell.             *)
NotificationRow == [event: Events, receiver: Users \cup {NULL}, asked: Kinds]

TypeOK ==
  /\ event \in [Events -> Kinds \cup {NULL}]
  /\ notification \in [Notifications -> NotificationRow \cup {NULL}]
  /\ call \in [Calls -> {Idle}
       \cup [pc: {"find", "create"}, kind: Kinds, receiver: Users \cup {NULL}]
       \cup [pc: {"notify"}, kind: Kinds, receiver: Users \cup {NULL}, event: Events]]
  /\ overlap \in BOOLEAN
  /\ faults \in 0..MaxFaults

Init ==
  /\ event = [e \in Events |-> NULL]
  /\ notification = [n \in Notifications |-> NULL]
  /\ call = [c \in Calls |-> Idle]
  /\ overlap = FALSE
  /\ faults = 0

----------------------------------------------------------------------------
(* createNotification: find the event or create it, then insert the        *)
(* notification that refers to it.                                         *)

Create(c, k, u) ==
  /\ call[c] = Idle
  /\ call' = [call EXCEPT ![c] = [pc |-> "find", kind |-> k, receiver |-> u]]
  /\ overlap' = (overlap \/ \E d \in Calls : call[d] # Idle)
  /\ UNCHANGED <<event, notification, faults>>

Matches(e, k) ==
  event[e] # NULL /\ event[e].type = k.type /\ (k.text = NULL \/ event[e].text = k.text)

NotifyNext(c, e) ==
  call' = [call EXCEPT ![c] = [pc |-> "notify", kind |-> call[c].kind,
                               receiver |-> call[c].receiver, event |-> e]]

FindEventAlwaysNew(c) ==  \* mutant: never reuses an event
  /\ call[c].pc = "find"
  /\ call' = [call EXCEPT ![c].pc = "create"]
  /\ UNCHANGED <<event, notification, overlap, faults>>

FindEvent(c) ==
  /\ call[c].pc = "find"
  /\ IF \E e \in Events : Matches(e, call[c].kind)
       THEN \E e \in Events : Matches(e, call[c].kind) /\ NotifyNext(c, e)
       ELSE call' = [call EXCEPT ![c].pc = "create"]
  /\ UNCHANGED <<event, notification, overlap, faults>>

CreateEvent(c, e) ==
  /\ call[c].pc = "create"
  /\ event[e] = NULL
  /\ event' = [event EXCEPT ![e] = call[c].kind]
  /\ NotifyNext(c, e)
  /\ UNCHANGED <<notification, overlap, faults>>

NotifyUnlinked(c, n) ==  \* mutant: inserts the notification without its event
  /\ call[c].pc = "notify"
  /\ notification[n] = NULL
  /\ notification' = [notification EXCEPT ![n] = [event |-> NULL, receiver |-> call[c].receiver, asked |-> call[c].kind]]
  /\ call' = [call EXCEPT ![c] = Idle]
  /\ UNCHANGED <<event, overlap, faults>>

Notify(c, n) ==
  /\ call[c].pc = "notify"
  /\ notification[n] = NULL
  /\ notification' = [notification EXCEPT ![n] =
       [event |-> call[c].event, receiver |-> call[c].receiver, asked |-> call[c].kind]]
  /\ call' = [call EXCEPT ![c] = Idle]
  /\ UNCHANGED <<event, overlap, faults>>

(* A statement of an awaited call fails and ends the call; a call nobody   *)
(* awaits takes the process down, and with it every other call.            *)
Fails ==
  /\ faults < MaxFaults
  /\ faults' = faults + 1
  /\ \E cs \in {Calls} \cup {{c} : c \in Calls} :
       call' = [c \in Calls |-> IF c \in cs THEN Idle ELSE call[c]]
  /\ UNCHANGED <<event, notification, overlap>>

----------------------------------------------------------------------------
(* What findAll shows an administrator.  (Anybody else gets everything.)   *)
Inbox(u) ==
  {n \in Notifications : notification[n] # NULL /\ notification[n].receiver \in {u, NULL}}

(* remove and removeAll: the rows read before are deleted by id, or by the *)
(* same filter again; events are never removed.                            *)

Remove(n) ==
  /\ notification[n] # NULL
  /\ notification' = [notification EXCEPT ![n] = NULL]
  /\ UNCHANGED <<event, call, overlap, faults>>

RemoveAll(u) ==
  /\ notification' = [n \in Notifications |-> IF n \in Inbox(u) THEN NULL ELSE notification[n]]
  /\ UNCHANGED <<event, call, overlap, faults>>

Next ==
  \/ \E c \in Calls :
       \/ \E k \in Kinds, u \in Users \cup {NULL} : Create(c, k, u)
       \/ FindEvent(c)
       \/ \E e \in Events : CreateEvent(c, e)
       \/ \E n \in Notifications : Notify(c, n)
  \/ Fails
  \/ \E n \in Notifications : Remove(n)
  \/ \E u \in Users : RemoveAll(u)

Spec == Init /\ [][Next]_nvars

----------------------------------------------------------------------------
(* What a notification tells, the type and text of its event, is what its  *)
(* call was asked to tell, although the event was found or made by another *)
(* statement, and is shared by every call that asks for the same.          *)
LinkedAsAsked ==
  \A n \in Notifications : notification[n] # NULL =>
    \E e \in Events : e = notification[n].event /\ event[e] = notification[n].asked

(* 'Find or create the notification event to avoid duplicates': an event   *)
(* exists once as long as no two calls have overlapped.  After that there  *)
(* are as many as calls were about to make when there was none: whoever    *)
(* looks later makes none, so that those made and those to come are never  *)
(* more than calls.                                                        *)
EventsUnique ==
  \A k \in Kinds :
    Cardinality({e \in Events : event[e] = k})
        + Cardinality({c \in Calls : call[c].pc = "create" /\ call[c].kind = k})
      <= IF overlap THEN Cardinality(Calls) ELSE 1
=============================================================================
