--------------------------- MODULE SupportProofs ---------------------------
(***************************************************************************)
(* The theorems about Support, for any number of administrators, calls,    *)
(* messages and questions: a notification tells what it was asked to tell, *)
(* an event exists once or as often as calls can race to make it, every    *)
(* administrator is told once of a ticket or a message of the              *)
(* administration's form, and a batch of questions that nobody interrupts  *)
(* is what the page shows.                                                 *)
(***************************************************************************)
EXTENDS Support, Integers, FiniteSetTheorems, TLAPS

CallState ==
  {Idle} \cup [pc: {"find", "create"}, kind: Kinds, receiver: Users \cup {NULL}]
         \cup [pc: {"notify"}, kind: Kinds, receiver: Users \cup {NULL}, event: Events]

CallsType ==
  /\ event \in [Events -> Kinds \cup {NULL}]
  /\ call \in [Calls -> CallState]

(* The event a call is about to refer to is one of what it was asked.      *)
CallsLinked ==
  \A c \in Calls : call[c].pc = "notify" => event[call[c].event] = call[c].kind

LinkInv == CallsType /\ CallsLinked

----------------------------------------------------------------------------
(* Calls that are started at once: each is one of those asked for, and all *)
(* of those are started.                                                   *)
LEMMA Starts ==
  ASSUME NEW f, NEW k \in Kinds, DOMAIN f \subseteq Users \cup {NULL},
         \A u \in DOMAIN f : f[u] \in Calls, CallsType, StartCalls(f, k)
  PROVE  /\ call' \in [Calls -> CallState]
         /\ \A c \in Calls : call'[c] = call[c] \/ (call[c] = Idle /\ call'[c].pc = "find")
         /\ \A u \in DOMAIN f : call'[f[u]] = Started(k, u) /\ call[f[u]] = Idle
         /\ \A c \in Calls : call'[c] = call[c] \/ \E u \in DOMAIN f : f[u] = c
<1>1. ASSUME NEW c \in Calls, \E u \in DOMAIN f : f[u] = c
      PROVE  \E u \in DOMAIN f : f[u] = c /\ call'[c] = Started(k, u) /\ call[c] = Idle
  <2> DEFINE v == CHOOSE u \in DOMAIN f : f[u] = c
  <2>1. v \in DOMAIN f /\ f[v] = c
    BY <1>1, Zenon
  <2>2. call'[c] = Started(k, v)
    BY <1>1, Zenon DEF StartCalls
  <2>3. call[c] = Idle
    BY <2>1, Zenon DEF StartCalls
  <2> QED
    BY <2>1, <2>2, <2>3, Zenon
<1>2. ASSUME NEW c \in Calls, ~\E u \in DOMAIN f : f[u] = c
      PROVE  call'[c] = call[c]
  BY <1>2, Zenon DEF StartCalls
<1>3. ASSUME NEW u \in DOMAIN f PROVE call'[f[u]] = Started(k, u) /\ call[f[u]] = Idle
  <2>1. \A v \in DOMAIN f : f[u] = f[v] => u = v
    BY DEF StartCalls
  <2> QED
    BY <1>1, <2>1
<1>4. ASSUME NEW c \in Calls PROVE call'[c] \in CallState
  <2>1. CASE \E u \in DOMAIN f : f[u] = c
    <3>1. PICK u \in Users \cup {NULL} : call'[c] = Started(k, u)
      BY <1>1, <2>1
    <3> QED
      BY <3>1 DEF Started, CallState
  <2>2. CASE ~\E u \in DOMAIN f : f[u] = c
    BY <1>2, <2>2 DEF CallsType
  <2> QED
    BY <2>1, <2>2
<1>5. ASSUME NEW c \in Calls
      PROVE  call'[c] = call[c] \/ (call[c] = Idle /\ call'[c].pc = "find")
  <2>1. CASE \E u \in DOMAIN f : f[u] = c
    <3>1. PICK u \in DOMAIN f : call'[c] = Started(k, u) /\ call[c] = Idle
      BY <1>1, <2>1
    <3> QED
      BY <3>1 DEF Started
  <2>2. CASE ~\E u \in DOMAIN f : f[u] = c
    BY <1>2, <2>2
  <2> QED
    BY <2>1, <2>2
<1>6. call' \in [Calls -> CallState]
  <2>1. call' = [c \in Calls |-> call'[c]]
    BY DEF StartCalls
  <2> QED
    BY <1>4, <2>1
<1> QED
  BY <1>2, <1>3, <1>5, <1>6

----------------------------------------------------------------------------
(* Linking.                                                                *)

(* A notification row is written without looking at the event again: the   *)
(* event a call names keeps its type and text, since events are made once  *)
(* and never removed.                                                      *)
LEMMA CallsKept ==
  ASSUME LinkInv, UNCHANGED event, call' \in [Calls -> CallState],
         \A c \in Calls : call'[c].pc = "notify" => call'[c] = call[c]
  PROVE  LinkInv'
BY DEF LinkInv, CallsType, CallsLinked

(* Starting notifications from a list of receivers, as the handlers of     *)
(* messages and tickets do.                                                *)
LEMMA StartsLinked ==
  ASSUME LinkInv, NEW f, NEW k \in Kinds, DOMAIN f \subseteq Users \cup {NULL},
         \A u \in DOMAIN f : f[u] \in Calls, StartCalls(f, k), UNCHANGED event
  PROVE  LinkInv'
<1>1. /\ call' \in [Calls -> CallState]
      /\ \A c \in Calls : call'[c] = call[c] \/ call'[c].pc = "find"
  BY Starts DEF LinkInv
<1> QED
  BY <1>1, CallsKept

(* The event that is found for a type and text is of that type and text:   *)
(* a text is left out only for types that have none.                       *)
LEMMA FoundIsAsked ==
  ASSUME NEW e \in Events, NEW k \in Kinds, event[e] \in Kinds \cup {NULL}, Matches(e, k)
  PROVE  event[e] = k
<1>1. event[e] \in Kinds /\ event[e].type = k.type /\ (k.text = NULL \/ event[e].text = k.text)
  BY DEF Matches
<1>2. k.text = event[e].text
  BY <1>1, NotificationAssumption DEF Kinds
<1> QED
  BY <1>1, <1>2 DEF Kinds

LEMMA CreateNotificationLinked ==
  ASSUME LinkInv, NEW c \in Calls,
         \/ \E k \in Kinds, u \in Users \cup {NULL} : Create(c, k, u)
         \/ FindEvent(c)
         \/ \E e \in Events : CreateEvent(c, e)
         \/ \E n \in Notifications : Notify(c, n)
  PROVE  LinkInv'
<1>1. ASSUME NEW k \in Kinds, NEW u \in Users \cup {NULL}, Create(c, k, u) PROVE LinkInv'
  BY <1>1, CallsKept DEF Create, LinkInv, CallsType, CallState
<1>2. CASE FindEvent(c)
  <2>1. call[c].pc = "find" /\ call[c].kind \in Kinds /\ call[c].receiver \in Users \cup {NULL}
    BY <1>2 DEF FindEvent, LinkInv, CallsType, CallState, Idle
  <2>2. ASSUME NEW e \in Events, Matches(e, call[c].kind), NotifyNext(c, e), UNCHANGED event
        PROVE  LinkInv'
    <3>1. event[e] = call[c].kind
      BY <2>1, <2>2, FoundIsAsked DEF LinkInv, CallsType
    <3>2. /\ call'[c] \in CallState /\ call'[c].event = e /\ call'[c].kind = call[c].kind
          /\ call' = [call EXCEPT ![c] = call'[c]]
      BY <2>1, <2>2 DEF NotifyNext, LinkInv, CallsType, CallState
    <3> QED
      BY <3>1, <3>2, <2>2 DEF LinkInv, CallsType, CallsLinked
  <2>3. CASE call' = [call EXCEPT ![c].pc = "create"]
    <3>1. call' \in [Calls -> CallState] /\ call'[c].pc = "create" /\ UNCHANGED event
      BY <1>2, <2>1, <2>3 DEF FindEvent, LinkInv, CallsType, CallState, Idle
    <3> QED
      BY <2>3, <3>1, CallsKept DEF LinkInv, CallsType
  <2> QED
    BY <1>2, <2>2, <2>3 DEF FindEvent
<1>3. ASSUME NEW e \in Events, CreateEvent(c, e) PROVE LinkInv'
  <2>1. /\ call[c].pc = "create" /\ call[c].kind \in Kinds /\ call[c].receiver \in Users \cup {NULL}
        /\ event[e] = NULL /\ event' = [event EXCEPT ![e] = call[c].kind] /\ NotifyNext(c, e)
    BY <1>3 DEF CreateEvent, LinkInv, CallsType, CallState, Idle
  <2>2. /\ call'[c] \in CallState /\ call'[c].event = e /\ call'[c].kind = call[c].kind
        /\ call' = [call EXCEPT ![c] = call'[c]]
    BY <2>1 DEF NotifyNext, LinkInv, CallsType, CallState
  <2>3. CallsType'
    BY <2>1, <2>2 DEF LinkInv, CallsType
  <2>4. \A d \in Calls : d # c /\ call[d].pc = "notify" =>
          /\ call[d].event \in Events /\ call[d].kind \in Kinds
          /\ event[call[d].event] = call[d].kind
    BY DEF LinkInv, CallsType, CallState, Idle, CallsLinked
  <2>5. CallsLinked'
    BY <2>1, <2>2, <2>4, NotificationAssumption DEF LinkInv, CallsType, CallsLinked
  <2> QED
    BY <2>3, <2>5 DEF LinkInv
<1>4. ASSUME NEW n \in Notifications, Notify(c, n) PROVE LinkInv'
  BY <1>4, CallsKept DEF Notify, LinkInv, CallsType, CallState, Idle
<1> QED
  BY <1>1, <1>2, <1>3, <1>4

----------------------------------------------------------------------------
(* The tables and requests of Support.                                     *)

BatchState ==
  [pc: {"clear", "write"}, old: SUBSET Questions, keep: SUBSET Questions, new: 0..1,
   done: SUBSET Questions, met: SUBSET Questions]

WorkState ==
  {Idle} \cup [pc: {"announce"}, text: Texts]
         \cup [pc: {"toggle"}, of: Messages, status: {"solved", "unsolved"}]
         \cup [pc: {"tell"}, status: {"solved", "unsolved"}]
         \cup BatchState

RowsType ==
  /\ message \in [Messages -> MessageRow \cup {NULL}]
  /\ faq \subseteq Questions
  /\ work \in [Workers -> WorkState]
  /\ faults \in Nat

Ticket(m) == message[m] # NULL /\ message[m].status # NULL

(* A ticket that is about to be toggled is there: tickets are not removed. *)
TogglesTicket == \A w \in Workers : At(w, "toggle") => Ticket(work[w].of)

(* What is in the table while a batch goes on, but for the rows that       *)
(* others have made or removed.                                            *)
Accounted(st, table) ==
  /\ table \subseteq st.old \cup st.keep \cup st.done \cup st.met
  /\ st.done \subseteq table \cup st.met

Batching(w) == work[w].pc \in {"clear", "write"}

BatchInv ==
  \A w \in Workers : Batching(w) =>
    /\ At(w, "clear") => work[w].done = {}
    /\ At(w, "write") => work[w].old = {}
    /\ Accounted(work[w], faq)

IInv == LinkInv /\ RowsType /\ TogglesTicket /\ BatchInv

----------------------------------------------------------------------------
(* Steps that concern some of this only.                                   *)

(* Neither the questions nor a batch change.                               *)
LEMMA BatchesKept ==
  ASSUME BatchInv, UNCHANGED faq,
         \A w \in Workers : Batching(w)' => work'[w] = work[w]
  PROVE  BatchInv'
BY DEF BatchInv, Batching, At, Accounted

(* Only calls take a step.                                                 *)
LEMMA CallsOnly ==
  ASSUME IInv, LinkInv', UNCHANGED <<message, faq, work, faults>>
  PROVE  IInv'
BY DEF IInv, RowsType, TogglesTicket, Ticket, At, BatchInv, Batching, Accounted

----------------------------------------------------------------------------
(* Messages and tickets.                                                   *)

(* A row is made, and announced by the request that made it, if it is a    *)
(* ticket or came in by the form for administrators.                       *)
LEMMA ContactStep ==
  ASSUME IInv, NEW w \in Workers, NEW m \in Messages, NEW text \in Texts,
         NEW status \in {"unsolved", NULL}, Contact(w, m, text, status)
  PROVE  IInv'
<1> DEFINE row == [text |-> text, status |-> status]
           st == [pc |-> "announce", text |-> text]
<1>1. /\ message[m] = NULL /\ message' = [message EXCEPT ![m] = row]
      /\ work[w] = Idle /\ work' = [work EXCEPT ![w] = st]
      /\ UNCHANGED <<event, call, faq, faults>>
  BY DEF Contact, Take, nvars
<1>2. row \in MessageRow /\ row # NULL /\ st \in WorkState
  BY MessageAssumption DEF MessageRow, WorkState
<1>3. LinkInv'
  BY <1>1 DEF IInv, LinkInv, CallsType, CallsLinked
<1>4. RowsType'
  BY <1>1, <1>2 DEF IInv, RowsType
<1>5. TogglesTicket'
  BY <1>1, <1>2 DEF IInv, RowsType, TogglesTicket, Ticket, At, WorkState, Idle
<1>6. BatchInv'
  BY <1>1, BatchesKept DEF IInv, RowsType, Batching
<1> QED
  BY <1>3, <1>4, <1>5, <1>6 DEF IInv

(* Rows that are no tickets come, change and go.                           *)
LEMMA NoTicketStep ==
  ASSUME IInv, NEW m \in Messages, ~Ticket(m), message' \in [Messages -> MessageRow \cup {NULL}],
         ~Ticket(m)', \A n \in Messages : n # m => message'[n] = message[n],
         UNCHANGED <<nvars, faq, work>>
  PROVE  IInv'
<1>1. LinkInv' /\ RowsType' /\ BatchInv'
  BY DEF nvars, IInv, LinkInv, CallsType, CallsLinked, RowsType, BatchInv, Batching, At, Accounted
<1>2. \A n \in Messages : Ticket(n)' <=> Ticket(n)
  BY DEF Ticket
<1>3. TogglesTicket'
  <2>1. \A w \in Workers : At(w, "toggle") => work[w].of \in Messages
    BY DEF IInv, RowsType, WorkState, BatchState, Idle, At
  <2> QED
    BY <1>2, <2>1 DEF IInv, TogglesTicket, At
<1> QED
  BY <1>1, <1>3 DEF IInv

LEMMA ContactEdits ==
  ASSUME IInv, NEW m \in Messages, NEW text \in Texts,
         SubmitContact(m, text) \/ UpdateContact(m, text) \/ RemoveContact(m)
  PROVE  IInv'
<1>1. CASE SubmitContact(m, text)
  <2>1. [text |-> text, status |-> NULL] \in MessageRow
    BY DEF MessageRow
  <2> QED
    BY <1>1, <2>1, NoTicketStep DEF SubmitContact, Ticket, IInv, RowsType
<1>2. CASE UpdateContact(m, text)
  <2>1. /\ message[m] \in MessageRow /\ message[m].status = NULL
        /\ message' = [message EXCEPT ![m].text = text]
    BY <1>2 DEF UpdateContact, IInv, RowsType
  <2>2. message'[m] \in MessageRow /\ message'[m].status = NULL
    BY <2>1 DEF MessageRow, IInv, RowsType
  <2> QED
    BY <1>2, <2>1, <2>2, NoTicketStep DEF UpdateContact, Ticket, IInv, RowsType
<1>3. CASE RemoveContact(m)
  BY <1>3, NoTicketStep DEF RemoveContact, Ticket, IInv, RowsType
<1> QED
  BY <1>1, <1>2, <1>3

(* The calls of all administrators are started: whoever was to be told is  *)
(* being told.                                                             *)
LEMMA AnnounceStep ==
  ASSUME IInv, NEW w \in Workers, NEW f \in [Admins -> Calls], Announce(w, f)
  PROVE  IInv'
<1>1. /\ At(w, "announce") /\ work[w].text \in Texts
      /\ work' = [work EXCEPT ![w] = Idle]
      /\ UNCHANGED <<event, faults, message, faq>>
  BY DEF Announce, Done, IInv, RowsType, WorkState, BatchState, Idle, At
<1>2. ContactKind(work[w].text) \in Kinds
  BY <1>1, SupportAssumption DEF ContactKind, Kinds
<1>3. PICK k \in Kinds : k = ContactKind(work[w].text)
  BY <1>2
<1>4. /\ StartCalls(f, k) /\ DOMAIN f = Admins /\ DOMAIN f \subseteq Users \cup {NULL}
      /\ \A u \in DOMAIN f : f[u] \in Calls
  BY <1>3, SupportAssumption DEF Announce
<1>5. /\ \A c \in Calls : call'[c] = call[c] \/ (call[c] = Idle /\ call'[c].pc = "find")
      /\ \A u \in Admins : call'[f[u]] = Started(k, u)
  BY <1>4, Starts DEF IInv, LinkInv
<1>6. LinkInv'
  BY <1>1, <1>4, StartsLinked DEF IInv
<1>7. RowsType' /\ TogglesTicket' /\ BatchInv'
  <2>1. RowsType'
    BY <1>1 DEF IInv, RowsType, WorkState
  <2>2. TogglesTicket'
    BY <1>1 DEF IInv, RowsType, TogglesTicket, Ticket, At, Idle
  <2>3. BatchInv'
    BY <1>1, BatchesKept DEF IInv, RowsType, Batching, Idle
  <2> QED
    BY <2>1, <2>2, <2>3
<1> QED
  BY <1>6, <1>7 DEF IInv

(* Toggling a ticket changes its status only.                              *)
LEMMA ToggleStep ==
  ASSUME IInv, NEW w \in Workers, NEW m \in Messages, Toggle(w, m)
  PROVE  IInv'
<1>1. /\ Ticket(m) /\ message[m] \in MessageRow /\ work[w] = Idle
      /\ work' = [work EXCEPT ![w] =
           [pc |-> "toggle", of |-> m, status |-> message[m].status]]
      /\ UNCHANGED <<event, call, faults, message, faq>>
  BY DEF Toggle, Take, Ticket, nvars, IInv, RowsType
<1>2. message[m].status \in {"solved", "unsolved"}
  BY <1>1 DEF Ticket, MessageRow
<1>3. LinkInv'
  BY <1>1 DEF IInv, LinkInv, CallsType, CallsLinked
<1>4. RowsType'
  BY <1>1, <1>2 DEF IInv, RowsType, WorkState
<1>5. TogglesTicket'
  BY <1>1 DEF IInv, RowsType, TogglesTicket, Ticket, At
<1>6. BatchInv'
  BY <1>1, BatchesKept DEF IInv, RowsType, Batching
<1> QED
  BY <1>3, <1>4, <1>5, <1>6 DEF IInv

LEMMA ToggleUpdateStep ==
  ASSUME IInv, NEW w \in Workers, ToggleUpdate(w)
  PROVE  IInv'
<1>1. /\ At(w, "toggle") /\ work[w].status \in {"solved", "unsolved"} /\ work[w].of \in Messages
      /\ work' = [work EXCEPT ![w] = [pc |-> "tell", status |-> work[w].status]]
      /\ message' = [message EXCEPT ![work[w].of].status = Opposite(work[w].status)]
      /\ UNCHANGED <<event, call, faults, faq>>
  BY DEF ToggleUpdate, nvars, IInv, RowsType, WorkState, BatchState, Idle, At
<1>2. PICK m \in Messages : m = work[w].of
  BY <1>1
<1>3. PICK status \in {"solved", "unsolved"} : status = Opposite(work[w].status)
  BY DEF Opposite
<1>4. message[m] \in MessageRow /\ Ticket(m)
  BY <1>1, <1>2 DEF IInv, RowsType, TogglesTicket, Ticket
<1>5. PICK row \in MessageRow : row = [message[m] EXCEPT !.status = status]
  BY <1>4 DEF MessageRow
<1>6. row.text = message[m].text /\ row.status = status /\ row # NULL /\ status # NULL
  <2>1. row.text = message[m].text /\ row.status = status
    BY <1>4, <1>5 DEF MessageRow
  <2>2. row # NULL
    BY MessageAssumption
  <2>3. status # NULL
    BY NotificationAssumption, SupportAssumption
  <2> QED
    BY <2>1, <2>2, <2>3
<1>7. message' = [message EXCEPT ![m] = row]
  BY <1>1, <1>2, <1>3, <1>5
<1>8. \A n \in Messages : Ticket(n)' <=> Ticket(n)
  BY <1>4, <1>6, <1>7 DEF Ticket, IInv, RowsType
<1>9. LinkInv'
  BY <1>1 DEF IInv, LinkInv, CallsType, CallsLinked
<1>10. RowsType'
  BY <1>1, <1>7 DEF IInv, RowsType, WorkState
<1>11. TogglesTicket'
  <2> SUFFICES ASSUME NEW v \in Workers, work'[v].pc = "toggle"
               PROVE  Ticket(work[v].of)'
    BY DEF TogglesTicket, At
  <2>1. v # w /\ work'[v] = work[v]
    BY <1>1 DEF IInv, RowsType
  <2>2. At(v, "toggle") /\ work[v].of \in Messages
    BY <2>1 DEF At, IInv, RowsType, WorkState, BatchState, Idle
  <2>3. Ticket(work[v].of)
    BY <2>2 DEF IInv, TogglesTicket
  <2>4. PICK n \in Messages : n = work[v].of
    BY <2>2
  <2>5. Ticket(n)'
    BY <1>8, <2>3, <2>4
  <2> QED
    BY <2>1, <2>4, <2>5 DEF Ticket
<1>12. BatchInv'
  BY <1>1, BatchesKept DEF IInv, RowsType, Batching
<1> QED
  BY <1>9, <1>10, <1>11, <1>12 DEF IInv

LEMMA ToggleTellStep ==
  ASSUME IInv, NEW w \in Workers, NEW c \in Calls, ToggleTell(w, c)
  PROVE  IInv'
<1>1. /\ At(w, "tell") /\ work[w].status \in {"solved", "unsolved"}
      /\ work' = [work EXCEPT ![w] = Idle]
      /\ UNCHANGED <<event, faults, message, faq>>
  BY DEF ToggleTell, Done, IInv, RowsType, WorkState, BatchState, Idle, At
<1>2. PICK k \in Kinds :
        k = [type |-> "help_and_support_status_updated", text |-> work[w].status]
  BY <1>1, SupportAssumption DEF Kinds
<1>3. PICK f : f = [u \in {NULL} |-> c]
  OBVIOUS
<1>4. /\ StartCalls(f, k) /\ DOMAIN f \subseteq Users \cup {NULL}
      /\ \A u \in DOMAIN f : f[u] \in Calls
  BY <1>2, <1>3 DEF ToggleTell
<1>5. \A d \in Calls : call'[d] = call[d] \/ (call[d] = Idle /\ call'[d].pc = "find")
  BY <1>4, Starts DEF IInv, LinkInv
<1>6. LinkInv'
  BY <1>1, <1>4, StartsLinked DEF IInv
<1>7. RowsType'
  BY <1>1 DEF IInv, RowsType, WorkState
<1>8. TogglesTicket'
  BY <1>1 DEF IInv, RowsType, TogglesTicket, Ticket, At, Idle
<1>9. BatchInv'
  BY <1>1, BatchesKept DEF IInv, RowsType, Batching, Idle
<1> QED
  BY <1>6, <1>7, <1>8, <1>9 DEF IInv

----------------------------------------------------------------------------
(* Questions.                                                              *)

(* The steps that concern the questions, and what batches of them are      *)
(* going on.                                                               *)
LEMMA FaqOnly ==
  ASSUME IInv, faq' \subseteq Questions, BatchInv', work' \in [Workers -> WorkState],
         \A w \in Workers : work'[w] # work[w] =>
           (Batching(w) \/ work[w] = Idle) /\ (Batching(w)' \/ work'[w] = Idle),
         UNCHANGED <<nvars, message>>
  PROVE  IInv'
<1>1. \A w \in Workers : At(w, "announce") => work'[w] = work[w]
  BY DEF At, Batching, Idle
<1>2. \A w \in Workers : At(w, "toggle")' => work'[w] = work[w]
  BY DEF At, Batching, Idle
<1>3. LinkInv' /\ RowsType'
  BY DEF nvars, IInv, LinkInv, CallsType, CallsLinked, RowsType
<1>4. TogglesTicket'
  BY <1>2 DEF IInv, TogglesTicket, Ticket, At
<1> QED
  BY <1>3, <1>4 DEF IInv

(* What the others see of a step that makes or removes question q.         *)
Others(w, q) ==
  /\ work'[w] \in WorkState /\ work'[w].pc = work[w].pc
  /\ ~Batching(w) => work'[w] = work[w]
  /\ Batching(w) => /\ work'[w].met = work[w].met \cup {q}
                    /\ work'[w].done = work[w].done /\ work'[w].old = work[w].old
                    /\ work'[w].keep = work[w].keep

LEMMA NoticedKeeps ==
  ASSUME RowsType, NEW ws \in SUBSET Workers, NEW w \in Workers, w \notin ws,
         NEW q \in Questions, work'[w] = Noticed(ws, q)[w]
  PROVE  Others(w, q)
<1>1. CASE Batching(w)
  <2>1. work[w] \in BatchState
    BY <1>1 DEF Batching, RowsType, WorkState, Idle
  <2>2. PICK met \in SUBSET Questions : met = work[w].met \cup {q}
    BY <2>1 DEF BatchState
  <2>3. work'[w] = [work[w] EXCEPT !.met = met]
    BY <1>1, <2>2 DEF Noticed, Batching
  <2> QED
    BY <1>1, <2>1, <2>2, <2>3 DEF BatchState, WorkState, Others
<1>2. CASE ~Batching(w)
  BY <1>2 DEF Noticed, Batching, RowsType, Others
<1> QED
  BY <1>1, <1>2

(* What was accounted for still is, when q is made or removed.             *)
LEMMA OthersAccounted ==
  ASSUME IInv, NEW w \in Workers, NEW q \in Questions, Others(w, q), Batching(w),
         faq' \subseteq faq \cup {q}, faq \subseteq faq' \cup {q}
  PROVE  /\ At(w, "clear")' => work'[w].done = {}
         /\ At(w, "write")' => work'[w].old = {}
         /\ Accounted(work'[w], faq')
BY DEF IInv, BatchInv, Others, Accounted, At

LEMMA FaqEdits ==
  ASSUME IInv, NEW q \in Questions, CreateFaq(q) \/ RemoveFaq(q)
  PROVE  IInv'
<1>1. /\ work' = Noticed({}, q) /\ faq' \subseteq Questions /\ UNCHANGED <<nvars, message>>
      /\ faq' \subseteq faq \cup {q} /\ faq \subseteq faq' \cup {q}
  BY DEF CreateFaq, RemoveFaq, IInv, RowsType
<1>2. \A w \in Workers : Others(w, q)
  BY <1>1, NoticedKeeps DEF IInv
<1>3. work' \in [Workers -> WorkState]
  BY <1>1, <1>2 DEF Noticed, Others
<1>4. BatchInv'
  <2> SUFFICES ASSUME NEW w \in Workers, Batching(w)'
               PROVE  (/\ At(w, "clear") => work[w].done = {}
                       /\ At(w, "write") => work[w].old = {}
                       /\ Accounted(work[w], faq))'
    BY DEF BatchInv
  <2>1. Batching(w)
    BY <1>2 DEF Others, Batching
  <2>2. Accounted(work'[w], faq') <=> Accounted(work[w], faq)'
    BY DEF Accounted
  <2> QED
    BY <1>1, <1>2, <2>1, <2>2, OthersAccounted
<1> QED
  BY <1>1, <1>2, <1>3, <1>4, FaqOnly DEF Batching, Others

LEMMA BatchCreateStep ==
  ASSUME IInv, NEW w \in Workers, NEW keep \in SUBSET Questions, NEW new \in 0..1,
         BatchCreate(w, keep, new)
  PROVE  IInv'
<1> DEFINE pc == IF faq \ keep = {} THEN "write" ELSE "clear"
<1>1. PICK st \in BatchState :
        /\ st = Batch(pc, faq \ keep, keep, new, {}, {})
        /\ work[w] = Idle /\ work' = [work EXCEPT ![w] = st]
  <2>1. PICK old \in SUBSET Questions : old = faq \ keep
    BY DEF IInv, RowsType
  <2>2. Batch(pc, old, keep, new, {}, {}) \in BatchState
    BY DEF Batch, BatchState
  <2> QED
    BY <2>1, <2>2 DEF BatchCreate, Take
<1>2. /\ st.pc \in {"clear", "write"} /\ st.done = {}
      /\ st.pc = "write" => st.old = {}
      /\ faq \subseteq st.old \cup st.keep
  BY <1>1 DEF Batch
<1>3. UNCHANGED <<nvars, message, faq>>
  BY DEF BatchCreate
<1>4. \A v \in Workers : v # w => work'[v] = work[v]
  BY <1>1 DEF IInv, RowsType
<1>5. work'[w] = st /\ work' \in [Workers -> WorkState]
  BY <1>1 DEF IInv, RowsType, WorkState
<1>6. BatchInv'
  <2> SUFFICES ASSUME NEW v \in Workers, Batching(v)'
               PROVE  (/\ At(v, "clear") => work[v].done = {}
                       /\ At(v, "write") => work[v].old = {}
                       /\ Accounted(work[v], faq))'
    BY DEF BatchInv
  <2>1. CASE v = w
    BY <1>2, <1>3, <1>5, <2>1 DEF At, Accounted
  <2>2. CASE v # w
    BY <1>3, <1>4, <2>2 DEF IInv, BatchInv, Batching, At, Accounted
  <2> QED
    BY <2>1, <2>2
<1> QED
  BY <1>1, <1>2, <1>3, <1>4, <1>5, <1>6, FaqOnly DEF Batching, Idle, IInv, RowsType

(* A step of a batch that writes the table.                                *)
LEMMA BatchWrites ==
  ASSUME IInv, NEW w \in Workers, Batching(w), NEW st \in BatchState \cup {Idle},
         NEW q \in Questions, work' = [Noticed({w}, q) EXCEPT ![w] = st],
         faq' \subseteq Questions, faq' \subseteq faq \cup {q}, faq \subseteq faq' \cup {q},
         UNCHANGED <<nvars, message>>,
         st # Idle =>
           /\ st.pc = "clear" => st.done = {}
           /\ st.pc = "write" => st.old = {}
           /\ Accounted(st, faq')
  PROVE  IInv'
<1>1. ASSUME NEW v \in Workers, v # w PROVE Others(v, q)
  <2>1. PICK ws \in SUBSET Workers : ws = {w}
    OBVIOUS
  <2>2. work'[v] = Noticed(ws, q)[v]
    BY <1>1, <2>1 DEF Noticed
  <2> QED
    BY <1>1, <2>1, <2>2, NoticedKeeps DEF IInv
<1>2. work'[w] = st
  BY DEF Noticed
<1>3. work' \in [Workers -> WorkState]
  BY <1>1, <1>2 DEF Noticed, WorkState, Others
<1>4. BatchInv'
  <2> SUFFICES ASSUME NEW v \in Workers, Batching(v)'
               PROVE  (/\ At(v, "clear") => work[v].done = {}
                       /\ At(v, "write") => work[v].old = {}
                       /\ Accounted(work[v], faq))'
    BY DEF BatchInv
  <2>1. CASE v = w
    BY <1>2, <2>1 DEF At, Batching, Idle, Accounted
  <2>2. CASE v # w
    <3>1. Others(v, q) /\ Batching(v)
      BY <1>1, <2>2 DEF Others, Batching
    <3>2. Accounted(work'[v], faq') <=> Accounted(work[v], faq)'
      BY DEF Accounted
    <3> QED
      BY <3>1, <3>2, OthersAccounted
  <2> QED
    BY <2>1, <2>2
<1>5. Batching(w)' \/ work'[w] = Idle
  BY <1>2 DEF Batching, BatchState
<1> QED
  BY <1>1, <1>2, <1>3, <1>4, <1>5, FaqOnly DEF Batching, Others

LEMMA BatchStep ==
  ASSUME IInv, NEW w \in Workers, NEW q \in Questions,
         BatchClear(w, q) \/ BatchInsert(w, q)
  PROVE  IInv'
<1>1. CASE BatchClear(w, q)
  <2>1. /\ At(w, "clear") /\ work[w] \in BatchState /\ q \in work[w].old
        /\ Batching(w) /\ work[w].done = {}
        /\ faq' = faq \ {q} /\ UNCHANGED <<nvars, message>>
    BY <1>1 DEF BatchClear, At, IInv, RowsType, WorkState, Idle, BatchInv, Batching
  <2>2. Noticed({w}, q)[w] = work[w]
    BY DEF Noticed
  <2>3. PICK old \in SUBSET Questions : old = work[w].old \ {q}
    BY <2>1 DEF BatchState
  <2>4. PICK st : st = [work[w] EXCEPT !.old = old, !.pc = IF old = {} THEN "write" ELSE "clear"]
    OBVIOUS
  <2>5. /\ st \in BatchState /\ st.done = {} /\ st.old = old /\ st.keep = work[w].keep
        /\ st.met = work[w].met /\ (st.pc = "write" => st.old = {})
    BY <2>1, <2>3, <2>4 DEF BatchState
  <2>6. CASE q \notin faq
    <3>1. work' = [Noticed({w}, q) EXCEPT ![w] = Idle]
      BY <1>1, <2>6 DEF BatchClear
    <3> QED
      BY <2>1, <3>1, BatchWrites DEF IInv, RowsType
  <2>7. CASE q \in faq
    <3>1. work' = [Noticed({w}, q) EXCEPT ![w] = st]
      BY <1>1, <2>2, <2>3, <2>4, <2>7 DEF BatchClear, Noticed
    <3>2. Accounted(st, faq')
      BY <2>1, <2>3, <2>5 DEF IInv, BatchInv, Accounted
    <3> QED
      BY <2>1, <2>5, <3>1, <3>2, BatchWrites DEF IInv, RowsType
  <2> QED
    BY <2>6, <2>7
<1>2. CASE BatchInsert(w, q)
  <2>1. /\ At(w, "write") /\ work[w] \in BatchState /\ work[w].new > 0
        /\ Batching(w) /\ work[w].old = {}
        /\ faq' = faq \cup {q} /\ UNCHANGED <<nvars, message>>
    BY <1>2 DEF BatchInsert, At, IInv, RowsType, WorkState, Idle, BatchInv, Batching
  <2>2. Noticed({w}, q)[w] = work[w]
    BY DEF Noticed
  <2>3. PICK st : st = [work[w] EXCEPT !.new = @ - 1, !.done = @ \cup {q}]
    OBVIOUS
  <2>4. /\ st \in BatchState /\ st.done = work[w].done \cup {q} /\ st.old = {}
        /\ st.keep = work[w].keep /\ st.met = work[w].met /\ st.pc = "write"
    <3>1. PICK new \in 0..1 : new = work[w].new - 1
      BY <2>1 DEF BatchState
    <3>2. PICK done \in SUBSET Questions : done = work[w].done \cup {q}
      BY <2>1 DEF BatchState
    <3>3. st = [work[w] EXCEPT !.new = new, !.done = done]
      BY <2>3, <3>1, <3>2, Zenon
    <3> QED
      BY <2>1, <3>2, <3>3 DEF BatchState, At
  <2>5. work' = [Noticed({w}, q) EXCEPT ![w] = st]
    BY <1>2, <2>2, <2>3 DEF BatchInsert, Noticed
  <2>6. Accounted(st, faq')
    BY <2>1, <2>4 DEF IInv, BatchInv, Accounted
  <2> QED
    BY <2>1, <2>4, <2>5, <2>6, BatchWrites DEF IInv, RowsType
<1> QED
  BY <1>1, <1>2

LEMMA BatchUpdateStep ==
  ASSUME IInv, NEW w \in Workers, NEW q \in Questions, BatchUpdate(w, q)
  PROVE  IInv'
<1>1. /\ At(w, "write") /\ work[w] \in BatchState /\ q \in work[w].keep
      /\ Batching(w) /\ work[w].old = {} /\ UNCHANGED <<nvars, message, faq>>
  BY DEF BatchUpdate, At, IInv, RowsType, WorkState, Idle, BatchInv, Batching
<1>2. PICK st \in BatchState \cup {Idle} :
        /\ work' = [work EXCEPT ![w] = st]
        /\ st # Idle =>
             /\ st.pc = "write" /\ st.old = {} /\ Accounted(st, faq)
  <2>1. CASE q \notin faq
    BY <2>1 DEF BatchUpdate
  <2>2. CASE q \in faq
    <3>1. PICK keep \in SUBSET Questions : keep = work[w].keep \ {q}
      BY <1>1 DEF BatchState
    <3>2. PICK done \in SUBSET Questions : done = work[w].done \cup {q}
      BY <1>1 DEF BatchState
    <3>3. PICK st : st = [work[w] EXCEPT !.keep = keep, !.done = done]
      OBVIOUS
    <3>4. /\ st \in BatchState /\ st.pc = "write" /\ st.old = {} /\ st.keep = keep
          /\ st.done = done /\ st.met = work[w].met
      BY <1>1, <3>3 DEF BatchState, At
    <3>5. work' = [work EXCEPT ![w] = st]
      <4>1. st = [work[w] EXCEPT !.keep = @ \ {q}, !.done = @ \cup {q}]
        BY <1>1, <3>1, <3>2, <3>3 DEF BatchState
      <4> QED
        BY <2>2, <4>1, Zenon DEF BatchUpdate
    <3>6. Accounted(work[w], faq)
      BY <1>1 DEF IInv, BatchInv
    <3>7. Accounted(st, faq)
      BY <1>1, <2>2, <3>1, <3>2, <3>4, <3>6 DEF Accounted
    <3> QED
      BY <3>4, <3>5, <3>7
  <2> QED
    BY <2>1, <2>2
<1>3. work' \in [Workers -> WorkState] /\ work'[w] = st
  BY <1>2 DEF IInv, RowsType, WorkState
<1>4. \A v \in Workers : v # w => work'[v] = work[v]
  BY <1>2 DEF IInv, RowsType
<1>5. BatchInv'
  <2> SUFFICES ASSUME NEW v \in Workers, Batching(v)'
               PROVE  (/\ At(v, "clear") => work[v].done = {}
                       /\ At(v, "write") => work[v].old = {}
                       /\ Accounted(work[v], faq))'
    BY DEF BatchInv
  <2>1. CASE v = w
    BY <1>1, <1>2, <1>3, <2>1 DEF At, Batching, Idle, Accounted
  <2>2. CASE v # w
    BY <1>1, <1>4, <2>2 DEF IInv, BatchInv, Batching, At, Accounted
  <2> QED
    BY <2>1, <2>2
<1>6. Batching(w)' \/ work'[w] = Idle
  BY <1>3 DEF Batching, BatchState
<1> QED
  BY <1>1, <1>3, <1>4, <1>5, <1>6, FaqOnly DEF IInv, RowsType

LEMMA BatchDoneStep ==
  ASSUME IInv, NEW w \in Workers, BatchDone(w)
  PROVE  IInv'
<1>1. /\ Batching(w) /\ work' = [work EXCEPT ![w] = Idle] /\ UNCHANGED <<nvars, message, faq>>
  BY DEF BatchDone, Complete, At, Batching, Done
<1>2. BatchInv'
  BY <1>1, BatchesKept DEF IInv, RowsType, Batching, Idle
<1>3. work' \in [Workers -> WorkState] /\ work'[w] = Idle /\ \A v \in Workers : v # w => work'[v] = work[v]
  BY <1>1 DEF IInv, RowsType, WorkState
<1> QED
  BY <1>1, <1>2, <1>3, FaqOnly DEF IInv, RowsType

----------------------------------------------------------------------------
(* Calls and failures.                                                     *)

LEMMA CallStep ==
  ASSUME IInv, NEW c \in Calls, UNCHANGED support,
         \/ \E k \in Kinds, u \in Users \cup {NULL} : Create(c, k, u)
         \/ FindEvent(c)
         \/ \E e \in Events : CreateEvent(c, e)
  PROVE  IInv'
<1>1. LinkInv'
  BY CreateNotificationLinked DEF IInv
<1>2. UNCHANGED faults
  BY DEF Create, FindEvent, CreateEvent
<1> QED
  BY <1>1, <1>2, CallsOnly DEF support

LEMMA NotifyStep ==
  ASSUME IInv, NEW c \in Calls, NEW n \in Notifications, NotifyAnd(c, n)
  PROVE  IInv'
<1>1. /\ Notify(c, n)
      /\ UNCHANGED <<event, faults, message, faq, work>>
  BY DEF NotifyAnd, Notify
<1>2. LinkInv'
  BY <1>1, CreateNotificationLinked DEF IInv
<1> QED
  BY <1>1, <1>2, CallsOnly

LEMMA FailStep ==
  ASSUME IInv, WorkFails
  PROVE  IInv'
<1>1. PICK cs \in {Calls} \cup {{c} : c \in Calls} :
        call' = [c \in Calls |-> IF c \in cs THEN Idle ELSE call[c]]
  BY DEF WorkFails, Fails
<1>2. PICK ws \in {Workers} \cup {{w} : w \in Workers} :
        work' = [w \in Workers |-> IF w \in ws THEN Idle ELSE work[w]]
  BY DEF WorkFails
<1>3. faults' = faults + 1 /\ faults \in Nat /\ UNCHANGED <<event, message, faq>>
  BY DEF WorkFails, Fails, IInv, RowsType
<1>4. \A c \in Calls : call'[c] = call[c] \/ call'[c] = Idle
  BY <1>1
<1>5. \A w \in Workers : work'[w] = work[w] \/ work'[w] = Idle
  BY <1>2
<1>6. LinkInv'
  <2>1. call' \in [Calls -> CallState]
    BY <1>1 DEF IInv, LinkInv, CallsType, CallState
  <2> QED
    BY <1>3, <1>4, <2>1, CallsKept DEF IInv, Idle
<1>7. RowsType'
  BY <1>2, <1>3 DEF IInv, RowsType, WorkState
<1>8. TogglesTicket'
  BY <1>3, <1>5 DEF IInv, TogglesTicket, Ticket, At, Idle
<1>9. BatchInv'
  BY <1>3, <1>5, BatchesKept DEF IInv, Batching, Idle
<1> QED
  BY <1>6, <1>7, <1>8, <1>9 DEF IInv

(* An administrator clears notifications.                                  *)
LEMMA RemoveStep ==
  ASSUME IInv, UNCHANGED <<event, call, faults, support>>
  PROVE  IInv'
<1>1. LinkInv'
  BY DEF IInv, LinkInv, CallsType, CallsLinked
<1> QED
  BY <1>1, CallsOnly DEF support

----------------------------------------------------------------------------
LEMMA InitInv == SupportInit => IInv
<1> SUFFICES ASSUME SupportInit PROVE IInv
  OBVIOUS
<1>1. LinkInv
  BY DEF SupportInit, Init, LinkInv, CallsType, CallState, CallsLinked, Idle
<1>2. RowsType
  BY DEF SupportInit, Init, RowsType, WorkState
<1>3. TogglesTicket /\ BatchInv
  BY DEF SupportInit, TogglesTicket, At, BatchInv, Batching, Idle
<1> QED
  BY <1>1, <1>2, <1>3 DEF IInv

LEMMA WorkerStep ==
  ASSUME IInv, NEW w \in Workers,
         \/ \E m \in Messages :
              \/ \E text \in Texts \ {"solved", "unsolved"} :
                   CreateContact(w, m, text) \/ CreateSupport(w, m, text)
              \/ Toggle(w, m)
         \/ \E f \in [Admins -> Calls] : Announce(w, f)
         \/ ToggleUpdate(w) \/ \E c \in Calls : ToggleTell(w, c)
         \/ \E keep \in SUBSET Questions, new \in 0..1 : BatchCreate(w, keep, new)
         \/ \E q \in Questions : BatchClear(w, q) \/ BatchUpdate(w, q) \/ BatchInsert(w, q)
         \/ BatchDone(w)
  PROVE  IInv'
<1>1. ASSUME NEW m \in Messages, NEW text \in Texts,
             CreateContact(w, m, text) \/ CreateSupport(w, m, text)
      PROVE  IInv'
  BY <1>1, ContactStep DEF CreateContact, CreateSupport
<1>2. ASSUME NEW m \in Messages, Toggle(w, m) PROVE IInv'
  BY <1>2, ToggleStep
<1>3. ASSUME NEW f \in [Admins -> Calls], Announce(w, f) PROVE IInv'
  BY <1>3, AnnounceStep
<1>4. CASE ToggleUpdate(w)
  BY <1>4, ToggleUpdateStep
<1>5. ASSUME NEW c \in Calls, ToggleTell(w, c) PROVE IInv'
  BY <1>5, ToggleTellStep
<1>6. ASSUME NEW keep \in SUBSET Questions, NEW new \in 0..1, BatchCreate(w, keep, new)
      PROVE  IInv'
  BY <1>6, BatchCreateStep
<1>7. ASSUME NEW q \in Questions, BatchClear(w, q) \/ BatchUpdate(w, q) \/ BatchInsert(w, q)
      PROVE  IInv'
  BY <1>7, BatchStep, BatchUpdateStep
<1>8. CASE BatchDone(w)
  BY <1>8, BatchDoneStep
<1> QED
  BY <1>1, <1>2, <1>3, <1>4, <1>5, <1>6, <1>7, <1>8

LEMMA NextInv == IInv /\ [SupportNext]_svars => IInv'
<1> SUFFICES ASSUME IInv, [SupportNext]_svars PROVE IInv'
  OBVIOUS
<1>1. ASSUME NEW m \in Messages, NEW text \in Texts,
             SubmitContact(m, text) \/ UpdateContact(m, text)
      PROVE  IInv'
  BY <1>1, ContactEdits
<1>2. ASSUME NEW m \in Messages, RemoveContact(m) PROVE IInv'
  <2>1. PICK text \in Texts : TRUE
    BY SupportAssumption
  <2> QED
    BY <1>2, <2>1, ContactEdits
<1>3. ASSUME NEW q \in Questions, CreateFaq(q) \/ RemoveFaq(q) PROVE IInv'
  BY <1>3, FaqEdits
<1>4. ASSUME NEW c \in Calls, UNCHANGED support,
             \/ \E k \in [type: PlainTypes, text: {NULL}], u \in Users \cup {NULL} : Create(c, k, u)
             \/ FindEvent(c)
             \/ \E e \in Events : CreateEvent(c, e)
      PROVE  IInv'
  <2>1. [type: PlainTypes, text: {NULL}] \subseteq Kinds
    BY DEF Kinds
  <2> QED
    BY <1>4, <2>1, CallStep
<1>5. ASSUME NEW c \in Calls, NEW n \in Notifications, NotifyAnd(c, n) PROVE IInv'
  BY <1>5, NotifyStep
<1>6. ASSUME \/ \E n \in Notifications : Remove(n)
             \/ \E u \in Users : RemoveAll(u),
             UNCHANGED support
      PROVE  IInv'
  BY <1>6, RemoveStep DEF Remove, RemoveAll
<1>7. CASE WorkFails
  BY <1>7, FailStep
<1>8. CASE UNCHANGED svars
  BY <1>8, RemoveStep DEF svars, nvars
<1> QED
  BY <1>1, <1>2, <1>3, <1>4, <1>5, <1>6, <1>7, <1>8, WorkerStep DEF SupportNext

(* What holds between any two statements of the support handlers and of    *)
(* createNotification.                                                     *)
THEOREM Invariance == SupportSpec => []IInv
BY InitInv, NextInv, PTL DEF SupportSpec

(* A batch of questions that has gone through is what the page shows, on   *)
(* every row but those that others have made or removed since it began.    *)
THEOREM BatchCorrect == SupportSpec => []FaqIsBatch
<1>1. IInv => FaqIsBatch
  BY DEF IInv, BatchInv, Batching, Accounted, FaqIsBatch, Complete, At, AllFaqs
<1> QED
  BY <1>1, Invariance, PTL

----------------------------------------------------------------------------
(* What notifications tell.  Events are made and never changed or removed, *)
(* so that an event a notification refers to stays what it was.            *)

RowsLinked ==
  /\ notification \in [Notifications -> NotificationRow \cup {NULL}]
  /\ LinkedAsAsked

(* Who writes the two tables.                                              *)
LEMMA Writers ==
  ASSUME [SupportNext]_svars
  PROVE  \/ UNCHANGED <<event, notification>>
         \/ \E c \in Calls, e \in Events : CreateEvent(c, e)
         \/ \E c \in Calls, n \in Notifications : NotifyAnd(c, n)
         \/ \E n \in Notifications : Remove(n)
         \/ \E u \in Users : RemoveAll(u)
<1>1. ASSUME NEW w \in Workers,
             \/ \E m \in Messages :
                  \/ \E text \in Texts : CreateContact(w, m, text) \/ CreateSupport(w, m, text)
                  \/ Toggle(w, m)
             \/ \E f \in [Admins -> Calls] : Announce(w, f)
             \/ ToggleUpdate(w) \/ \E c \in Calls : ToggleTell(w, c)
             \/ \E keep \in SUBSET Questions, new \in 0..1 : BatchCreate(w, keep, new)
             \/ \E q \in Questions : BatchClear(w, q) \/ BatchUpdate(w, q) \/ BatchInsert(w, q)
             \/ BatchDone(w)
      PROVE  UNCHANGED <<event, notification>>
  BY <1>1 DEF CreateContact, CreateSupport, Contact, Toggle, Announce, ToggleUpdate, ToggleTell,
              BatchCreate, BatchClear, BatchUpdate, BatchInsert, BatchDone, nvars
<1>2. ASSUME \/ \E m \in Messages :
                  \/ \E text \in Texts : SubmitContact(m, text) \/ UpdateContact(m, text)
                  \/ RemoveContact(m)
             \/ \E q \in Questions : CreateFaq(q) \/ RemoveFaq(q)
             \/ \E c \in Calls :
                  \/ \E k \in [type: PlainTypes, text: {NULL}], u \in Users \cup {NULL} : Create(c, k, u)
                  \/ FindEvent(c)
             \/ WorkFails \/ UNCHANGED svars
      PROVE  UNCHANGED <<event, notification>>
  BY <1>2 DEF SubmitContact, UpdateContact, RemoveContact, CreateFaq, RemoveFaq, Create, FindEvent,
              WorkFails, Fails, svars, nvars
<1> QED
  BY <1>1, <1>2 DEF SupportNext

LEMMA EventsStay ==
  ASSUME IInv, [SupportNext]_svars
  PROVE  \A e \in Events : event[e] # NULL => event'[e] = event[e]
<1>1. ASSUME NEW c \in Calls, NEW e \in Events, CreateEvent(c, e)
      PROVE  \A d \in Events : event[d] # NULL => event'[d] = event[d]
  BY <1>1 DEF CreateEvent, IInv, LinkInv, CallsType
<1> QED
  BY <1>1, Writers DEF NotifyAnd, Notify, Remove, RemoveAll

(* Whatever becomes of notifications otherwise is that some are removed.   *)
LEMMA RowsStay ==
  ASSUME [SupportNext]_svars, RowsLinked,
         ~\E c \in Calls, n \in Notifications : NotifyAnd(c, n)
  PROVE  \/ UNCHANGED notification
         \/ \E ns \in SUBSET Notifications :
              notification' = [n \in Notifications |-> IF n \in ns THEN NULL ELSE notification[n]]
<1>1. ASSUME NEW n \in Notifications, Remove(n)
      PROVE  \E ns \in SUBSET Notifications :
               notification' = [m \in Notifications |-> IF m \in ns THEN NULL ELSE notification[m]]
  <2>1. notification' = [m \in Notifications |-> IF m \in {n} THEN NULL ELSE notification[m]]
    BY <1>1 DEF Remove, RowsLinked
  <2> QED
    BY <2>1
<1>2. ASSUME NEW u \in Users, RemoveAll(u)
      PROVE  \E ns \in SUBSET Notifications :
               notification' = [m \in Notifications |-> IF m \in ns THEN NULL ELSE notification[m]]
  <2>1. Inbox(u) \in SUBSET Notifications
    BY DEF Inbox
  <2> QED
    BY <1>2, <2>1 DEF RemoveAll
<1> QED
  BY <1>1, <1>2, Writers DEF CreateEvent

LEMMA RowsStep ==
  ASSUME IInv, RowsLinked, [SupportNext]_svars
  PROVE  RowsLinked'
<1>1. ASSUME NEW n \in Notifications, notification[n] # NULL
      PROVE  \E e \in Events : e = notification[n].event /\ event'[e] = notification[n].asked
  <2>1. PICK e \in Events : e = notification[n].event /\ event[e] = notification[n].asked
    BY <1>1 DEF RowsLinked, LinkedAsAsked
  <2>2. notification[n].asked \in Kinds
    BY <1>1 DEF RowsLinked, NotificationRow
  <2> QED
    BY <2>1, <2>2, EventsStay, NotificationAssumption
<1>2. ASSUME NEW c \in Calls, NEW n \in Notifications, NotifyAnd(c, n) PROVE RowsLinked'
  <2>1. /\ call[c].pc = "notify" /\ call[c].event \in Events /\ call[c].kind \in Kinds
        /\ call[c].receiver \in Users \cup {NULL}
        /\ event[call[c].event] = call[c].kind
    BY <1>2 DEF NotifyAnd, Notify, IInv, LinkInv, CallsType, CallState, Idle, CallsLinked
  <2>2. PICK row \in NotificationRow :
          /\ row.event = call[c].event /\ row.asked = call[c].kind
          /\ row = [event |-> call[c].event, receiver |-> call[c].receiver, asked |-> call[c].kind]
    BY <2>1 DEF NotificationRow
  <2>3. notification' = [notification EXCEPT ![n] = row] /\ UNCHANGED event
    BY <1>2, <2>2 DEF NotifyAnd, Notify
  <2> QED
    BY <1>1, <2>1, <2>2, <2>3 DEF RowsLinked, LinkedAsAsked
<1>3. CASE \/ UNCHANGED notification
           \/ \E ns \in SUBSET Notifications :
                notification' = [n \in Notifications |-> IF n \in ns THEN NULL ELSE notification[n]]
  <2>1. \A n \in Notifications : notification'[n] = notification[n] \/ notification'[n] = NULL
    BY <1>3
  <2>2. notification' \in [Notifications -> NotificationRow \cup {NULL}]
    BY <1>3 DEF RowsLinked
  <2> QED
    BY <1>1, <2>1, <2>2 DEF RowsLinked, LinkedAsAsked
<1> QED
  BY <1>2, <1>3, RowsStay

(* A notification tells what its call was asked to tell, however many      *)
(* calls run at once, share their events and fail.                         *)
THEOREM LinkingCorrect == SupportSpec => []LinkedAsAsked
<1>1. SupportInit => RowsLinked
  BY DEF SupportInit, Init, RowsLinked, LinkedAsAsked
<1>2. RowsLinked => LinkedAsAsked
  BY DEF RowsLinked
<1>3. IInv /\ RowsLinked /\ [SupportNext]_svars => RowsLinked'
  BY RowsStep
<1> QED
  BY <1>1, <1>2, <1>3, Invariance, PTL DEF SupportSpec

----------------------------------------------------------------------------
(* How often an event is made.  Each row of a kind and each call that is   *)
(* about to make one counts; a call starts to count only when no row does, *)
(* and then at most all the calls do.                                      *)

Rows(k)     == {e \in Events : event[e] = k}
Creating(k) == {c \in Calls : call[c].pc = "create" /\ call[c].kind = k}

Counted(k) ==
  LET n == Cardinality(Rows(k)) + Cardinality(Creating(k)) IN
  /\ IsFiniteSet(Rows(k))
  /\ n <= Cardinality(Calls)
  /\ ~overlap => n <= 1

OneCall == ~overlap => \A c, d \in Calls : c # d => call[c] = Idle \/ call[d] = Idle

CountInv == (\A k \in Kinds : Counted(k)) /\ OneCall

LEMMA CreatingFinite ==
  ASSUME IsFiniteSet(Calls), NEW k
  PROVE  /\ IsFiniteSet(Creating(k)) /\ Cardinality(Creating(k)) \in Nat
         /\ Cardinality(Creating(k)) <= Cardinality(Calls) /\ Cardinality(Calls) \in Nat
<1>1. Creating(k) \in SUBSET Calls
  BY DEF Creating
<1> QED
  BY <1>1, FS_Subset, FS_CardinalityType

(* Steps that make no event and bring no call to making one.               *)
LEMMA CountKept ==
  ASSUME IsFiniteSet(Calls), CountInv, UNCHANGED event, overlap => overlap', OneCall',
         \A c \in Calls : call'[c].pc = "create" => call'[c] = call[c]
  PROVE  CountInv'
<1> SUFFICES ASSUME NEW k \in Kinds PROVE Counted(k)'
  BY DEF CountInv
<1>1. Rows(k)' = Rows(k) /\ Creating(k)' \in SUBSET Creating(k)
  BY DEF Rows, Creating
<1>2. /\ IsFiniteSet(Creating(k)) /\ IsFiniteSet(Creating(k)')
      /\ Cardinality(Creating(k)') <= Cardinality(Creating(k))
  BY <1>1, CreatingFinite, FS_Subset
<1>3. /\ Cardinality(Creating(k)') \in Nat /\ Cardinality(Creating(k)) \in Nat
      /\ Cardinality(Calls) \in Nat /\ Cardinality(Rows(k)) \in Nat
  BY <1>2, FS_CardinalityType, CreatingFinite DEF CountInv, Counted
<1> QED
  BY <1>1, <1>2, <1>3 DEF CountInv, Counted

(* Two receivers that are called at once overlap.                          *)
LEMMA StartsAlone ==
  ASSUME IsFiniteSet(Calls), LinkInv, CountInv, NEW f, NEW k \in Kinds,
         DOMAIN f \subseteq Users \cup {NULL}, \A u \in DOMAIN f : f[u] \in Calls,
         StartCalls(f, k), UNCHANGED event
  PROVE  CountInv'
<1>1. /\ \A c \in Calls : call'[c] = call[c] \/ (call[c] = Idle /\ call'[c].pc = "find")
      /\ \A u, v \in DOMAIN f : f[u] = f[v] => u = v
      /\ overlap' = (overlap \/ Cardinality(DOMAIN f) > 1 \/ \E c \in Calls : call[c] # Idle)
  BY Starts DEF LinkInv, StartCalls
<1>2. ASSUME NEW c \in Calls, call'[c] # call[c] PROVE \E u \in DOMAIN f : f[u] = c
  BY <1>2, Zenon DEF StartCalls
<1>3. IsFiniteSet(DOMAIN f)
  <2> DEFINE g == [u \in DOMAIN f |-> f[u]]
  <2>1. g \in Injection(DOMAIN f, Calls)
    BY <1>1 DEF Injection, IsInjective
  <2> QED
    BY <2>1, FS_Injection
<1>4. OneCall'
  <2> SUFFICES ASSUME ~overlap', NEW c \in Calls, NEW d \in Calls, c # d,
                      call'[c] # Idle, call'[d] # Idle
               PROVE  FALSE
    BY DEF OneCall
  <2>1. call[c] = Idle /\ call[d] = Idle /\ ~(Cardinality(DOMAIN f) > 1)
    BY <1>1
  <2>2. PICK u \in DOMAIN f, v \in DOMAIN f : f[u] = c /\ f[v] = d
    BY <1>2, <2>1
  <2>3. /\ Cardinality({u}) = 1 /\ IsFiniteSet({u})
        /\ Cardinality({u} \cup {v}) = Cardinality({u}) + 1
    BY <2>2, FS_Singleton, FS_AddElement
  <2>4. Cardinality({u} \cup {v}) <= Cardinality(DOMAIN f) /\ Cardinality(DOMAIN f) \in Nat
    BY <1>3, FS_Subset, FS_CardinalityType
  <2> QED
    BY <2>1, <2>3, <2>4
<1> QED
  BY <1>1, <1>4, CountKept

(* A call has found no event and is about to make one: there is none.      *)
LEMMA FindCounted ==
  ASSUME IsFiniteSet(Calls), LinkInv, CountInv, NEW c \in Calls, FindEvent(c)
  PROVE  CountInv'
<1>1. call[c].pc = "find" /\ call[c].kind \in Kinds /\ UNCHANGED <<event, overlap>>
  BY DEF FindEvent, LinkInv, CallsType, CallState, Idle
<1>2. CASE \E e \in Events : NotifyNext(c, e)
  <2>1. \A d \in Calls : d # c => call'[d] = call[d]
    BY <1>2 DEF NotifyNext, LinkInv, CallsType
  <2>2. call'[c].pc = "notify" /\ call[c] # Idle
    BY <1>1, <1>2 DEF NotifyNext, LinkInv, CallsType, Idle
  <2>3. OneCall'
    BY <1>1, <2>1, <2>2 DEF CountInv, OneCall
  <2> QED
    BY <1>1, <2>1, <2>2, <2>3, CountKept
<1>3. CASE /\ ~\E e \in Events : Matches(e, call[c].kind)
           /\ call' = [call EXCEPT ![c].pc = "create"]
  <2>1. /\ \A d \in Calls : d # c => call'[d] = call[d]
        /\ call'[c].kind = call[c].kind /\ call[c] # Idle
    BY <1>1, <1>3 DEF LinkInv, CallsType, CallState, Idle
  <2>2. OneCall'
    BY <1>1, <2>1 DEF CountInv, OneCall
  <2>3. ASSUME NEW k \in Kinds PROVE Counted(k)'
    <3>1. CASE k # call[c].kind
      <4>1. Creating(k)' = Creating(k) /\ Rows(k)' = Rows(k)
        BY <1>1, <2>1, <3>1 DEF Creating, Rows
      <4> QED
        BY <1>1, <4>1 DEF CountInv, Counted
    <3>2. CASE k = call[c].kind
      <4>1. Rows(k) = {} /\ Rows(k)' = {}
        BY <1>1, <1>3, <3>2, NotificationAssumption DEF Rows, Matches, Kinds
      <4>2. /\ Cardinality(Creating(k)') <= Cardinality(Calls) /\ Cardinality(Calls) \in Nat
            /\ Cardinality(Creating(k)') \in Nat
        <5>1. Creating(k)' \in SUBSET Calls
          BY DEF Creating
        <5> QED
          BY <5>1, FS_Subset, FS_CardinalityType
      <4>3. ~overlap' => Cardinality(Creating(k)') <= 1
        <5> SUFFICES ASSUME ~overlap' PROVE Cardinality(Creating(k)') <= 1
          OBVIOUS
        <5>1. \A d \in Calls : d # c => call[d] = Idle
          BY <1>1, <2>1 DEF OneCall, CountInv
        <5>2. Creating(k)' \in SUBSET {c}
          <6> SUFFICES ASSUME NEW d \in Calls, call'[d].pc = "create", d # c PROVE FALSE
            BY DEF Creating
          <6>1. call'[d] # Idle
            BY DEF Idle
          <6> QED
            BY <2>1, <5>1, <6>1
        <5>3. IsFiniteSet({c}) /\ Cardinality({c}) = 1
          BY FS_Singleton
        <5> QED
          BY <5>2, <5>3, FS_Subset
      <4> QED
        BY <4>1, <4>2, <4>3, FS_EmptySet DEF Counted
    <3> QED
      BY <3>1, <3>2
  <2> QED
    BY <2>2, <2>3 DEF CountInv
<1> QED
  BY <1>2, <1>3 DEF FindEvent

(* An event is made: a row more, and a call less that is making one.       *)
LEMMA CreateCounted ==
  ASSUME IsFiniteSet(Calls), LinkInv, CountInv, NEW c \in Calls, NEW e \in Events,
         CreateEvent(c, e)
  PROVE  CountInv'
<1>1. /\ call[c].pc = "create" /\ call[c].kind \in Kinds /\ event[e] = NULL
      /\ event' = [event EXCEPT ![e] = call[c].kind] /\ UNCHANGED overlap /\ NotifyNext(c, e)
  BY DEF CreateEvent, LinkInv, CallsType, CallState, Idle
<1>2. /\ \A d \in Calls : d # c => call'[d] = call[d]
      /\ call'[c].pc = "notify" /\ call[c] # Idle
  BY <1>1 DEF NotifyNext, LinkInv, CallsType, Idle
<1>3. OneCall'
  BY <1>1, <1>2 DEF CountInv, OneCall
<1>4. ASSUME NEW k \in Kinds PROVE Counted(k)'
  <2>1. CASE k # call[c].kind
    <3>1. Creating(k)' = Creating(k) /\ Rows(k)' = Rows(k)
      <4>1. Creating(k)' = Creating(k)
        BY <1>1, <1>2, <2>1 DEF Creating
      <4>2. k # NULL
        BY NotificationAssumption
      <4> QED
        BY <1>1, <2>1, <4>1, <4>2 DEF Rows, LinkInv, CallsType
    <3> QED
      BY <1>1, <3>1 DEF CountInv, Counted
  <2>2. CASE k = call[c].kind
    <3>1. /\ Rows(k)' = Rows(k) \cup {e} /\ e \notin Rows(k)
          /\ Creating(k)' = Creating(k) \ {c} /\ c \in Creating(k)
      BY <1>1, <1>2, <2>2, NotificationAssumption DEF Creating, Rows, LinkInv, CallsType
    <3>2. IsFiniteSet(Rows(k)) /\ IsFiniteSet(Creating(k))
      BY CreatingFinite DEF CountInv, Counted
    <3>3. /\ IsFiniteSet(Rows(k)') /\ Cardinality(Rows(k)') = Cardinality(Rows(k)) + 1
          /\ Cardinality(Creating(k)') = Cardinality(Creating(k)) - 1
      <4>1. /\ IsFiniteSet(Rows(k) \cup {e})
            /\ Cardinality(Rows(k) \cup {e}) = Cardinality(Rows(k)) + 1
        BY <3>1, <3>2, FS_AddElement
      <4>2. Cardinality(Creating(k) \ {c}) = Cardinality(Creating(k)) - 1
        BY <3>1, <3>2, FS_RemoveElement
      <4> QED
        BY <3>1, <4>1, <4>2
    <3>4. Cardinality(Rows(k)) \in Nat /\ Cardinality(Creating(k)) \in Nat
      BY <3>2, FS_CardinalityType
    <3> QED
      BY <1>1, <3>3, <3>4 DEF CountInv, Counted
  <2> QED
    BY <2>1, <2>2
<1> QED
  BY <1>3, <1>4 DEF CountInv

(* Steps of one call or of none that bring no call to making an event.     *)
LEMMA OneCallStep ==
  ASSUME IsFiniteSet(Calls), CountInv, UNCHANGED event, overlap => overlap',
         NEW c \in Calls, call[c] = Idle /\ ~overlap' => \A d \in Calls : call[d] = Idle,
         \A d \in Calls : d # c => call'[d] = call[d], call'[c].pc # "create"
  PROVE  CountInv'
<1>1. OneCall'
  BY DEF CountInv, OneCall
<1> QED
  BY <1>1, CountKept

LEMMA QuietCounted ==
  ASSUME IsFiniteSet(Calls), CountInv, UNCHANGED <<event, overlap>>,
         \A c \in Calls : call'[c] = call[c] \/ call'[c] = Idle
  PROVE  CountInv'
<1>1. OneCall'
  BY DEF CountInv, OneCall
<1> QED
  BY <1>1, CountKept DEF Idle

LEMMA CallsCounted ==
  ASSUME IsFiniteSet(Calls), LinkInv, CountInv, NEW c \in Calls,
         \/ \E k \in Kinds, u \in Users \cup {NULL} : Create(c, k, u)
         \/ FindEvent(c)
         \/ \E e \in Events : CreateEvent(c, e)
         \/ \E n \in Notifications : Notify(c, n)
  PROVE  CountInv'
<1>1. ASSUME NEW k \in Kinds, NEW u \in Users \cup {NULL}, Create(c, k, u) PROVE CountInv'
  <2>1. /\ \A d \in Calls : d # c => call'[d] = call[d]
        /\ call'[c].pc # "create" /\ UNCHANGED event
        /\ overlap' = (overlap \/ \E d \in Calls : call[d] # Idle)
    BY <1>1 DEF Create, LinkInv, CallsType
  <2> QED
    BY <2>1, OneCallStep
<1>2. ASSUME NEW n \in Notifications, Notify(c, n) PROVE CountInv'
  <2>1. UNCHANGED <<event, overlap>> /\ \A d \in Calls : call'[d] = call[d] \/ call'[d] = Idle
    BY <1>2 DEF Notify, LinkInv, CallsType
  <2> QED
    BY <2>1, QuietCounted
<1> QED
  BY <1>1, <1>2, FindCounted, CreateCounted

LEMMA CountStep ==
  ASSUME IsFiniteSet(Calls), IInv, CountInv, [SupportNext]_svars
  PROVE  CountInv'
<1>0. LinkInv
  BY DEF IInv
<1>1. ASSUME UNCHANGED <<event, overlap, call>> PROVE CountInv'
  BY <1>1, QuietCounted
<1>2. ASSUME NEW w \in Workers, NEW f \in [Admins -> Calls], Announce(w, f) PROVE CountInv'
  <2>1. ContactKind(work[w].text) \in Kinds
    <3>1. work[w].text \in Texts
      BY <1>2 DEF Announce, At, IInv, RowsType, WorkState, BatchState, Idle
    <3> QED
      BY <3>1, SupportAssumption DEF ContactKind, Kinds
  <2>2. DOMAIN f \subseteq Users \cup {NULL} /\ \A u \in DOMAIN f : f[u] \in Calls
    BY SupportAssumption
  <2> QED
    BY <1>0, <1>2, <2>1, <2>2, StartsAlone DEF Announce
<1>3. ASSUME NEW w \in Workers, NEW c \in Calls, ToggleTell(w, c) PROVE CountInv'
  <2> DEFINE k == [type |-> "help_and_support_status_updated", text |-> work[w].status]
             f == [u \in {NULL} |-> c]
  <2>1. k \in Kinds
    <3>1. work[w].status \in {"solved", "unsolved"}
      BY <1>3 DEF ToggleTell, At, IInv, RowsType, WorkState, BatchState, Idle
    <3> QED
      BY <3>1, SupportAssumption DEF Kinds
  <2>2. StartCalls(f, k) /\ UNCHANGED event
    BY <1>3 DEF ToggleTell
  <2>3. DOMAIN f \subseteq Users \cup {NULL} /\ \A u \in DOMAIN f : f[u] \in Calls
    OBVIOUS
  <2> HIDE DEF f, k
  <2> QED
    BY <1>0, <2>1, <2>2, <2>3, StartsAlone
<1>4. ASSUME NEW w \in Workers,
             \/ \E m \in Messages :
                  \/ \E text \in Texts : CreateContact(w, m, text) \/ CreateSupport(w, m, text)
                  \/ Toggle(w, m)
             \/ ToggleUpdate(w)
             \/ \E keep \in SUBSET Questions, new \in 0..1 : BatchCreate(w, keep, new)
             \/ \E q \in Questions : BatchClear(w, q) \/ BatchUpdate(w, q) \/ BatchInsert(w, q)
             \/ BatchDone(w)
      PROVE  CountInv'
  <2>1. UNCHANGED nvars
    BY <1>4 DEF CreateContact, CreateSupport, Contact, Toggle, ToggleUpdate, BatchCreate,
                BatchClear, BatchUpdate, BatchInsert, BatchDone
  <2> QED
    BY <1>1, <2>1 DEF nvars
<1>5. ASSUME \/ \E m \in Messages :
                  \/ \E text \in Texts : SubmitContact(m, text) \/ UpdateContact(m, text)
                  \/ RemoveContact(m)
             \/ \E q \in Questions : CreateFaq(q) \/ RemoveFaq(q)
      PROVE  CountInv'
  <2>1. UNCHANGED nvars
    BY <1>5 DEF SubmitContact, UpdateContact, RemoveContact, CreateFaq, RemoveFaq
  <2> QED
    BY <1>1, <2>1 DEF nvars
<1>6. ASSUME NEW c \in Calls,
             \/ \E k \in [type: PlainTypes, text: {NULL}], u \in Users \cup {NULL} : Create(c, k, u)
             \/ FindEvent(c)
             \/ \E e \in Events : CreateEvent(c, e)
             \/ \E n \in Notifications : NotifyAnd(c, n)
      PROVE  CountInv'
  <2>1. [type: PlainTypes, text: {NULL}] \subseteq Kinds
    BY DEF Kinds
  <2> QED
    BY <1>0, <1>6, <2>1, CallsCounted DEF NotifyAnd
<1>7. ASSUME (\E n \in Notifications : Remove(n)) \/ (\E u \in Users : RemoveAll(u))
      PROVE  CountInv'
  BY <1>1, <1>7 DEF Remove, RemoveAll
<1>8. CASE WorkFails
  <2>1. UNCHANGED <<event, overlap>> /\ \A c \in Calls : call'[c] = call[c] \/ call'[c] = Idle
    BY <1>8 DEF WorkFails, Fails
  <2> QED
    BY <2>1, QuietCounted
<1>9. CASE UNCHANGED svars
  BY <1>1, <1>9 DEF svars, nvars
<1> QED
  BY <1>2, <1>3, <1>4, <1>5, <1>6, <1>7, <1>8, <1>9 DEF SupportNext

(* 'Find or create the notification event to avoid duplicates': an event   *)
(* exists once as long as no two calls of createNotification overlap, and  *)
(* no more often than calls can be in progress if they do.                 *)
THEOREM EventsCorrect ==
  ASSUME IsFiniteSet(Calls)
  PROVE  SupportSpec => []EventsUnique
<1>1. SupportInit => CountInv
  <2> SUFFICES ASSUME SupportInit PROVE CountInv
    OBVIOUS
  <2>1. ASSUME NEW k \in Kinds PROVE Counted(k)
    <3>1. k # NULL
      BY NotificationAssumption
    <3>2. Rows(k) = {} /\ Creating(k) = {}
      BY <3>1 DEF SupportInit, Init, Rows, Creating, Idle
    <3> QED
      BY <3>2, FS_EmptySet, FS_CardinalityType DEF Counted
  <2>2. OneCall
    BY DEF SupportInit, Init, OneCall
  <2> QED
    BY <2>1, <2>2 DEF CountInv
<1>2. CountInv => EventsUnique
  <2> SUFFICES ASSUME CountInv, NEW k \in Kinds
               PROVE  Cardinality(Rows(k)) + Cardinality(Creating(k))
                        <= IF overlap THEN Cardinality(Calls) ELSE 1
    BY DEF EventsUnique, Rows, Creating
  <2>1. Counted(k) /\ Cardinality(Creating(k)) \in Nat /\ Cardinality(Calls) \in Nat
    BY CreatingFinite DEF CountInv
  <2>2. Cardinality(Rows(k)) \in Nat
    BY <2>1, FS_CardinalityType DEF Counted
  <2> QED
    BY <2>1, <2>2 DEF Counted
<1>3. IInv /\ CountInv /\ [SupportNext]_svars => CountInv'
  BY CountStep
<1> QED
  BY <1>1, <1>2, <1>3, Invariance, PTL DEF SupportSpec

----------------------------------------------------------------------------
(* Whom administrators are told by.  Each of them is owed as many          *)
(* notifications as there are calls for them and announcements to come: an *)
(* announcement becomes a call for each of them, and a call that ends is a *)
(* notification less to come.                                              *)

OwedInv == owed \in [Admins -> Int] /\ AdminsTold

Informs(st) == st # Idle /\ st.kind \in ContactKinds

LEMMA TellersFinite ==
  ASSUME IsFiniteSet(Calls), IsFiniteSet(Workers), NEW u
  PROVE  /\ IsFiniteSet(Informing(u)) /\ Cardinality(Informing(u)) \in Nat
         /\ IsFiniteSet(Announcing) /\ Cardinality(Announcing) \in Nat
<1>1. Informing(u) \in SUBSET Calls /\ Announcing \in SUBSET Workers
  BY DEF Informing, Announcing
<1> QED
  BY <1>1, FS_Subset, FS_CardinalityType

(* Nobody is told, and nothing is announced.                               *)
LEMMA OwedKept ==
  ASSUME OwedInv, UNCHANGED owed,
         \A w \in Workers : At(w, "announce")' <=> At(w, "announce"),
         \A c \in Calls : Informs(call[c]) \/ Informs(call'[c]) =>
           /\ Informs(call[c]) /\ Informs(call'[c])
           /\ call'[c].receiver = call[c].receiver
  PROVE  OwedInv'
<1>1. Announcing' = Announcing
  BY DEF Announcing
<1>2. \A u : Informing(u)' = Informing(u)
  BY DEF Informing, Informs
<1> QED
  BY <1>1, <1>2 DEF OwedInv, AdminsTold

(* Of requests: a message is made, and its announcement is to come.        *)
LEMMA ContactOwed ==
  ASSUME IsFiniteSet(Calls), IsFiniteSet(Workers), IInv, OwedInv,
         NEW w \in Workers, NEW m \in Messages, NEW text \in Texts, NEW status,
         Contact(w, m, text, status)
  PROVE  OwedInv'
<1>1. /\ work[w] = Idle /\ work' = [work EXCEPT ![w] = [pc |-> "announce", text |-> text]]
      /\ owed' = [u \in Admins |-> owed[u] + 1] /\ UNCHANGED call
  BY DEF Contact, Take, nvars
<1>2. Announcing' = Announcing \cup {w} /\ w \notin Announcing
  BY <1>1 DEF Announcing, At, Idle, IInv, RowsType
<1>3. Cardinality(Announcing \cup {w}) = Cardinality(Announcing) + 1
  BY <1>2, TellersFinite, FS_AddElement
<1>4. \A u : Informing(u)' = Informing(u)
  BY <1>1 DEF Informing
<1>5. \A u : Cardinality(Informing(u)) \in Nat /\ Cardinality(Announcing) \in Nat
  BY TellersFinite
<1> QED
  BY <1>1, <1>2, <1>3, <1>4, <1>5 DEF OwedInv, AdminsTold

(* The announcement becomes a call for each administrator.                 *)
LEMMA AnnounceOwed ==
  ASSUME IsFiniteSet(Calls), IsFiniteSet(Workers), IInv, OwedInv,
         NEW w \in Workers, NEW f \in [Admins -> Calls], Announce(w, f)
  PROVE  OwedInv'
<1>1. /\ At(w, "announce") /\ work[w].text \in Texts
      /\ work' = [work EXCEPT ![w] = Idle] /\ UNCHANGED owed
  BY DEF Announce, Done, IInv, RowsType, WorkState, BatchState, Idle, At
<1>2. PICK k \in Kinds : k = ContactKind(work[w].text) /\ k \in ContactKinds
  BY <1>1, SupportAssumption DEF ContactKind, ContactKinds, Kinds
<1>3. /\ StartCalls(f, k) /\ DOMAIN f = Admins /\ DOMAIN f \subseteq Users \cup {NULL}
      /\ \A u \in DOMAIN f : f[u] \in Calls
  BY <1>2, SupportAssumption DEF Announce
<1>4. /\ \A u \in Admins : call'[f[u]] = Started(k, u) /\ call[f[u]] = Idle /\ f[u] \in Calls
      /\ \A c \in Calls : call'[c] = call[c] \/ \E u \in Admins : f[u] = c
  BY <1>3, Starts DEF IInv, LinkInv
<1>5. /\ Announcing' = Announcing \ {w} /\ w \in Announcing
      /\ Cardinality(Announcing \ {w}) = Cardinality(Announcing) - 1
  <2>1. Announcing' = Announcing \ {w} /\ w \in Announcing
    BY <1>1 DEF Announcing, At, Idle, IInv, RowsType
  <2> QED
    BY <2>1, TellersFinite, FS_RemoveElement
<1>6. ASSUME NEW u \in Admins
      PROVE  /\ Cardinality(Informing(u)') = Cardinality(Informing(u)) + 1
             /\ Cardinality(Informing(u)) \in Nat
  <2>1. \A v \in Admins : Started(k, v) # Idle /\ Started(k, v).kind = k /\ Started(k, v).receiver = v
    BY DEF Started, Idle
  <2>2. Informing(u)' = Informing(u) \cup {f[u]} /\ f[u] \notin Informing(u)
    BY <1>2, <1>4, <2>1 DEF Informing
  <2> QED
    BY <2>2, TellersFinite, FS_AddElement
<1> QED
  BY <1>1, <1>5, <1>6, TellersFinite DEF OwedInv, AdminsTold

(* A ticket's user is told of something else.                              *)
LEMMA ToggleTellOwed ==
  ASSUME IInv, OwedInv, NEW w \in Workers, NEW c \in Calls, ToggleTell(w, c)
  PROVE  OwedInv'
<1>1. /\ At(w, "tell") /\ work[w].status \in {"solved", "unsolved"}
      /\ work' = [work EXCEPT ![w] = Idle] /\ UNCHANGED owed
  BY DEF ToggleTell, Done, IInv, RowsType, WorkState, BatchState, Idle, At
<1>2. PICK k \in Kinds :
        k = [type |-> "help_and_support_status_updated", text |-> work[w].status]
  BY <1>1, SupportAssumption DEF Kinds
<1>3. PICK f : f = [u \in {NULL} |-> c]
  OBVIOUS
<1>4. /\ StartCalls(f, k) /\ DOMAIN f \subseteq Users \cup {NULL}
      /\ \A u \in DOMAIN f : f[u] \in Calls
  BY <1>2, <1>3 DEF ToggleTell
<1>5. \A d \in Calls : call'[d] = call[d] \/ (call'[d] = Started(k, NULL) /\ call[d] = Idle)
  BY <1>3, <1>4, Starts DEF IInv, LinkInv
<1>6. ~Informs(Started(k, NULL)) /\ ~Informs(Idle)
  BY <1>2 DEF Started, Informs, ContactKinds, ContactKind
<1>7. \A v \in Workers : At(v, "announce")' <=> At(v, "announce")
  BY <1>1 DEF At, Idle, IInv, RowsType
<1> QED
  BY <1>1, <1>5, <1>6, <1>7, OwedKept

(* The other requests.                                                     *)
LEMMA WorkerOwed ==
  ASSUME IInv, OwedInv,
         UNCHANGED <<call, owed>>, work' \in [Workers -> WorkState],
         \A w \in Workers : At(w, "announce")' <=> At(w, "announce")
  PROVE  OwedInv'
BY OwedKept

(* Of calls: they stay what they were started for until they end.          *)
LEMMA CallOwed ==
  ASSUME IInv, OwedInv, NEW c \in Calls, UNCHANGED support,
         \/ \E k \in [type: PlainTypes, text: {NULL}], u \in Users \cup {NULL} : Create(c, k, u)
         \/ FindEvent(c)
         \/ \E e \in Events : CreateEvent(c, e)
  PROVE  OwedInv'
<1>1. ASSUME NEW st, call' = [call EXCEPT ![c] = st],
             Informs(call[c]) \/ Informs(st) =>
               Informs(call[c]) /\ Informs(st) /\ st.receiver = call[c].receiver
      PROVE  OwedInv'
  <2>1. \A d \in Calls : call'[d] = IF d = c THEN st ELSE call[d]
    BY <1>1 DEF IInv, LinkInv, CallsType
  <2> QED
    BY <1>1, <2>1, OwedKept DEF support, At
<1>2. ASSUME NEW k \in [type: PlainTypes, text: {NULL}], NEW u \in Users \cup {NULL}, Create(c, k, u)
      PROVE  OwedInv'
  <2>1. k \notin ContactKinds
    BY NotificationAssumption, SupportAssumption DEF ContactKinds, ContactKind
  <2>2. ~Informs([pc |-> "find", kind |-> k, receiver |-> u]) /\ ~Informs(Idle)
    BY <2>1 DEF Informs
  <2> QED
    BY <1>1, <1>2, <2>2 DEF Create
<1>3. ASSUME NEW e, NotifyNext(c, e), call[c] # Idle PROVE OwedInv'
  <2>1. PICK st : st = [pc |-> "notify", kind |-> call[c].kind, receiver |-> call[c].receiver, event |-> e]
    OBVIOUS
  <2>2. st # Idle /\ st.kind = call[c].kind /\ st.receiver = call[c].receiver
    BY <2>1 DEF Idle
  <2> QED
    BY <1>1, <1>3, <2>1, <2>2 DEF NotifyNext, Informs
<1>4. CASE FindEvent(c)
  <2>1. call[c].pc = "find" /\ call[c] \in [pc: {"find", "create"}, kind: Kinds, receiver: Users \cup {NULL}]
    BY <1>4 DEF FindEvent, IInv, LinkInv, CallsType, CallState, Idle
  <2>2. CASE call' = [call EXCEPT ![c].pc = "create"]
    <3>1. PICK st : st = [call[c] EXCEPT !.pc = "create"]
      OBVIOUS
    <3>2. st # Idle /\ st.kind = call[c].kind /\ st.receiver = call[c].receiver /\ call[c] # Idle
      BY <2>1, <3>1 DEF Idle
    <3> QED
      BY <1>1, <2>2, <3>1, <3>2 DEF Informs
  <2> QED
    BY <1>3, <1>4, <2>1, <2>2 DEF FindEvent, Idle
<1>5. CASE \E e \in Events : CreateEvent(c, e)
  BY <1>3, <1>5 DEF CreateEvent, Idle
<1> QED
  BY <1>2, <1>4, <1>5

LEMMA NotifyOwed ==
  ASSUME IsFiniteSet(Calls), IsFiniteSet(Workers), IInv, OwedInv,
         NEW c \in Calls, NEW n \in Notifications, NotifyAnd(c, n)
  PROVE  OwedInv'
<1>1. /\ call' = [call EXCEPT ![c] = Idle] /\ UNCHANGED work
      /\ owed' = [u \in Admins |-> IF c \in Informing(u) THEN owed[u] - 1 ELSE owed[u]]
  BY DEF NotifyAnd, Notify
<1>2. Announcing' = Announcing
  BY <1>1 DEF Announcing, At
<1>3. \A u : Informing(u)' = Informing(u) \ {c}
  BY <1>1 DEF Informing, IInv, LinkInv, CallsType
<1>4. ASSUME NEW u \in Admins
      PROVE  /\ Cardinality(Informing(u)') =
                  IF c \in Informing(u) THEN Cardinality(Informing(u)) - 1 ELSE Cardinality(Informing(u))
             /\ Cardinality(Informing(u)) \in Nat /\ Cardinality(Announcing) \in Nat
  <2>1. CASE c \in Informing(u)
    BY <1>3, <2>1, TellersFinite, FS_RemoveElement
  <2>2. CASE c \notin Informing(u)
    <3>1. Informing(u) \ {c} = Informing(u)
      BY <2>2
    <3> QED
      BY <1>3, <2>2, <3>1, TellersFinite
  <2> QED
    BY <2>1, <2>2
<1> QED
  BY <1>1, <1>2, <1>4 DEF OwedInv, AdminsTold

(* What a failure takes down is owed no more.                              *)
LEMMA FailOwed ==
  ASSUME IsFiniteSet(Calls), IsFiniteSet(Workers), IInv, OwedInv, WorkFails
  PROVE  OwedInv'
<1> DEFINE Ended(u) == {c \in Informing(u) : call'[c] = Idle}
           Stopped == {w \in Announcing : work'[w] = Idle}
<1>1. /\ \A c \in Calls : call'[c] = call[c] \/ call'[c] = Idle
      /\ \A w \in Workers : work'[w] = work[w] \/ work'[w] = Idle
      /\ owed' = [u \in Admins |-> owed[u] - Cardinality(Ended(u)) - Cardinality(Stopped)]
  BY DEF WorkFails, Fails
<1>2. ASSUME NEW u
      PROVE  /\ Cardinality(Informing(u)') = Cardinality(Informing(u)) - Cardinality(Ended(u))
             /\ Cardinality(Informing(u)) \in Nat /\ Cardinality(Ended(u)) \in Nat
  <2>1. Informing(u)' = Informing(u) \ Ended(u) /\ Informing(u) \cap Ended(u) = Ended(u)
    BY <1>1 DEF Informing
  <2>2. IsFiniteSet(Informing(u)) /\ Ended(u) \in SUBSET Informing(u)
    BY TellersFinite
  <2>3. IsFiniteSet(Ended(u))
    BY <2>2, FS_Subset
  <2> HIDE DEF Ended
  <2> QED
    BY <2>1, <2>2, <2>3, FS_Difference, FS_CardinalityType
<1>3. /\ Cardinality(Announcing') = Cardinality(Announcing) - Cardinality(Stopped)
      /\ Cardinality(Announcing) \in Nat /\ Cardinality(Stopped) \in Nat
  <2>1. Announcing' = Announcing \ Stopped /\ Announcing \cap Stopped = Stopped
    BY <1>1 DEF Announcing, At, Idle
  <2>2. IsFiniteSet(Announcing) /\ Cardinality(Announcing) \in Nat
    <3>1. PICK u : u = NULL
      OBVIOUS
    <3> QED
      BY TellersFinite
  <2>3. IsFiniteSet(Stopped) /\ Stopped \in SUBSET Announcing
    BY <2>2, FS_Subset
  <2> HIDE DEF Stopped
  <2>4. Cardinality(Stopped) \in Nat
    BY <2>3, FS_CardinalityType
  <2>5. Cardinality(Announcing \ Stopped) = Cardinality(Announcing) - Cardinality(Stopped)
    BY <2>1, <2>2, FS_Difference
  <2> QED
    BY <2>1, <2>2, <2>4, <2>5
<1> HIDE DEF Ended, Stopped
<1> QED
  BY <1>1, <1>2, <1>3 DEF OwedInv, AdminsTold

(* A question is edited: batches notice it, and stay batches.              *)
LEMMA FaqOwed ==
  ASSUME IInv, OwedInv, NEW q \in Questions,
         \/ CreateFaq(q) \/ RemoveFaq(q)
         \/ \E w \in Workers :
              BatchClear(w, q) \/ BatchUpdate(w, q) \/ BatchInsert(w, q)
  PROVE  OwedInv'
<1>1. UNCHANGED <<call, owed>>
  BY DEF CreateFaq, RemoveFaq, BatchClear, BatchUpdate, BatchInsert, nvars
<1>2. \A w \in Workers : At(w, "announce")' <=> At(w, "announce")
  <2>1. ASSUME NEW w \in Workers, NEW ws
        PROVE  (Noticed(ws, q)[w]).pc = work[w].pc
    BY DEF Noticed, IInv, RowsType, WorkState, BatchState, Idle
  <2>2. CASE CreateFaq(q) \/ RemoveFaq(q)
    BY <2>1, <2>2 DEF CreateFaq, RemoveFaq, At
  <2>3. ASSUME NEW w \in Workers, BatchClear(w, q) \/ BatchUpdate(w, q) \/ BatchInsert(w, q)
        PROVE  \A v \in Workers : At(v, "announce")' <=> At(v, "announce")
    <3>0. At(w, "clear") \/ At(w, "write")
      BY <2>3 DEF BatchClear, BatchUpdate, BatchInsert
    <3>1. work[w] \in BatchState /\ work[w].pc \in {"clear", "write"}
      BY <3>0 DEF At, IInv, RowsType, WorkState, Idle
    <3>2. /\ work \in [Workers -> WorkState] /\ Noticed({w}, q) = [v \in Workers |-> Noticed({w}, q)[v]]
          /\ Noticed({w}, q)[w] = work[w]
      BY DEF Noticed, IInv, RowsType
    <3>3. PICK st : /\ \/ work' = [Noticed({w}, q) EXCEPT ![w] = st]
                       \/ work' = [work EXCEPT ![w] = st]
                    /\ st.pc # "announce"
      <4>1. CASE BatchClear(w, q)
        <5>1. Idle.pc # "announce"
          BY DEF Idle
        <5>2. CASE q \notin faq
          <6>1. work' = [Noticed({w}, q) EXCEPT ![w] = Idle]
            BY <4>1, <5>2 DEF BatchClear
          <6> QED
            BY <5>1, <6>1
        <5>3. CASE q \in faq
          <6>1. PICK old : old = work[w].old \ {q}
            OBVIOUS
          <6>2. PICK st : st = [work[w] EXCEPT !.old = old, !.pc = IF old = {} THEN "write" ELSE "clear"]
            OBVIOUS
          <6>3. work' = [Noticed({w}, q) EXCEPT ![w] = st]
            BY <3>2, <4>1, <5>3, <6>1, <6>2 DEF BatchClear
          <6>4. st.pc # "announce"
            BY <3>1, <6>2 DEF BatchState
          <6> QED
            BY <6>3, <6>4
        <5> QED
          BY <5>2, <5>3
      <4>2. CASE BatchUpdate(w, q)
        <5>1. PICK st : /\ st = IF q \notin faq THEN Idle
                                ELSE [work[w] EXCEPT !.keep = @ \ {q}, !.done = @ \cup {q}]
                        /\ work' = [work EXCEPT ![w] = st]
          BY <4>2 DEF BatchUpdate
        <5>2. st.pc # "announce"
          BY <3>1, <5>1 DEF BatchState, Idle
        <5> QED
          BY <5>1, <5>2
      <4>3. CASE BatchInsert(w, q)
        <5>1. PICK st : st = [work[w] EXCEPT !.new = @ - 1, !.done = @ \cup {q}]
          OBVIOUS
        <5>2. work' = [Noticed({w}, q) EXCEPT ![w] = st]
          BY <3>2, <4>3, <5>1 DEF BatchInsert, Noticed
        <5>3. st.pc # "announce"
          BY <3>1, <5>1 DEF BatchState
        <5> QED
          BY <5>2, <5>3
      <4> QED
        BY <2>3, <4>1, <4>2, <4>3
    <3>4. work'[w] = st /\ \A v \in Workers \ {w} : work'[v].pc = work[v].pc
      BY <2>1, <3>2, <3>3
    <3> QED
      BY <3>1, <3>3, <3>4 DEF At
  <2> QED
    BY <2>2, <2>3
<1> QED
  BY <1>1, <1>2, OwedKept

(* What neither tells anybody nor is about to.                             *)
LEMMA OtherOwed ==
  ASSUME IInv, OwedInv,
         \/ \E w \in Workers :
              \/ \E m \in Messages : Toggle(w, m)
              \/ ToggleUpdate(w)
              \/ \E keep \in SUBSET Questions, new \in 0..1 : BatchCreate(w, keep, new)
              \/ BatchDone(w)
         \/ \E m \in Messages :
              \/ \E text \in Texts : SubmitContact(m, text) \/ UpdateContact(m, text)
              \/ RemoveContact(m)
         \/ \E n \in Notifications : Remove(n) /\ UNCHANGED support
         \/ \E u \in Users : RemoveAll(u) /\ UNCHANGED support
         \/ UNCHANGED svars
  PROVE  OwedInv'
<1>1. UNCHANGED <<call, owed>>
  BY DEF Toggle, ToggleUpdate, BatchCreate, BatchDone, SubmitContact, UpdateContact, RemoveContact,
         Remove, RemoveAll, support, svars, nvars
<1>2. ASSUME NEW w \in Workers,
             \/ \E m \in Messages : Toggle(w, m)
             \/ ToggleUpdate(w)
             \/ \E keep \in SUBSET Questions, new \in 0..1 : BatchCreate(w, keep, new)
             \/ BatchDone(w)
      PROVE  \A v \in Workers : At(v, "announce")' <=> At(v, "announce")
  <2>1. work \in [Workers -> WorkState]
    BY DEF IInv, RowsType
  <2>2. PICK st : work' = [work EXCEPT ![w] = st] /\ st.pc # "announce" /\ ~At(w, "announce")
    BY <1>2 DEF Toggle, ToggleUpdate, BatchCreate, BatchDone, Complete, Take, Done, Batch, At, Idle
  <2> QED
    BY <2>1, <2>2 DEF At
<1>3. CASE UNCHANGED work
  BY <1>1, <1>3, OwedKept DEF At
<1>4. UNCHANGED work \/
      \E w \in Workers :
        \/ \E m \in Messages : Toggle(w, m)
        \/ ToggleUpdate(w)
        \/ \E keep \in SUBSET Questions, new \in 0..1 : BatchCreate(w, keep, new)
        \/ BatchDone(w)
  BY DEF SubmitContact, UpdateContact, RemoveContact, support, svars
<1> QED
  BY <1>1, <1>2, <1>3, <1>4, OwedKept

LEMMA OwedStep ==
  ASSUME IsFiniteSet(Calls), IsFiniteSet(Workers), IInv, OwedInv, [SupportNext]_svars
  PROVE  OwedInv'
<1>1. ASSUME NEW w \in Workers, NEW m \in Messages, NEW text \in Texts,
             CreateContact(w, m, text) \/ CreateSupport(w, m, text)
      PROVE  OwedInv'
  BY <1>1, ContactOwed DEF CreateContact, CreateSupport
<1>2. ASSUME NEW w \in Workers, NEW f \in [Admins -> Calls], Announce(w, f) PROVE OwedInv'
  BY <1>2, AnnounceOwed
<1>3. ASSUME NEW w \in Workers, NEW c \in Calls, ToggleTell(w, c) PROVE OwedInv'
  BY <1>3, ToggleTellOwed
<1>4. ASSUME NEW q \in Questions,
             \/ CreateFaq(q) \/ RemoveFaq(q)
             \/ \E w \in Workers :
                  BatchClear(w, q) \/ BatchUpdate(w, q) \/ BatchInsert(w, q)
      PROVE  OwedInv'
  BY <1>4, FaqOwed
<1>5. ASSUME NEW c \in Calls, UNCHANGED support,
             \/ \E k \in [type: PlainTypes, text: {NULL}], u \in Users \cup {NULL} : Create(c, k, u)
             \/ FindEvent(c)
             \/ \E e \in Events : CreateEvent(c, e)
      PROVE  OwedInv'
  BY <1>5, CallOwed
<1>6. ASSUME NEW c \in Calls, NEW n \in Notifications, NotifyAnd(c, n) PROVE OwedInv'
  BY <1>6, NotifyOwed
<1>7. CASE WorkFails
  BY <1>7, FailOwed
<1> QED
  BY <1>1, <1>2, <1>3, <1>4, <1>5, <1>6, <1>7, OtherOwed DEF SupportNext

(* An administrator gets one notification, not none and not two, of each   *)
(* ticket, and of each message that an administrator has sent in, although *)
(* nobody awaits the calls that store them: after every step, what each of *)
(* them is still owed is what is on its way to them.                       *)
THEOREM AdminsCorrect ==
  ASSUME IsFiniteSet(Calls), IsFiniteSet(Workers)
  PROVE  SupportSpec => []AdminsTold
<1>1. SupportInit => OwedInv
  <2> SUFFICES ASSUME SupportInit PROVE OwedInv
    OBVIOUS
  <2>1. Announcing = {} /\ \A u : Informing(u) = {}
    BY DEF SupportInit, Init, Announcing, Informing, At, Idle
  <2> QED
    BY <2>1, FS_EmptySet DEF SupportInit, OwedInv, AdminsTold
<1>2. IInv /\ OwedInv /\ [SupportNext]_svars => OwedInv'
  BY OwedStep
<1>3. OwedInv => AdminsTold
  BY DEF OwedInv
<1> QED
  BY <1>1, <1>2, <1>3, Invariance, PTL DEF SupportSpec
=============================================================================
