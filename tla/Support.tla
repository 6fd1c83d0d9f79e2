------------------------------- MODULE Support -------------------------------
(***************************************************************************)
(* What visitors send in and read: contact messages                        *)
(* (modules/admin/contact, modules/application/contact), help tickets      *)
(* (modules/admin/help_and_support) and the frequently asked questions     *)
(* (modules/admin/faq, modules/application/faq); and the notifications     *)
(* that come of it.                                                        *)
(***************************************************************************)
EXTENDS NotificationRepository, Integers

CONSTANTS
  Admins,     \* the users that are administrators
  Messages,   \* ids of contacts and help_and_supports rows
  Questions,  \* ids of faqs rows
  Workers     \* how many requests are served at once

ASSUME SupportAssumption ==
  /\ Admins \subseteq Users
  /\ "contact_message" \in TextTypes /\ "help_and_support_status_updated" \in TextTypes
  /\ {"solved", "unsolved"} \subseteq Texts

VARIABLES
  message,  \* contacts and help tickets: the text, and the status of a ticket
  faq,      \* ids in table faqs
  work,     \* requests in progress
  owed      \* history: how often each administrator is still to be told of a message

support == <<message, faq, work, owed>>
svars == <<nvars, support>>

MessageRow == [text: Texts, status: {"solved", "unsolved", NULL}]

ASSUME MessageAssumption == NULL \notin MessageRow

SupportType ==
  /\ TypeOK
  /\ message \in [Messages -> MessageRow \cup {NULL}]
  /\ faq \subseteq Questions
  /\ work \in [Workers -> {Idle}
       \cup [pc: {"announce"}, text: Texts]
       \cup [pc: {"toggle"}, of: Messages, status: {"solved", "unsolved"}]
       \cup [pc: {"tell"}, status: {"solved", "unsolved"}]
       \cup [pc: {"clear", "write"}, old: SUBSET Questions, keep: SUBSET Questions, new: 0..1,
             done: SUBSET Questions, met: SUBSET Questions]]
  /\ owed \in [Admins -> Int]

SupportInit ==
  /\ Init
  /\ message = [m \in Messages |-> NULL]
  /\ faq = {}
  /\ work = [w \in Workers |-> Idle]
  /\ owed = [u \in Admins |-> 0]

Take(w, st) ==
  /\ work[w] = Idle
  /\ work' = [work EXCEPT ![w] = st]

At(w, pc) == work[w].pc = pc
Done(w)   == work' = [work EXCEPT ![w] = Idle]

----------------------------------------------------------------------------
(* create of a contact message and createSupport: the row, a statement     *)
(* that finds the administrators, and a createNotification for each of     *)
(* them, awaited by nobody: all of these calls run at once.                *)

ContactKind(text) == [type |-> "contact_message", text |-> text]
ContactKinds == {ContactKind(text) : text \in Texts}

Contact(w, m, text, status) ==
  /\ message[m] = NULL
  /\ message' = [message EXCEPT ![m] = [text |-> text, status |-> status]]
  /\ Take(w, [pc |-> "announce", text |-> text])
  /\ owed' = [u \in Admins |-> owed[u] + 1]
  /\ UNCHANGED <<nvars, faq>>

CreateContact(w, m, text) == Contact(w, m, text, NULL)
CreateSupport(w, m, text) == Contact(w, m, text, "unsolved")

(* The form of the public site tells nobody.                               *)
SubmitContact(m, text) ==
  /\ message[m] = NULL
  /\ message' = [message EXCEPT ![m] = [text |-> text, status |-> NULL]]
  /\ UNCHANGED <<nvars, faq, work, owed>>

Started(k, u) == [pc |-> "find", kind |-> k, receiver |-> u]

(* Calls f are started at once, one for each receiver.                     *)
StartCalls(f, k) ==
  /\ \A u \in DOMAIN f : call[f[u]] = Idle
  /\ \A u, v \in DOMAIN f : f[u] = f[v] => u = v
  /\ call' = [c \in Calls |->
       IF \E u \in DOMAIN f : f[u] = c THEN Started(k, CHOOSE u \in DOMAIN f : f[u] = c) ELSE call[c]]
  /\ overlap' = (overlap \/ Cardinality(DOMAIN f) > 1 \/ \E c \in Calls : call[c] # Idle)

AnnounceToFirst(w, f) ==  \* mutant: returns inside the loop
  /\ At(w, "announce")
  /\ \E u \in Admins : StartCalls([v \in {u} |-> f[v]], ContactKind(work[w].text))
  /\ Done(w)
  /\ UNCHANGED <<event, notification, faults, message, faq, owed>>

Announce(w, f) ==
  /\ At(w, "announce")
  /\ StartCalls(f, ContactKind(work[w].text))
  /\ Done(w)
  /\ UNCHANGED <<event, notification, faults, message, faq, owed>>

(* update and remove of a message (a ticket has neither).                  *)
UpdateContact(m, text) ==
  /\ message[m] # NULL /\ message[m].status = NULL
  /\ message' = [message EXCEPT ![m].text = text]
  /\ UNCHANGED <<nvars, faq, work, owed>>

RemoveContact(m) ==
  /\ message[m] # NULL /\ message[m].status = NULL
  /\ message' = [message EXCEPT ![m] = NULL]
  /\ UNCHANGED <<nvars, faq, work, owed>>

----------------------------------------------------------------------------
(* toggleSupportStatus: writes the opposite of what it has read, and then  *)
(* notifies the ticket's user of the status that it had read.  No code     *)
(* gives a ticket a user.                                                  *)
Opposite(status) == IF status = "unsolved" THEN "solved" ELSE "unsolved"

Toggle(w, m) ==
  /\ message[m] # NULL /\ message[m].status # NULL
  /\ Take(w, [pc |-> "toggle", of |-> m, status |-> message[m].status])
  /\ UNCHANGED <<nvars, message, faq, owed>>

ToggleUpdate(w) ==
  /\ At(w, "toggle")
  /\ message' = [message EXCEPT ![work[w].of].status = Opposite(work[w].status)]
  /\ work' = [work EXCEPT ![w] = [pc |-> "tell", status |-> work[w].status]]
  /\ UNCHANGED <<nvars, faq, owed>>

ToggleTell(w, c) ==
  /\ At(w, "tell")
  /\ StartCalls([u \in {NULL} |-> c],
                [type |-> "help_and_support_status_updated", text |-> work[w].status])
  /\ Done(w)
  /\ UNCHANGED <<event, notification, faults, message, faq, owed>>

----------------------------------------------------------------------------
(* faq: create, remove, and batchCreate, which deletes what the batch does *)
(* not name, one by one, and then updates what it names and makes what is  *)
(* new.  A row that is gone by then ends it halfway.  met (history) are    *)
(* the rows that somebody else has made or removed meanwhile.              *)

Batch(pc, old, keep, new, done, met) ==
  [pc |-> pc, old |-> old, keep |-> keep, new |-> new, done |-> done, met |-> met]

(* work, once somebody other than the workers ws has made or removed q.    *)
Noticed(ws, q) ==
  [w \in Workers |-> IF w \notin ws /\ work[w].pc \in {"clear", "write"}
                       THEN [work[w] EXCEPT !.met = @ \cup {q}] ELSE work[w]]

CreateFaq(q) ==
  /\ q \notin faq
  /\ faq' = faq \cup {q}
  /\ work' = Noticed({}, q)
  /\ UNCHANGED <<nvars, message, owed>>

RemoveFaq(q) ==
  /\ q \in faq
  /\ faq' = faq \ {q}
  /\ work' = Noticed({}, q)
  /\ UNCHANGED <<nvars, message, owed>>

BatchCreate(w, keep, new) ==
  /\ Take(w, Batch(IF faq \ keep = {} THEN "write" ELSE "clear", faq \ keep, keep, new, {}, {}))
  /\ UNCHANGED <<nvars, message, faq, owed>>

BatchClearFirst(w, q) ==  \* mutant: returns inside the loop
  /\ At(w, "clear")
  /\ q \in work[w].old
  /\ faq' = faq \ {q}
  /\ work' = [Noticed({w}, q) EXCEPT ![w] =
       IF q \notin faq THEN Idle ELSE [@ EXCEPT !.old = {}, !.pc = "write"]]
  /\ UNCHANGED <<nvars, message, owed>>

BatchClear(w, q) ==
  LET old == work[w].old \ {q} IN
  /\ At(w, "clear")
  /\ q \in work[w].old
  /\ faq' = faq \ {q}
  /\ work' = [Noticed({w}, q) EXCEPT ![w] =
       IF q \notin faq THEN Idle
       ELSE [@ EXCEPT !.old = old, !.pc = IF old = {} THEN "write" ELSE "clear"]]
  /\ UNCHANGED <<nvars, message, owed>>

BatchUpdate(w, q) ==
  LET next == [work[w] EXCEPT !.keep = @ \ {q}, !.done = @ \cup {q}] IN
  /\ At(w, "write")
  /\ q \in work[w].keep
  /\ work' = [work EXCEPT ![w] = IF q \notin faq THEN Idle ELSE next]
  /\ UNCHANGED <<nvars, message, faq, owed>>

BatchInsert(w, q) ==
  /\ At(w, "write")
  /\ work[w].new > 0 /\ q \notin faq
  /\ faq' = faq \cup {q}
  /\ work' = [Noticed({w}, q) EXCEPT ![w].new = @ - 1, ![w].done = @ \cup {q}]
  /\ UNCHANGED <<nvars, message, owed>>

Complete(w) == At(w, "write") /\ work[w].keep = {} /\ work[w].new = 0

BatchDone(w) ==
  /\ Complete(w)
  /\ Done(w)
  /\ UNCHANGED <<nvars, message, faq, owed>>

----------------------------------------------------------------------------
(* The pages.                                                              *)
AllContacts == {m \in Messages : message[m] # NULL /\ message[m].status = NULL}
AllSupport  == {m \in Messages : message[m] # NULL /\ message[m].status # NULL}
AllFaqs     == faq

(* Who is about to tell administrator u of a message, and who everybody.   *)
Informing(u) == {c \in Calls : call[c] # Idle /\ call[c].kind \in ContactKinds /\ call[c].receiver = u}
Announcing   == {w \in Workers : At(w, "announce")}

NotifyAnd(c, n) ==
  /\ Notify(c, n)
  /\ owed' = [u \in Admins |-> IF c \in Informing(u) THEN owed[u] - 1 ELSE owed[u]]
  /\ UNCHANGED <<message, faq, work>>

(* A statement fails, or the process dies: nobody is told any more what    *)
(* was on its way.                                                         *)
WorkFails ==
  /\ Fails
  /\ \E ws \in {Workers} \cup {{w} : w \in Workers} :
       work' = [w \in Workers |-> IF w \in ws THEN Idle ELSE work[w]]
  /\ owed' = [u \in Admins |->
       owed[u] - Cardinality({c \in Informing(u) : call'[c] = Idle})
               - Cardinality({w \in Announcing : work'[w] = Idle})]
  /\ UNCHANGED <<message, faq>>

SupportNext ==
  \/ \E w \in Workers :
       \/ \E m \in Messages :
            \/ \E text \in Texts \ {"solved", "unsolved"} :
                 CreateContact(w, m, text) \/ CreateSupport(w, m, text)
            \/ Toggle(w, m)
       \/ \E f \in [Admins -> Calls] : Announce(w, f)
       \/ ToggleUpdate(w) \/ \E c \in Calls : ToggleTell(w, c)
       \/ \E keep \in SUBSET Questions, new \in 0..1 : BatchCreate(w, keep, new)
       \/ \E q \in Questions : BatchClear(w, q) \/ BatchUpdate(w, q) \/ BatchInsert(w, q)
       \/ BatchDone(w)
  \/ \E m \in Messages :
       \/ \E text \in Texts \ {"solved", "unsolved"} : SubmitContact(m, text) \/ UpdateContact(m, text)
       \/ RemoveContact(m)
  \/ \E q \in Questions : CreateFaq(q) \/ RemoveFaq(q)
  \/ \E c \in Calls :
       \/ \E k \in [type: PlainTypes, text: {NULL}], u \in Users \cup {NULL} :
            Create(c, k, u) /\ UNCHANGED support
       \/ FindEvent(c) /\ UNCHANGED support
       \/ \E e \in Events : CreateEvent(c, e) /\ UNCHANGED support
       \/ \E n \in Notifications : NotifyAnd(c, n)
  \/ \E n \in Notifications : Remove(n) /\ UNCHANGED support
  \/ \E u \in Users : RemoveAll(u) /\ UNCHANGED support
  \/ WorkFails

SupportSpec == SupportInit /\ [][SupportNext]_svars

----------------------------------------------------------------------------
(* An administrator gets one notification, not none and not two, of each   *)
(* ticket and of each message of the administration's form (the public     *)
(* form tells nobody), although nobody awaits the calls that store them:   *)
(* what they are still owed is on its way in a request or a call, save for *)
(* what a failure has taken down.                                          *)
AdminsTold ==
  \A u \in Admins : owed[u] = Cardinality(Informing(u)) + Cardinality(Announcing)

(* A batch of questions that has gone through is what the page shows, on   *)
(* every row but those that somebody else has made or removed since it     *)
(* began: whatever is written in between, no row it names is lost and none *)
(* that it does not name is left.                                          *)
FaqIsBatch ==
  \A w \in Workers : Complete(w) => AllFaqs \ work[w].met = work[w].done \ work[w].met
=============================================================================
