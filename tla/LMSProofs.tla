----------------------------- MODULE LMSProofs ------------------------------
(***************************************************************************)
(* The theorems about LMS: its invariants, that it implements              *)
(* BookingContract, that the pages agree, and what holds in addition as    *)
(* long as requests do not overlap.                                        *)
(***************************************************************************)
EXTENDS LMSInvariants, Listings

----------------------------------------------------------------------------
(* The tables implement the contract of a booking: each statement makes    *)
(* one booking, pays it, attends it, completes it, or is a stutter.        *)

(* A step that changes neither stage nor payment of any booking is a       *)
(* stuttering step of the contract.                                        *)
LEMMA ContractStutters ==
  ASSUME \A b \in Bookings : LiveBooking(b)' <=> LiveBooking(b),
         \A b \in Bookings : LiveBooking(b) =>
           /\ bookSession'[b].payment_status = bookSession[b].payment_status
           /\ bookSession'[b].is_joined = bookSession[b].is_joined
           /\ bookSession'[b].is_completed = bookSession[b].is_completed
  PROVE  UNCHANGED Abstract!cvars
<1>1. \A b \in Bookings : Stage(b)' = Stage(b)
  BY DEF Stage
<1> QED
  BY <1>1 DEF Abstract!cvars

(* One booking moves, the others stay.                                     *)
LEMMA StageMoves ==
  ASSUME NEW b \in Bookings, NEW st,
         \A c \in Bookings : c # b => Stage(c)' = Stage(c),
         Stage(b)' = st
  PROVE  [c \in Bookings |-> Stage(c)]' = [[c \in Bookings |-> Stage(c)] EXCEPT ![b] = st]
OBVIOUS

(* A booking whose row a step leaves alone keeps its stage.                *)
LEMMA OtherStages ==
  ASSUME NEW b \in Bookings,
         \A c \in Bookings : c # b => bookSession'[c] = bookSession[c]
  PROVE  \A c \in Bookings : c # b => Stage(c)' = Stage(c)
BY DEF Stage, LiveBooking

(* Inserting a booking is the contract's Make.                             *)
LEMMA CreateContract ==
  ASSUME TypeOK, NEW h \in Handlers, NEW b \in Bookings, BookCreate(h, b)
  PROVE  Abstract!Make(b)
<1>1. /\ ~LiveBooking(b)
      /\ bookSession' = [bookSession EXCEPT ![b] =
           NewBooking(handler[h].user, handler[h].session, handler[h].date)]
      /\ NewBooking(handler[h].user, handler[h].session, handler[h].date) \in BookingRow
  BY NewRow DEF BookCreate
<1>2. /\ \A c \in Bookings : c # b => bookSession'[c] = bookSession[c]
      /\ LiveBooking(b)'
      /\ ~bookSession'[b].is_completed /\ ~bookSession'[b].is_joined
      /\ bookSession'[b].payment_status = "pending"
  BY <1>1, RowAssumption DEF TypeOK, LiveBooking, NewBooking
<1>3. Stage(b) = "none" /\ Stage(b)' = "booked"
  BY <1>1, <1>2 DEF Stage
<1>4. [c \in Bookings |-> Stage(c)]' = [[c \in Bookings |-> Stage(c)] EXCEPT ![b] = "booked"]
  BY <1>2, <1>3, OtherStages, StageMoves
<1>5. {c \in Bookings : LiveBooking(c) /\ bookSession[c].payment_status = "paid"}'
        = {c \in Bookings : LiveBooking(c) /\ bookSession[c].payment_status = "paid"}
  BY <1>1, <1>2 DEF LiveBooking
<1> QED
  BY <1>3, <1>4, <1>5 DEF Abstract!Make

(* A successful payment event is the contract's MarkPaid, or nothing new.  *)
LEMMA WebhookContract ==
  ASSUME TypeOK, References, NEW e \in StripeEvent, WebhookSucceeded(e),
         NEW b, b = intent[e.intent].booking
  PROVE  b \in Bookings /\ Abstract!MarkPaid(b)
<1>1. /\ b \in Bookings /\ LiveBooking(b) /\ Edits({b}, {"payment_status"})
      /\ bookSession'[b].payment_status = "paid"
  BY WebhookWrites
<1>2. \A c \in Bookings : Stage(c)' = Stage(c)
  BY <1>1 DEF Edits, Keeps, Stage
<1>3. Stage(b) # "none"
  BY <1>1 DEF Stage
<1>4. {c \in Bookings : LiveBooking(c) /\ bookSession[c].payment_status = "paid"}'
        = {c \in Bookings : LiveBooking(c) /\ bookSession[c].payment_status = "paid"} \cup {b}
  BY <1>1 DEF Edits
<1> QED
  BY <1>1, <1>2, <1>3, <1>4 DEF Abstract!MarkPaid

(* Joining a booking is the contract's Attend, or nothing new.             *)
LEMMA JoinContract ==
  ASSUME TypeOK, References, PaymentInv, CronInv, NEW h \in Handlers, JoinUpdate(h),
         NEW b, b = handler[h].booking
  PROVE  b \in Bookings /\ (UNCHANGED Abstract!cvars \/ Abstract!Attend(b))
<1>1. /\ b \in Bookings /\ LiveBooking(b) /\ Edits({b}, {"is_joined"})
      /\ bookSession'[b].is_joined
  BY JoinWrites
<1>2. CASE bookSession[b].is_joined = bookSession'[b].is_joined
  BY <1>1, <1>2, ContractStutters DEF Edits, Keeps
<1>3. CASE bookSession[b].is_joined # bookSession'[b].is_joined
  <2>1. ~bookSession[b].is_joined
    BY <1>1, <1>3, LiveRow DEF BookingRow, Edits
  <2>2. ~bookSession[b].is_completed /\ ~bookSession'[b].is_completed
    BY <1>1, <2>1 DEF CronInv, CompletedWasHeld, Edits, Keeps
  <2>3. bookSession[b].payment_status = "paid"
    BY <1>1 DEF PaymentInv, JoinReads, JoinUpdate
  <2>4. Stage(b) = "booked" /\ Stage(b)' = "joined"
    BY <1>1, <2>1, <2>2 DEF Stage, Edits
  <2>5. [c \in Bookings |-> Stage(c)]' = [[c \in Bookings |-> Stage(c)] EXCEPT ![b] = "joined"]
    BY <1>1, <2>4, OtherStages, StageMoves DEF Edits
  <2>6. {c \in Bookings : LiveBooking(c) /\ bookSession[c].payment_status = "paid"}'
          = {c \in Bookings : LiveBooking(c) /\ bookSession[c].payment_status = "paid"}
    BY <1>1 DEF Edits, Keeps
  <2> QED
    BY <1>1, <2>3, <2>4, <2>5, <2>6 DEF Abstract!Attend
<1> QED
  BY <1>2, <1>3

(* Completing a booking is the contract's Complete, or nothing new.        *)
LEMMA CronContract ==
  ASSUME TypeOK, References, CronInv, NEW b \in Bookings, NEW z \in Sessions \cup {NULL},
         CronBooking(b, z)
  PROVE  UNCHANGED Abstract!cvars \/ Abstract!Complete(b)
<1>1. /\ LiveBooking(b) /\ Edits({b}, {"is_completed", "status"})
      /\ bookSession'[b].is_completed
  BY CronWrites
<1>2. CASE bookSession[b].is_completed = bookSession'[b].is_completed
  BY <1>1, <1>2, ContractStutters DEF Edits, Keeps
<1>3. CASE bookSession[b].is_completed # bookSession'[b].is_completed
  <2>1. ~bookSession[b].is_completed
    BY <1>1, <1>3, LiveRow DEF BookingRow, Edits
  <2>2. bookSession[b].is_joined
    BY DEF CronInv, CronReads, CronBooking
  <2>3. Stage(b) = "joined" /\ Stage(b)' = "completed"
    BY <1>1, <2>1, <2>2 DEF Stage, Edits
  <2>4. [c \in Bookings |-> Stage(c)]' = [[c \in Bookings |-> Stage(c)] EXCEPT ![b] = "completed"]
    BY <1>1, <2>3, OtherStages, StageMoves DEF Edits
  <2>5. {c \in Bookings : LiveBooking(c) /\ bookSession[c].payment_status = "paid"}'
          = {c \in Bookings : LiveBooking(c) /\ bookSession[c].payment_status = "paid"}
    BY <1>1 DEF Edits, Keeps
  <2> QED
    BY <2>3, <2>4, <2>5 DEF Abstract!Complete
<1> QED
  BY <1>2, <1>3

(* Every step of the services is a step of the contract or changes nothing *)
(* of it.                                                                  *)
LEMMA ContractStep ==
  ASSUME TypeOK, References, PaymentInv, CronInv, [Next]_vars
  PROVE  [Abstract!CNext]_(Abstract!cvars)
<1>1. ASSUME NEW h \in Handlers, NEW b \in Bookings, BookCreate(h, b)
      PROVE [Abstract!CNext]_(Abstract!cvars)
  BY <1>1, CreateContract DEF Abstract!CNext
<1>2. ASSUME NEW h \in Handlers, JoinUpdate(h) PROVE [Abstract!CNext]_(Abstract!cvars)
  BY <1>2, JoinContract, JoinWrites DEF Abstract!CNext
<1>3. ASSUME NEW h \in Handlers, CancelUpdate(h) PROVE [Abstract!CNext]_(Abstract!cvars)
  BY <1>3, CancelWrites, ContractStutters DEF Edits, Keeps
<1>4. ASSUME NEW h \in Handlers, RequestFlag(h) PROVE [Abstract!CNext]_(Abstract!cvars)
  BY <1>4, FlagWrites, ContractStutters DEF Edits, Keeps
<1>5. ASSUME NEW h \in Handlers, StartBookings(h)
      PROVE [Abstract!CNext]_(Abstract!cvars)
  BY <1>5, StartWrites, ContractStutters DEF Edits, Keeps
<1>6. ASSUME NEW h \in Handlers, DeleteRow(h) PROVE [Abstract!CNext]_(Abstract!cvars)
  BY <1>6, DeleteWrites, ContractStutters DEF Edits, Keeps
<1>7. ASSUME NEW b \in Bookings, NEW z \in Sessions \cup {NULL}, CronBooking(b, z)
      PROVE [Abstract!CNext]_(Abstract!cvars)
  BY <1>7, CronContract DEF Abstract!CNext
<1>8. ASSUME NEW e \in StripeEvent, WebhookSucceeded(e)
      PROVE [Abstract!CNext]_(Abstract!cvars)
  BY <1>8, WebhookContract, WebhookWrites DEF Abstract!CNext
<1> USE DEF LiveBooking, allButHandler
<1>9. ASSUME NEW h \in Handlers, NEW u \in Students, NEW s \in Sessions, NEW d \in Dates,
            Book(h, u, s, d) PROVE [Abstract!CNext]_(Abstract!cvars)
  BY <1>9, ContractStutters DEF Book
<1>10. ASSUME NEW h \in Handlers, BookFind(h) PROVE [Abstract!CNext]_(Abstract!cvars)
  BY <1>10, ContractStutters DEF BookFind
<1>11. ASSUME NEW h \in Handlers, BookOrphan(h) PROVE [Abstract!CNext]_(Abstract!cvars)
  BY <1>11, ContractStutters DEF BookOrphan
<1>12. ASSUME NEW h \in Handlers, BookCount(h) PROVE [Abstract!CNext]_(Abstract!cvars)
  BY <1>12, ContractStutters DEF BookCount
<1>13. ASSUME NEW h \in Handlers, NEW b \in Bookings, Join(h, b)
      PROVE [Abstract!CNext]_(Abstract!cvars)
  BY <1>13, ContractStutters DEF Join
<1>14. ASSUME NEW h \in Handlers, NEW b \in Bookings, Cancel(h, b)
      PROVE [Abstract!CNext]_(Abstract!cvars)
  BY <1>14, ContractStutters DEF Cancel
<1>15. ASSUME NEW h \in Handlers, NEW b \in Bookings, RequestReschedule(h, b)
      PROVE [Abstract!CNext]_(Abstract!cvars)
  BY <1>15, ContractStutters DEF RequestReschedule
<1>16. ASSUME NEW h \in Handlers, RequestFind(h) PROVE [Abstract!CNext]_(Abstract!cvars)
  BY <1>16, ContractStutters DEF RequestFind
<1>17. ASSUME NEW h \in Handlers, RequestCreate(h)
      PROVE [Abstract!CNext]_(Abstract!cvars)
  BY <1>17, ContractStutters DEF RequestCreate
<1>18. ASSUME NEW t \in Teachers, NEW s \in Sessions, Create(t, s)
      PROVE [Abstract!CNext]_(Abstract!cvars)
  BY <1>18, ContractStutters DEF Create
<1>19. ASSUME NEW h \in Handlers, NEW t \in Teachers, NEW s \in Sessions, Edit(h, t, s)
      PROVE [Abstract!CNext]_(Abstract!cvars)
  BY <1>19, ContractStutters DEF Edit
<1>20. ASSUME NEW h \in Handlers, EditUpdate(h) PROVE [Abstract!CNext]_(Abstract!cvars)
  BY <1>20, ContractStutters DEF EditUpdate
<1>21. ASSUME NEW h \in Handlers, NEW t \in Teachers, NEW s \in Sessions, Start(h, t, s)
      PROVE [Abstract!CNext]_(Abstract!cvars)
  BY <1>21, ContractStutters DEF Start
<1>22. ASSUME NEW h \in Handlers, StartSession(h)
      PROVE [Abstract!CNext]_(Abstract!cvars)
  BY <1>22, ContractStutters DEF StartSession
<1>23. ASSUME NEW h \in Handlers, NEW t \in Teachers, NEW s \in Sessions,
            Remove(h, t, s) PROVE [Abstract!CNext]_(Abstract!cvars)
  BY <1>23, ContractStutters DEF Remove
<1>24. ASSUME NEW h \in Handlers, NEW s \in Sessions, AdminDelete(h, s)
      PROVE [Abstract!CNext]_(Abstract!cvars)
  BY <1>24, ContractStutters DEF AdminDelete
<1>25. ASSUME NEW h \in Handlers, NEW t \in Teachers, NEW b \in Bookings,
            NEW a \in {"accept.update", "reject.update"}, HandleRequest(h, t, b, a)
      PROVE [Abstract!CNext]_(Abstract!cvars)
  BY <1>25, ContractStutters DEF HandleRequest
<1>26. ASSUME NEW h \in Handlers, AcceptUpdate(h)
      PROVE [Abstract!CNext]_(Abstract!cvars)
  BY <1>26, ContractStutters DEF AcceptUpdate
<1>27. ASSUME NEW h \in Handlers, RejectUpdate(h)
      PROVE [Abstract!CNext]_(Abstract!cvars)
  BY <1>27, ContractStutters DEF RejectUpdate
<1>28. ASSUME CronFind PROVE [Abstract!CNext]_(Abstract!cvars)
  BY <1>28, ContractStutters DEF CronFind
<1>29. ASSUME CronSession PROVE [Abstract!CNext]_(Abstract!cvars)
  BY <1>29, ContractStutters DEF CronSession
<1>30. ASSUME CronFails PROVE [Abstract!CNext]_(Abstract!cvars)
  BY <1>30, ContractStutters DEF CronFails
<1>31. ASSUME NEW h \in Handlers, NEW u \in Students, NEW b \in Bookings, Pay(h, u, b)
      PROVE [Abstract!CNext]_(Abstract!cvars)
  BY <1>31, ContractStutters DEF Pay
<1>32. ASSUME NEW h \in Handlers, NEW i \in Intents, PayIntent(h, i)
      PROVE [Abstract!CNext]_(Abstract!cvars)
  BY <1>32, ContractStutters DEF PayIntent
<1>33. ASSUME NEW i \in Intents, NEW o \in {"succeeded", "payment_failed", "canceled"},
            Settled(i, o) PROVE [Abstract!CNext]_(Abstract!cvars)
  BY <1>33, ContractStutters DEF Settled
<1>34. ASSUME NEW e \in StripeEvent, WebhookNotSucceeded(e)
      PROVE [Abstract!CNext]_(Abstract!cvars)
  BY <1>34, ContractStutters DEF WebhookNotSucceeded
<1>35. ASSUME NEW e \in StripeEvent, WebhookFails(e)
      PROVE [Abstract!CNext]_(Abstract!cvars)
  BY <1>35, ContractStutters DEF WebhookFails
<1>36. ASSUME Tick PROVE [Abstract!CNext]_(Abstract!cvars)
  BY <1>36, ContractStutters DEF Tick
<1>37. ASSUME Crash PROVE [Abstract!CNext]_(Abstract!cvars)
  BY <1>37, ContractStutters DEF Crash
<1>38. ASSUME NEW h \in Handlers, StatementFails(h)
      PROVE [Abstract!CNext]_(Abstract!cvars)
  BY <1>38, ContractStutters DEF StatementFails
<1>39. CASE UNCHANGED vars
  BY <1>39, ContractStutters DEF vars
<1> QED
  BY <1>1, <1>2, <1>3, <1>4, <1>5, <1>6, <1>7, <1>8, <1>9, <1>10, <1>11, <1>12,
     <1>13, <1>14, <1>15, <1>16, <1>17, <1>18, <1>19, <1>20, <1>21, <1>22,
     <1>23, <1>24, <1>25, <1>26, <1>27, <1>28, <1>29, <1>30, <1>31, <1>32,
     <1>33, <1>34, <1>35, <1>36, <1>37, <1>38, <1>39 DEF Next, StudentsNext,
     TeachersNext, SchedulerNext, CronStep, StripeNext

----------------------------------------------------------------------------
(* The inductive invariant and what follows from it.                       *)

IInv ==
  /\ TypeOK /\ References
  /\ PaymentInv /\ CronInv /\ RequestInv /\ StartReachesSession

(* The empty tables satisfy the invariant.                                 *)
LEMMA InitEstablishes ==
  ASSUME Init
  PROVE  IInv
<1> USE DEF Init
<1>1. TypeOK
  BY DEF TypeOK, Idle, HandlerState, CronIdle, Decision
<1>2. References /\ StartReachesSession
  BY DEF References, StartReachesSession, LiveBooking, Idle, BookingSteps, CronIdle
<1>3. PaymentInv
  BY DEF PaymentInv, PaidBeforeJoined, PaidWasCharged, JoinReads, EventReads,
         LiveBooking, At, Idle
<1>4. CronInv
  BY DEF CronInv, CompletedWasHeld, CompletedSessionHasCompletedBooking, CronReads,
         LiveBooking, LiveSession, CronIdle
<1>5. RequestInv
  BY DEF RequestInv, FlaggedHasRequest, StatusBackedByFlags, RequestReads,
         RequestReachesBooking, LiveBooking, At, Idle
<1> QED
  BY <1>1, <1>2, <1>3, <1>4, <1>5 DEF IInv

(* Every step of any request, of the cron job and of Stripe preserves it.  *)
LEMMA StepPreserves ==
  ASSUME IInv, [Next]_vars
  PROVE  IInv'
BY TypeStep, ReferencesStep, PaymentStep, CronStepInv, RequestStep, StartStep DEF IInv

(* So it holds in every state the services reach, for any number of users, *)
(* rows and concurrent requests.                                           *)
THEOREM Invariance == Spec => []IInv
BY InitEstablishes, StepPreserves, PTL DEF Spec

(* The tables never hold more rows than were inserted one by one: the live *)
(* rows of book_sessions and create_sessions are finitely many, whatever   *)
(* ids there are.                                                          *)
LiveIds == {s \in Sessions : LiveSession(s)}

TablesFinite == IsFiniteSet(LiveRows) /\ IsFiniteSet(LiveIds)

(* A step inserts at most one booking: it is one of the contract.          *)
LEMMA OneMoreBooking ==
  ASSUME TypeOK, References, PaymentInv, CronInv, [Next]_vars
  PROVE  \E b : LiveRows' \subseteq LiveRows \cup {b}
<1>1. [Abstract!CNext]_(Abstract!cvars)
  BY ContractStep
<1>2. \A b \in Bookings : LiveBooking(b) <=> Stage(b) # "none"
  BY DEF Stage
<1>3. \A b \in Bookings : LiveBooking(b)' <=> Stage(b)' # "none"
  BY DEF Stage
<1>4. ASSUME NEW b, \A c \in Bookings : c # b => Stage(c)' = Stage(c)
      PROVE  \E c : LiveRows' \subseteq LiveRows \cup {c}
  <2>1. LiveRows' \subseteq LiveRows \cup {b}
    BY <1>2, <1>3, <1>4 DEF LiveRows
  <2> QED
    BY <2>1
<1>5. CASE UNCHANGED Abstract!cvars
  <2>1. [c \in Bookings |-> Stage(c)]' = [c \in Bookings |-> Stage(c)]
    BY <1>5 DEF Abstract!cvars
  <2>2. \A c \in Bookings : Stage(c)' = Stage(c)
    <3>1. \A c \in Bookings : [d \in Bookings |-> Stage(d)]'[c] = [d \in Bookings |-> Stage(d)][c]
      BY <2>1
    <3> QED
      BY <3>1
  <2> QED
    BY <1>4, <2>2
<1>6. CASE Abstract!CNext
  <2>1. PICK b \in Bookings : Abstract!Make(b) \/ Abstract!MarkPaid(b) \/ Abstract!Attend(b)
                                \/ Abstract!Complete(b)
    BY <1>6 DEF Abstract!CNext
  <2>2. \E st : [c \in Bookings |-> Stage(c)]' = [[c \in Bookings |-> Stage(c)] EXCEPT ![b] = st]
    <3>1. CASE Abstract!MarkPaid(b)
      <4>1. [c \in Bookings |-> Stage(c)]' = [[c \in Bookings |-> Stage(c)] EXCEPT ![b] = Stage(b)]
        BY <3>1 DEF Abstract!MarkPaid
      <4> QED
        BY <4>1
    <3> QED
      BY <2>1, <3>1 DEF Abstract!Make, Abstract!Attend, Abstract!Complete
  <2>3. \A c \in Bookings : c # b => Stage(c)' = Stage(c)
    <3>1. \A c \in Bookings : c # b =>
            [d \in Bookings |-> Stage(d)]'[c] = [d \in Bookings |-> Stage(d)][c]
      BY <2>2
    <3> QED
      BY <3>1
  <2> QED
    BY <1>4, <2>3
<1> QED
  BY <1>1, <1>5, <1>6

(* And at most one session, by create.                                     *)
LEMMA OneMoreSession ==
  ASSUME TypeOK, [Next]_vars
  PROVE  \E s : LiveIds' \subseteq LiveIds \cup {s}
<1> DEFINE Grows == \E s : LiveIds' \subseteq LiveIds \cup {s}
<1>1. ASSUME \A s \in Sessions : LiveSession(s)' => LiveSession(s) PROVE Grows
  <2>1. LiveIds' \subseteq LiveIds \cup {NULL}
    BY <1>1 DEF LiveIds
  <2> QED
    BY <2>1
<1>2. CASE UNCHANGED createSession
  BY <1>1, <1>2 DEF LiveSession
<1>3. CASE SessionEdit
  BY <1>1, <1>3, SessionEdits
<1>4. ASSUME NEW t \in Teachers, NEW s \in Sessions, Create(t, s) PROVE Grows
  <2>1. \A c \in Sessions : c # s => createSession'[c] = createSession[c]
    BY <1>4 DEF Create, TypeOK
  <2>2. LiveIds' \subseteq LiveIds \cup {s}
    BY <2>1 DEF LiveIds, LiveSession
  <2> QED
    BY <2>2
<1>5. ASSUME NEW h \in Handlers, DeleteRow(h) PROVE Grows
  <2>1. \A c \in Sessions : createSession'[c] = createSession[c] \/ createSession'[c] = Deleted
    BY <1>5 DEF DeleteRow, TypeOK
  <2> QED
    BY <1>1, <2>1 DEF LiveSession
<1>6. CASE StudentsNext
  BY <1>2, <1>3, <1>6 DEF StudentsNext, SessionEdit, Book, BookCreate, Join, Cancel,
     RequestReschedule, BookFind, BookOrphan, JoinUpdate, CancelUpdate, RequestFind, RequestCreate, RequestFlag,
     allButHandler
<1>7. CASE TeachersNext
  BY <1>2, <1>3, <1>4, <1>5, <1>7 DEF TeachersNext, SessionEdit, Edit, Start, Remove, AdminDelete,
     HandleRequest, StartBookings, AcceptUpdate, RejectUpdate, allButHandler
<1>8. CASE SchedulerNext
  BY <1>2, <1>3, <1>8 DEF SchedulerNext, SessionEdit, CronFind, CronStep, CronBooking, CronFails
<1>9. CASE StripeNext
  BY <1>2, <1>9 DEF StripeNext, Pay, PayIntent, Settled, WebhookSucceeded, WebhookNotSucceeded,
     WebhookFails, allButHandler
<1>10. CASE Tick \/ Crash \/ UNCHANGED vars \/ \E h \in Handlers : StatementFails(h)
  BY <1>2, <1>10 DEF Tick, Crash, vars, StatementFails
<1> QED
  BY <1>6, <1>7, <1>8, <1>9, <1>10 DEF Next

(* One element more leaves a set finite.                                   *)
LEMMA GrowsFinite ==
  ASSUME NEW S, IsFiniteSet(S), NEW T, NEW x, T \subseteq S \cup {x}
  PROVE  IsFiniteSet(T)
<1>1. IsFiniteSet(S \cup {x})
  BY FS_AddElement
<1> QED
  BY <1>1, FS_Subset

(* So a step leaves the tables finite.                                     *)
LEMMA TablesStayFinite ==
  ASSUME IInv, TablesFinite, [Next]_vars
  PROVE  TablesFinite'
<1>1. IsFiniteSet(LiveRows')
  <2>1. PICK b : LiveRows' \subseteq LiveRows \cup {b}
    BY OneMoreBooking DEF IInv
  <2> QED
    BY <2>1, GrowsFinite DEF TablesFinite
<1>2. IsFiniteSet(LiveIds')
  <2>1. PICK s : LiveIds' \subseteq LiveIds \cup {s}
    BY OneMoreSession DEF IInv
  <2> QED
    BY <2>1, GrowsFinite DEF TablesFinite
<1> QED
  BY <1>1, <1>2 DEF TablesFinite

(* The tables of bookings and sessions stay finite, though Bookings and    *)
(* Sessions need not be: a handler's statement inserts one row at a time   *)
(* (bookASession, create).                                                 *)
THEOREM TablesCorrect == Spec => []TablesFinite
<1>1. Init => TablesFinite
  <2> SUFFICES ASSUME Init PROVE TablesFinite
    OBVIOUS
  <2>1. LiveRows = {} /\ LiveIds = {}
    BY DEF Init, LiveRows, LiveIds, LiveBooking, LiveSession
  <2> QED
    BY <2>1, FS_EmptySet DEF TablesFinite
<1>2. IInv /\ TablesFinite /\ [Next]_vars => TablesFinite'
  BY TablesStayFinite
<1> QED
  BY <1>1, <1>2, Invariance, PTL DEF Spec

(* Whatever the requests, the cron job and Stripe do in whatever order,    *)
(* the tables and the requests in progress keep their types.               *)
THEOREM TypeCorrect == Spec => []TypeOK
<1>1. IInv => TypeOK
  BY DEF IInv
<1> QED
  BY <1>1, Invariance, PTL

(* No table, request, batch or event refers to a row that is not there     *)
(* (References), although ids are read statements before they are used.    *)
THEOREM ReferencesHold == Spec => []References
<1>1. IInv => References
  BY DEF IInv
<1> QED
  BY <1>1, Invariance, PTL

(* What joinsession, requestRescheduleSession, handleRequest, the cron job *)
(* and the webhook read earlier is still so when they write.               *)
THEOREM ReadsHold == Spec => []ReadsStillHold
<1>1. IInv => ReadsStillHold
  BY DEF IInv, PaymentInv, CronInv, RequestInv, ReadsStillHold
<1> QED
  BY <1>1, Invariance, PTL

(* A joined booking is paid (joinsession), a paid booking was charged by   *)
(* Stripe (handleWebhook).                                                 *)
THEOREM PaymentCorrect == Spec => [](PaidBeforeJoined /\ PaidWasCharged)
<1>1. IInv => PaidBeforeJoined /\ PaidWasCharged
  BY DEF IInv, PaymentInv
<1> QED
  BY <1>1, Invariance, PTL

(* The cron job completes what was joined and is over, and a session after *)
(* one of its bookings, with the batch stopped anywhere.                   *)
THEOREM CronCorrect == Spec => [](CompletedWasHeld /\ CompletedSessionHasCompletedBooking)
<1>1. IInv => CompletedWasHeld /\ CompletedSessionHasCompletedBooking
  BY DEF IInv, CronInv
<1> QED
  BY <1>1, Invariance, PTL

(* Reschedule rows and flags agree in both directions: only a failure      *)
(* leaves a request unflagged (requestRescheduleSession).                  *)
THEOREM RequestCorrect == Spec => []RequestsAgree
<1>1. IInv => RequestsAgree
  BY DEF IInv, RequestInv, RequestsAgree
<1> QED
  BY <1>1, Invariance, PTL

(* The status text, which the cron job and requestRescheduleSession write  *)
(* over each other, never runs ahead of the flags.                         *)
THEOREM StatusCorrect == Spec => []StatusBackedByFlags
<1>1. IInv => StatusBackedByFlags
  BY DEF IInv, RequestInv
<1> QED
  BY <1>1, Invariance, PTL

(* startASession marks the session of every booking it stamps, unless      *)
(* something fails in between.                                             *)
THEOREM StartCorrect == Spec => []StartReachesSession
<1>1. IInv => StartReachesSession
  BY DEF IInv
<1> QED
  BY <1>1, Invariance, PTL

(* A completed session has a completed booking, which was joined, and so   *)
(* paid.                                                                   *)
LEMMA EarningsInv ==
  ASSUME IInv
  PROVE  EarnedWasPaid
<1> SUFFICES ASSUME NEW t \in Teachers, NEW s \in CompletedSessions(t)
             PROVE  s \in PaidSessions(t)
  BY DEF EarnedWasPaid
<1>1. s \in SessionsOf(t) /\ s \in Sessions /\ LiveSession(s) /\ createSession[s].is_completed
  BY DEF CompletedSessions, SessionsOf, Owns
<1>2. PICK b \in BookingsOf(s) : bookSession[b].is_completed
  BY <1>1 DEF IInv, CronInv, CompletedSessionHasCompletedBooking
<1>3. bookSession[b].payment_status = "paid"
  BY <1>2 DEF IInv, CronInv, CompletedWasHeld, PaymentInv, PaidBeforeJoined, BookingsOf
<1> QED
  BY <1>1, <1>2, <1>3 DEF PaidSessions

(* What getStates shows a teacher as earned is of sessions that            *)
(* findTutorSessionStates shows an administrator as paid.                  *)
THEOREM EarningsCorrect == Spec => []EarnedWasPaid
<1>1. IInv => EarnedWasPaid
  BY EarningsInv
<1> QED
  BY <1>1, Invariance, PTL

(* The slot counter of a session stays between a value its teacher gave    *)
(* and that less the bookings made, whatever writes of bookASession and of *)
(* the teacher's edit lose, for any number of overlapping requests.        *)
THEOREM SlotsCorrect == Spec => []SlotsAccounted
<1>1. Init => SlotsInv
  BY DEF Init, SlotsInv, Counted, LiveSession, At, Idle, BookSteps
<1>2. IInv /\ TablesFinite /\ SlotsInv /\ [Next]_vars => SlotsInv'
  BY SlotsStep, StepPreserves, TablesStayFinite DEF IInv, TablesFinite, RowsFinite
<1>3. SlotsInv => SlotsAccounted
  BY DEF SlotsInv, SlotsAccounted, Counts, Backed, Made
<1> QED
  BY <1>1, <1>2, <1>3, Invariance, TablesCorrect, PTL DEF Spec

(* The services implement the contract of a booking: made once, joined     *)
(* only when paid, completed only when joined, nothing taken back.         *)
THEOREM ContractImplemented == Spec => ContractKept
<1>1. Init => Abstract!CInit
  BY DEF Init, Abstract!CInit, Stage, LiveBooking
<1>2. IInv /\ [Next]_vars => [Abstract!CNext]_(Abstract!cvars)
  BY ContractStep DEF IInv
<1> QED
  BY <1>1, <1>2, Invariance, PTL DEF Spec, ContractKept, Abstract!Contract

----------------------------------------------------------------------------
(* One request at a time.  The services' messages promise more than they   *)
(* keep: 'Cannot join a cancelled session' is decided on a row read one    *)
(* statement before the write.  What follows proves the promises for any   *)
(* tables and any length of a run, with the cron job, Stripe, crashes and  *)
(* failing statements interleaved, as long as there is only one request in *)
(* progress; it is the overlap of requests, and nothing else, that breaks  *)
(* them.                                                                   *)
OneAtATime == \A g, h \in Handlers : g = h

(* What a request has read is still so when it writes.                     *)
Fresh(h) ==
  LET b == handler[h].booking IN
  /\ At(h, "join.update") => ~bookSession[b].is_cancelled
  /\ At(h, "cancel.update") => ~bookSession[b].is_joined
  /\ handler[h].pc \in {"request.find", "request.create"} =>
       ~bookSession[b].is_joined /\ ~bookSession[b].is_cancelled
  /\ handler[h].pc \in {"accept.update", "reject.update"} => Undecided(b)
  /\ At(h, "book.create") =>
       ~AlreadyBooked(handler[h].user, handler[h].session, handler[h].date)

SoloInv == JoinedNotCancelled /\ NoDoubleBooking /\ \A h \in Handlers : Fresh(h)

(* The statements decided on something read before.                        *)
Deciding == {"join.update", "cancel.update", "request.find", "request.create",
             "accept.update", "reject.update", "book.create"}

(* A request that is about to issue any other has nothing to keep fresh.   *)
LEMMA Careless ==
  ASSUME NEW h \in Handlers, handler[h].pc \notin Deciding
  PROVE  Fresh(h)
BY DEF Fresh, At, Deciding

(* A step that writes neither bookings nor reschedule requests and leaves  *)
(* each request where it was, or where it holds something fresh.           *)
LEMMA SoloReads ==
  ASSUME SoloInv, UNCHANGED <<bookSession, reschedule>>,
         \A h \in Handlers : handler'[h] = handler[h] \/ Fresh(h)'
  PROVE  SoloInv'
<1>1. JoinedNotCancelled' /\ NoDoubleBooking'
  BY DEF SoloInv, JoinedNotCancelled, NoDoubleBooking, LiveBooking
<1>2. ASSUME NEW h \in Handlers, handler'[h] = handler[h] PROVE Fresh(h)'
  BY <1>2 DEF SoloInv, Fresh, At, Undecided, AlreadyBooked, BookingsOf, LiveBooking
<1> QED
  BY <1>1, <1>2 DEF SoloInv

(* One request goes on, or begins, with something fresh.                   *)
LEMMA SoloMoves ==
  ASSUME TypeOK, SoloInv, NEW h \in Handlers, NEW st,
         UNCHANGED <<bookSession, reschedule>>,
         handler' = [handler EXCEPT ![h] = st], handler'[h] = st => Fresh(h)'
  PROVE  SoloInv'
BY SoloReads DEF TypeOK

(* Or without deciding anything.                                           *)
LEMMA SoloElse ==
  ASSUME TypeOK, SoloInv, NEW h \in Handlers, NEW st,
         UNCHANGED <<bookSession, reschedule>>,
         handler' = [handler EXCEPT ![h] = st], st.pc \notin Deciding
  PROVE  SoloInv'
<1>1. handler'[h] = st => Fresh(h)'
  BY DEF Fresh, At, Deciding
<1> QED
  BY <1>1, SoloMoves

(* A step that edits bookings in columns no request decides on, and moves  *)
(* no request.                                                             *)
LEMMA SoloBeside ==
  ASSUME TypeOK, SoloInv, References, NEW rows, NEW columns, Edits(rows, columns),
         columns \cap {"is_joined", "is_cancelled", "create_session_id"} = {},
         UNCHANGED <<handler, reschedule>>
  PROVE  SoloInv'
<1>1. \A b \in Bookings :
        /\ LiveBooking(b)' <=> LiveBooking(b)
        /\ LiveBooking(b) =>
             /\ bookSession'[b].is_joined = bookSession[b].is_joined
             /\ bookSession'[b].is_cancelled = bookSession[b].is_cancelled
             /\ bookSession'[b].create_session_id = bookSession[b].create_session_id
             /\ bookSession'[b].user_id = bookSession[b].user_id
             /\ bookSession'[b].session_date = bookSession[b].session_date
  BY DEF Edits, Keeps
<1>2. JoinedNotCancelled'
  BY <1>1 DEF SoloInv, JoinedNotCancelled
<1>3. NoDoubleBooking'
  BY <1>1 DEF SoloInv, NoDoubleBooking
<1>4. ASSUME NEW h \in Handlers PROVE Fresh(h)'
  <2>1. handler[h].pc \in BookingSteps =>
          handler[h].booking \in Bookings /\ LiveBooking(handler[h].booking)
    BY HandlerTypes DEF References
  <2>2. \A u, s, d : AlreadyBooked(u, s, d)' <=> AlreadyBooked(u, s, d)
    BY <1>1 DEF AlreadyBooked, BookingsOf
  <2> QED
    BY <1>1, <2>1, <2>2 DEF SoloInv, Fresh, At, Undecided, BookingSteps
<1> QED
  BY <1>2, <1>3, <1>4 DEF SoloInv

(* The one request there is writes; no other has anything to keep fresh.   *)
LEMMA SoloWrites ==
  ASSUME OneAtATime, NEW h \in Handlers, JoinedNotCancelled', NoDoubleBooking', Fresh(h)'
  PROVE  SoloInv'
BY DEF OneAtATime, SoloInv

(* A write that keeps session, user and date of every booking makes no     *)
(* double one; nor does clearing the session of some.                      *)
LEMMA StaysSingle ==
  ASSUME NoDoubleBooking, NEW rows, NEW columns, Edits(rows, columns),
         \A b \in Bookings : LiveBooking(b) =>
           \/ bookSession'[b].create_session_id = bookSession[b].create_session_id
           \/ bookSession'[b].create_session_id = NULL
  PROVE  NoDoubleBooking'
<1>1. \A b \in Bookings :
        /\ LiveBooking(b)' <=> LiveBooking(b)
        /\ LiveBooking(b) =>
             /\ bookSession'[b].user_id = bookSession[b].user_id
             /\ bookSession'[b].session_date = bookSession[b].session_date
  BY DEF Edits, Keeps
<1> QED
  BY <1>1 DEF NoDoubleBooking

(* A write that joins and cancels nothing.                                 *)
LEMMA StaysApart ==
  ASSUME JoinedNotCancelled, NEW rows, NEW columns, Edits(rows, columns),
         columns \cap {"is_joined", "is_cancelled"} = {}
  PROVE  JoinedNotCancelled'
BY DEF JoinedNotCancelled, Edits, Keeps

(* bookASession inserts what it has looked for and not found.              *)
LEMMA SoloBookCreate ==
  ASSUME TypeOK, SoloInv, OneAtATime, NEW h \in Handlers, NEW b \in Bookings, BookCreate(h, b)
  PROVE  SoloInv'
<1> DEFINE row == NewBooking(handler[h].user, handler[h].session, handler[h].date)
<1>1. /\ row \in BookingRow /\ ~LiveBooking(b) /\ bookSession' = [bookSession EXCEPT ![b] = row]
      /\ handler' = [handler EXCEPT ![h].pc = "book.count"]
      /\ ~AlreadyBooked(row.user_id, row.create_session_id, row.session_date)
  BY NewRow DEF BookCreate, Goto, SoloInv, Fresh, NewBooking
<1>2. /\ bookSession'[b] = row /\ LiveBooking(b)' /\ ~row.is_joined
      /\ \A c \in Bookings : c # b =>
           bookSession'[c] = bookSession[c] /\ (LiveBooking(c)' <=> LiveBooking(c))
  BY <1>1, RowAssumption DEF TypeOK, LiveBooking, NewBooking
<1>3. JoinedNotCancelled'
  BY <1>2 DEF SoloInv, JoinedNotCancelled
<1>4. NoDoubleBooking'
  <2>1. \A c \in Bookings : c # b /\ LiveBooking(c) =>
          \/ row.user_id # bookSession[c].user_id
          \/ row.create_session_id # bookSession[c].create_session_id
          \/ row.session_date # bookSession[c].session_date
    BY <1>1 DEF AlreadyBooked, BookingsOf
  <2> QED
    BY <1>2, <2>1 DEF SoloInv, NoDoubleBooking
<1>5. Fresh(h)'
  <2>1. handler[h] \in [pc: {"book.find", "book.create", "book.count"}, user: Students,
                        session: Sessions, date: Dates, slots: SlotValues]
    BY DEF BookCreate, At, TypeOK, HandlerState, Idle
  <2>2. handler'[h].pc = "book.count"
    BY <1>1, <2>1 DEF TypeOK
  <2> QED
    BY <2>2 DEF Fresh, At
<1> QED
  BY <1>3, <1>4, <1>5, SoloWrites

(* joinsession joins what it has seen uncancelled.                         *)
LEMMA SoloJoin ==
  ASSUME TypeOK, References, SoloInv, OneAtATime, NEW h \in Handlers, JoinUpdate(h)
  PROVE  SoloInv'
<1> DEFINE b == handler[h].booking
<1>1. /\ b \in Bookings /\ LiveBooking(b) /\ Edits({b}, {"is_joined"})
      /\ ~bookSession[b].is_cancelled /\ handler'[h] = Idle
  BY JoinWrites DEF JoinUpdate, Finish, SoloInv, Fresh, TypeOK
<1>2. JoinedNotCancelled'
  BY <1>1 DEF SoloInv, JoinedNotCancelled, Edits, Keeps
<1>3. NoDoubleBooking'
  BY <1>1, StaysSingle DEF SoloInv, Edits, Keeps
<1>4. Fresh(h)'
  BY <1>1 DEF Fresh, At, Idle
<1> QED
  BY <1>2, <1>3, <1>4, SoloWrites

(* cancellSession cancels what it has seen unjoined.                       *)
LEMMA SoloCancel ==
  ASSUME TypeOK, References, SoloInv, OneAtATime, NEW h \in Handlers, CancelUpdate(h)
  PROVE  SoloInv'
<1> DEFINE b == handler[h].booking
<1>1. Edits({b}, {"is_cancelled"}) /\ ~bookSession[b].is_joined /\ handler'[h] = Idle
  BY CancelWrites DEF CancelUpdate, Finish, SoloInv, Fresh, TypeOK
<1>2. JoinedNotCancelled'
  BY <1>1 DEF SoloInv, JoinedNotCancelled, Edits, Keeps
<1>3. NoDoubleBooking'
  BY <1>1, StaysSingle DEF SoloInv, Edits, Keeps
<1>4. Fresh(h)'
  BY <1>1 DEF Fresh, At, Idle
<1> QED
  BY <1>2, <1>3, <1>4, SoloWrites

(* Every step keeps what was read fresh: the writes first, then the reads  *)
(* a write is decided on, then the rest.                                   *)
LEMMA SoloStep ==
  ASSUME TypeOK, References, SoloInv, OneAtATime, [Next]_vars
  PROVE  SoloInv'
<1>1. ASSUME NEW h \in Handlers, NEW b \in Bookings, BookCreate(h, b) PROVE SoloInv'
  BY <1>1, SoloBookCreate
<1>2. ASSUME NEW h \in Handlers, JoinUpdate(h) PROVE SoloInv'
  BY <1>2, SoloJoin
<1>3. ASSUME NEW h \in Handlers, CancelUpdate(h) PROVE SoloInv'
  BY <1>3, SoloCancel
<1>4. ASSUME NEW h \in Handlers, RequestFlag(h) PROVE SoloInv'
  <2>1. handler'[h] = Idle
    BY <1>4 DEF RequestFlag, Finish, TypeOK
  <2>2. Edits({handler[h].booking}, {"is_request_for_reschedule", "status"})
    BY <1>4, FlagWrites
  <2>3. JoinedNotCancelled' /\ NoDoubleBooking'
    BY <2>2, StaysApart, StaysSingle DEF SoloInv, Edits, Keeps
  <2> QED
    BY <2>1, <2>3, SoloWrites DEF Fresh, At, Idle
<1>5. ASSUME NEW h \in Handlers, StartBookings(h) PROVE SoloInv'
  <2>1. handler'[h].pc = "start.session"
    BY <1>5 DEF StartBookings, At, Goto, TypeOK, HandlerState, Idle
  <2>2. Edits(BookingsOf(handler[h].session), {"started_at"})
    BY <1>5, StartWrites
  <2>3. JoinedNotCancelled' /\ NoDoubleBooking'
    BY <2>2, StaysApart, StaysSingle DEF SoloInv, Edits, Keeps
  <2> QED
    BY <2>1, <2>3, SoloWrites DEF Fresh, At
<1>6. ASSUME NEW h \in Handlers, DeleteRow(h) PROVE SoloInv'
  <2>1. handler'[h] = Idle
    BY <1>6 DEF DeleteRow, Finish, TypeOK
  <2>2. Edits(BookingsOf(handler[h].session), {"create_session_id"})
    BY <1>6, DeleteWrites
  <2>3. JoinedNotCancelled'
    BY <2>2, StaysApart DEF SoloInv
  <2>4. NoDoubleBooking'
    BY <1>6, <2>2, DeleteWrites, StaysSingle DEF SoloInv
  <2> QED
    BY <2>1, <2>3, <2>4, SoloWrites DEF Fresh, At, Idle
<1>7. ASSUME NEW b \in Bookings, NEW z \in Sessions \cup {NULL}, CronBooking(b, z) PROVE SoloInv'
  BY <1>7, CronWrites, SoloBeside DEF CronBooking
<1>8. ASSUME NEW e \in StripeEvent, WebhookSucceeded(e) PROVE SoloInv'
  BY <1>8, WebhookWrites, SoloBeside DEF WebhookSucceeded
<1>9. ASSUME NEW h \in Handlers, RequestCreate(h) \/ AcceptUpdate(h) \/ RejectUpdate(h)
      PROVE  SoloInv'
  <2>1. JoinedNotCancelled' /\ NoDoubleBooking'
    BY <1>9 DEF RequestCreate, AcceptUpdate, RejectUpdate, SoloInv, JoinedNotCancelled,
       NoDoubleBooking, LiveBooking
  <2>2. handler'[h].pc \in {"request.flag", "idle"}
    BY <1>9 DEF RequestCreate, AcceptUpdate, RejectUpdate, At, Goto, Finish, TypeOK,
       HandlerState, Idle
  <2> QED
    BY <2>1, <2>2, SoloWrites DEF Fresh, At
<1>10. ASSUME NEW h \in Handlers, BookFind(h) PROVE SoloInv'
  <2>1. CASE AlreadyBooked(handler[h].user, handler[h].session, handler[h].date)
    BY <1>10, <2>1, SoloElse DEF BookFind, Finish, Idle, Deciding, allButHandler
  <2>2. CASE ~AlreadyBooked(handler[h].user, handler[h].session, handler[h].date)
    <3>1. /\ handler' = [handler EXCEPT ![h] = [handler[h] EXCEPT !.pc = "book.create"]]
          /\ UNCHANGED <<bookSession, reschedule>>
      BY <1>10, <2>2 DEF BookFind, Goto, allButHandler, TypeOK
    <3>2. /\ handler'[h].user = handler[h].user /\ handler'[h].session = handler[h].session
          /\ handler'[h].date = handler[h].date /\ handler'[h].pc = "book.create"
      BY <1>10, <3>1 DEF BookFind, At, TypeOK, HandlerState, Idle
    <3>3. Fresh(h)'
      BY <2>2, <3>1, <3>2 DEF Fresh, At, AlreadyBooked, BookingsOf, LiveBooking
    <3> QED
      BY <3>1, <3>3, SoloMoves
  <2> QED
    BY <2>1, <2>2
<1>11. ASSUME NEW h \in Handlers, NEW b \in Bookings, Join(h, b) PROVE SoloInv'
  BY <1>11, SoloMoves DEF Join, Arrive, MayJoin, Fresh, At, allButHandler
<1>12. ASSUME NEW h \in Handlers, NEW b \in Bookings, Cancel(h, b) PROVE SoloInv'
  BY <1>12, SoloMoves DEF Cancel, Arrive, MayCancel, Fresh, At, allButHandler
<1>13. ASSUME NEW h \in Handlers, NEW b \in Bookings, RequestReschedule(h, b) PROVE SoloInv'
  <2> DEFINE row == bookSession[b]
             asked == \/ row.status = "Reschedule_requested"
                      \/ row.is_request_for_reschedule
             st == [pc |-> "request.find", booking |-> b, started_at |-> row.started_at,
                    requested |-> asked]
  <2>1. /\ st.pc = "request.find" /\ st.booking = b
        /\ handler' = [handler EXCEPT ![h] = st]
        /\ UNCHANGED <<bookSession, reschedule>>
        /\ ~bookSession[b].is_joined /\ ~bookSession[b].is_cancelled
    <3> HIDE DEF asked
    <3>1. st.pc = "request.find" /\ st.booking = b
      OBVIOUS
    <3>2. handler' = [handler EXCEPT ![h] = st]
      BY <1>13, Zenon DEF RequestReschedule, Arrive, asked
    <3> QED
      BY <1>13, <3>1, <3>2 DEF RequestReschedule, MayRequest, allButHandler
  <2> HIDE DEF st
  <2>2. handler'[h] = st => Fresh(h)'
    BY <2>1 DEF Fresh, At
  <2> QED
    BY <2>1, <2>2, SoloMoves
<1>14. ASSUME NEW h \in Handlers, RequestFind(h) PROVE SoloInv'
  <2>1. ~bookSession[handler[h].booking].is_joined /\ ~bookSession[handler[h].booking].is_cancelled
    BY <1>14 DEF RequestFind, SoloInv, Fresh, At
  <2> QED
    BY <1>14, <2>1, SoloMoves DEF RequestFind, Finish, Fresh, At, Idle, allButHandler
<1>15. ASSUME NEW h \in Handlers, NEW t \in Teachers, NEW b \in Bookings,
            NEW a \in {"accept.update", "reject.update"}, HandleRequest(h, t, b, a)
      PROVE  SoloInv'
  BY <1>15, SoloMoves DEF HandleRequest, Arrive, Fresh, At, Undecided, allButHandler
<1>16. ASSUME NEW h \in Handlers, NEW u \in Students, NEW s \in Sessions, NEW d \in Dates,
              Book(h, u, s, d) PROVE SoloInv'
  BY <1>16, SoloElse DEF Book, Arrive, allButHandler, Deciding
<1>17. ASSUME NEW h \in Handlers, NEW t \in Teachers, NEW s \in Sessions,
              Edit(h, t, s) \/ Start(h, t, s) \/ Remove(h, t, s)
       PROVE  SoloInv'
  <2>1. /\ UNCHANGED <<bookSession, reschedule>>
        /\ \/ handler' = [handler EXCEPT ![h] = [pc |-> "edit.update", session |-> s]]
           \/ handler' = [handler EXCEPT ![h] = [pc |-> "start.bookings", session |-> s]]
           \/ handler' = [handler EXCEPT ![h] = [pc |-> "delete.row", session |-> s]]
    BY <1>17 DEF Edit, Start, Remove, Arrive, allButHandler
  <2> QED
    BY <2>1, SoloElse DEF Deciding
<1>18. ASSUME NEW h \in Handlers, NEW s \in Sessions, AdminDelete(h, s) PROVE SoloInv'
  BY <1>18, SoloElse DEF AdminDelete, Arrive, allButHandler, Deciding
<1>19. ASSUME NEW h \in Handlers, NEW u \in Students, NEW b \in Bookings, Pay(h, u, b)
       PROVE  SoloInv'
  BY <1>19, SoloElse DEF Pay, Arrive, allButHandler, Deciding
<1>20. ASSUME NEW h \in Handlers,
              BookOrphan(h) \/ BookCount(h) \/ EditUpdate(h) \/ StartSession(h) \/ StatementFails(h)
       PROVE  SoloInv'
  <2>1. UNCHANGED <<bookSession, reschedule>> /\ handler' = [handler EXCEPT ![h] = Idle]
    BY <1>20 DEF BookOrphan, BookCount, EditUpdate, StartSession, StatementFails, Finish,
       allButHandler
  <2> QED
    BY <2>1, SoloElse DEF Idle, Deciding
<1>21. ASSUME NEW h \in Handlers, NEW i \in Intents, PayIntent(h, i) PROVE SoloInv'
  BY <1>21, SoloElse DEF PayIntent, Finish, Idle, Deciding
<1>22. CASE Crash
  BY <1>22, SoloReads DEF Crash, Fresh, At, Idle
<1>23. CASE \/ \E t \in Teachers, s \in Sessions : Create(t, s)
            \/ CronFind \/ CronSession \/ CronFails \/ Tick \/ UNCHANGED vars
            \/ \E i \in Intents, o \in {"succeeded", "payment_failed", "canceled"} : Settled(i, o)
            \/ \E e \in StripeEvent : WebhookNotSucceeded(e) \/ WebhookFails(e)
  BY <1>23, SoloReads DEF Create, CronFind, CronSession, CronFails, Tick, vars, Settled,
     WebhookNotSucceeded, WebhookFails
<1> QED
  BY <1>1, <1>2, <1>3, <1>4, <1>5, <1>6, <1>7, <1>8, <1>9, <1>10, <1>11, <1>12, <1>13, <1>14,
     <1>15, <1>16, <1>17, <1>18, <1>19, <1>20, <1>21, <1>22, <1>23
     DEF Next, StudentsNext, TeachersNext, SchedulerNext, CronStep, StripeNext

(* With one request at a time, what was read stays fresh.                  *)
THEOREM SoloInvariance ==
  ASSUME OneAtATime
  PROVE  Spec => [](IInv /\ SoloInv)
<1>1. Init => SoloInv
  BY Careless DEF Init, SoloInv, JoinedNotCancelled, NoDoubleBooking, LiveBooking, Idle, Deciding
<1>2. IInv /\ SoloInv /\ [Next]_vars => SoloInv'
  BY SoloStep DEF IInv
<1> QED
  BY <1>1, <1>2, Invariance, PTL DEF Spec

(* 'Cannot join a cancelled session', 'You cannot cancel a session that    *)
(* has already been joined': joinsession and cancellSession keep it, one   *)
(* request at a time.                                                      *)
THEOREM SoloJoinsOrCancels ==
  ASSUME OneAtATime
  PROVE  Spec => []JoinedNotCancelled
<1>1. SoloInv => JoinedNotCancelled
  BY DEF SoloInv
<1> QED
  BY <1>1, SoloInvariance, PTL

(* 'You have already booked this session at the selected time': so does    *)
(* bookASession.                                                           *)
THEOREM SoloBooksOnce ==
  ASSUME OneAtATime
  PROVE  Spec => []NoDoubleBooking
<1>1. SoloInv => NoDoubleBooking
  BY DEF SoloInv
<1> QED
  BY <1>1, SoloInvariance, PTL

(* Only three statements write a reschedule request.                       *)
LEMMA RequestWriters ==
  ASSUME [Next]_vars, reschedule' # reschedule
  PROVE  \E h \in Handlers : RequestCreate(h) \/ AcceptUpdate(h) \/ RejectUpdate(h)
<1> USE DEF allButHandler, process, stripe
<1>1. StudentsNext => \E h \in Handlers : RequestCreate(h)
  BY DEF StudentsNext, Book, BookCreate, Join, Cancel, RequestReschedule, BookFind, BookOrphan,
     BookCount, JoinUpdate, CancelUpdate, RequestFind, RequestFlag
<1>2. TeachersNext => \E h \in Handlers : AcceptUpdate(h) \/ RejectUpdate(h)
  BY DEF TeachersNext, Create, Edit, Start, Remove, AdminDelete, HandleRequest, EditUpdate,
     StartBookings, StartSession, DeleteRow
<1>3. ~SchedulerNext
  BY DEF SchedulerNext, CronFind, CronStep, CronSession, CronBooking, CronFails
<1>4. ~StripeNext
  BY DEF StripeNext, Pay, PayIntent, Settled, WebhookSucceeded, WebhookNotSucceeded, WebhookFails
<1> QED
  BY <1>1, <1>2, <1>3, <1>4 DEF Next, Tick, Crash, StatementFails, vars

(* 'This request has already been accepted, you cannot reject this':       *)
(* handleRequest decides a request once, one request at a time.            *)
THEOREM SoloDecidesOnce ==
  ASSUME OneAtATime
  PROVE  Spec => DecisionFinal
<1>1. ASSUME IInv, SoloInv, [Next]_vars, reschedule' # reschedule, NEW b \in Bookings,
             reschedule[b] \in {"accepted", "rejected"}
      PROVE  reschedule'[b] = reschedule[b]
  <2>1. PICK h \in Handlers : RequestCreate(h) \/ AcceptUpdate(h) \/ RejectUpdate(h)
    BY <1>1, RequestWriters
  <2>2. CASE RequestCreate(h)
    BY <1>1, <2>2 DEF RequestCreate, IInv, TypeOK
  <2>3. CASE AcceptUpdate(h) \/ RejectUpdate(h)
    BY <1>1, <2>3 DEF AcceptUpdate, RejectUpdate, SoloInv, Fresh, Undecided, At, IInv, TypeOK
  <2> QED
    BY <2>1, <2>2, <2>3
<1>2. IInv /\ SoloInv /\ [Next]_vars =>
        [\A b \in Bookings :
           reschedule[b] \in {"accepted", "rejected"} => reschedule'[b] = reschedule[b]]_reschedule
  BY <1>1
<1> QED
  BY <1>2, SoloInvariance, PTL DEF Spec, DecisionFinal

(* 'You cannot reschedule a session that has already been joined', 'You    *)
(* cannot reschedule a cancelled session': at the moment                   *)
(* requestRescheduleSession inserts a request its booking is neither, one  *)
(* request at a time.                                                      *)
THEOREM SoloRequestsWhileOpen ==
  ASSUME OneAtATime
  PROVE  Spec => RequestedWhileOpen
<1>1. ASSUME IInv, SoloInv, [Next]_vars, reschedule' # reschedule, NEW b \in Bookings,
             reschedule[b] = "none", reschedule'[b] # "none"
      PROVE  ~bookSession[b].is_joined /\ ~bookSession[b].is_cancelled
  <2>1. PICK h \in Handlers : RequestCreate(h) \/ AcceptUpdate(h) \/ RejectUpdate(h)
    BY <1>1, RequestWriters
  <2>2. handler[h].booking = b
    BY <1>1, <2>1 DEF RequestCreate, AcceptUpdate, RejectUpdate, IInv, TypeOK
  <2>3. CASE RequestCreate(h)
    BY <1>1, <2>2, <2>3 DEF RequestCreate, SoloInv, Fresh, At
  <2>4. CASE AcceptUpdate(h) \/ RejectUpdate(h)
    BY <1>1, <2>2, <2>4 DEF AcceptUpdate, RejectUpdate, SoloInv, Fresh, Undecided, At
  <2> QED
    BY <2>1, <2>3, <2>4
<1>2. IInv /\ SoloInv /\ [Next]_vars =>
        [\A b \in Bookings : reschedule[b] = "none" /\ reschedule'[b] # "none" =>
           ~bookSession[b].is_joined /\ ~bookSession[b].is_cancelled]_reschedule
  BY <1>1
<1> QED
  BY <1>2, SoloInvariance, PTL DEF Spec, RequestedWhileOpen

----------------------------------------------------------------------------
(* The contract of sessions and what is booked of them                     *)

(* What the contract sees of the sessions, and of the bookings, stays.     *)
SameSessions ==
  \A s \in Sessions :
    /\ LiveSession(s)' <=> LiveSession(s)
    /\ createSession'[s] = Deleted <=> createSession[s] = Deleted
    /\ LiveSession(s) =>
         /\ createSession'[s].is_started = createSession[s].is_started
         /\ createSession'[s].is_completed = createSession[s].is_completed

SameBookings ==
  \A b \in Bookings :
    /\ LiveBooking(b)' <=> LiveBooking(b)
    /\ LiveBooking(b) =>
         /\ bookSession'[b].create_session_id = bookSession[b].create_session_id
         /\ bookSession'[b].is_completed = bookSession[b].is_completed

(* The contract's variables, as they are now.                              *)
OfferedNow == <<{s \in Sessions : LiveSession(s)}, {s \in Sessions : createSession[s] = Deleted}>>
StartedNow == {s \in Sessions : LiveSession(s) /\ createSession[s].is_started}
CompletedNow == {s \in Sessions : LiveSession(s) /\ createSession[s].is_completed}
EndedNow == {b \in Bookings : LiveBooking(b) /\ bookSession[b].is_completed}
OfNow == [b \in Bookings |-> IF LiveBooking(b) THEN bookSession[b].create_session_id ELSE NULL]

(* Sessions that stay as they are leave the contract's session variables   *)
(* alone.                                                                  *)
LEMMA SessionsStay ==
  ASSUME SameSessions
  PROVE  UNCHANGED <<OfferedNow, StartedNow, CompletedNow>>
BY DEF SameSessions, OfferedNow, StartedNow, CompletedNow

(* And bookings its booking variables.                                     *)
LEMMA BookingsStay ==
  ASSUME SameBookings
  PROVE  UNCHANGED <<LiveRows, EndedNow, OfNow>>
BY DEF SameBookings, LiveRows, EndedNow, OfNow

(* Together they make the step a stutter of the contract.                  *)
LEMMA OffersStutters ==
  ASSUME SameSessions, SameBookings
  PROVE  UNCHANGED Offers!svars
BY SessionsStay, BookingsStay
   DEF Offers!svars, OfferedNow, StartedNow, CompletedNow, LiveRows, EndedNow, OfNow

(* A statement that writes other columns of bookings is a stutter.         *)
LEMMA EditsStutter ==
  ASSUME UNCHANGED createSession, NEW rows, NEW columns, Edits(rows, columns),
         "create_session_id" \notin columns, "is_completed" \notin columns
  PROVE  UNCHANGED Offers!svars
<1>1. SameSessions
  BY DEF SameSessions, LiveSession
<1>2. SameBookings
  BY DEF SameBookings, Edits, Keeps
<1> QED
  BY <1>1, <1>2, OffersStutters

(* The insert of bookSession makes a booking of a session that is still    *)
(* there: the foreign key refuses another.                                 *)
LEMMA ReserveStep ==
  ASSUME TypeOK, NEW h \in Handlers, NEW b \in Bookings, BookCreate(h, b)
  PROVE  \E s \in Sessions : Offers!Reserve(b, s)
<1>1. PICK s \in Sessions : s = handler[h].session
  BY HandlerTypes DEF BookCreate, At, SessionSteps
<1> DEFINE row == NewBooking(handler[h].user, handler[h].session, handler[h].date)
<1>2. /\ LiveSession(s) /\ ~LiveBooking(b) /\ UNCHANGED createSession
      /\ row \in BookingRow /\ row.create_session_id = s /\ ~row.is_completed
      /\ bookSession' = [bookSession EXCEPT ![b] = row]
  BY <1>1, NewRow DEF BookCreate, NewBooking
<1>3. /\ bookSession'[b] = row /\ LiveBooking(b)'
      /\ \A c \in Bookings : c # b => bookSession'[c] = bookSession[c]
  BY <1>2, RowAssumption DEF TypeOK, LiveBooking
<1> HIDE DEF row
<1>4. SameSessions
  BY <1>2 DEF SameSessions, LiveSession
<1>5. LiveRows' = LiveRows \cup {b} /\ EndedNow' = EndedNow
  BY <1>2, <1>3 DEF LiveRows, EndedNow, LiveBooking
<1>6. OfNow' = [OfNow EXCEPT ![b] = s]
  <2>1. \A c \in Bookings : OfNow'[c] = IF c = b THEN s ELSE OfNow[c]
    BY <1>2, <1>3 DEF OfNow, LiveBooking
  <2>2. OfNow = [c \in Bookings |-> OfNow[c]] /\ OfNow' = [c \in Bookings |-> OfNow'[c]]
    BY DEF OfNow
  <2> HIDE DEF OfNow
  <2> QED
    BY <2>1, <2>2
<1> QED
  BY <1>2, <1>4, <1>5, <1>6, SessionsStay
     DEF Offers!Reserve, OfferedNow, StartedNow, CompletedNow, LiveRows, EndedNow, OfNow

(* The cron job's update of a booking ends it.                             *)
LEMMA EndStep ==
  ASSUME TypeOK, References, NEW b \in Bookings, NEW s \in Sessions \cup {NULL}, CronBooking(b, s)
  PROVE  Offers!End(b)
<1>1. /\ LiveBooking(b) /\ Edits({b}, {"is_completed", "status"}) /\ bookSession'[b].is_completed
      /\ UNCHANGED createSession
  BY CronWrites DEF CronBooking
<1>2. SameSessions
  BY <1>1 DEF SameSessions, LiveSession
<1>3. LiveRows' = LiveRows /\ OfNow' = OfNow /\ EndedNow' = EndedNow \cup {b}
  BY <1>1 DEF LiveRows, OfNow, EndedNow, Edits, Keeps
<1> QED
  BY <1>1, <1>2, <1>3, SessionsStay
     DEF Offers!End, OfferedNow, StartedNow, CompletedNow, LiveRows, EndedNow, OfNow

(* The delete of a session clears its bookings by the foreign key, in the  *)
(* same statement, whatever request holds its id.                          *)
LEMMA WithdrawStep ==
  ASSUME TypeOK, NEW h \in Handlers, DeleteRow(h)
  PROVE  UNCHANGED Offers!svars \/ \E s \in Sessions : Offers!Withdraw(s)
<1>1. PICK s \in Sessions : s = handler[h].session
  BY HandlerTypes DEF DeleteRow, At, SessionSteps
<1>2. CASE ~LiveSession(s)
  <2>1. UNCHANGED <<createSession, bookSession>>
    BY <1>1, <1>2 DEF DeleteRow
  <2> QED
    BY <2>1, OffersStutters DEF SameSessions, SameBookings, LiveSession, LiveBooking
<1>3. CASE LiveSession(s)
  <2>1. createSession' = [createSession EXCEPT ![s] = Deleted]
    BY <1>1, <1>3 DEF DeleteRow
  <2>2. createSession'[s] = Deleted /\ \A z \in Sessions : z # s => createSession'[z] = createSession[z]
    BY <2>1 DEF TypeOK
  <2>3. /\ {z \in Sessions : LiveSession(z)}' = {z \in Sessions : LiveSession(z)} \ {s}
        /\ {z \in Sessions : createSession[z] = Deleted}'
             = {z \in Sessions : createSession[z] = Deleted} \cup {s}
        /\ StartedNow' = StartedNow \ {s} /\ CompletedNow' = CompletedNow \ {s}
    BY <2>2 DEF LiveSession, StartedNow, CompletedNow
  <2>4. Edits(BookingsOf(s), {"create_session_id"})
        /\ \A c \in BookingsOf(s) : bookSession'[c].create_session_id = NULL
    BY <1>1, <1>3, DeleteWrites
  <2>5. LiveRows' = LiveRows /\ EndedNow' = EndedNow
    BY <2>4 DEF LiveRows, EndedNow, Edits, Keeps
  <2>6. \A b \in Bookings : OfNow[b] = s <=> b \in BookingsOf(s)
    BY StoreAssumption DEF OfNow, BookingsOf
  <2>7. \A b \in Bookings : OfNow'[b] = IF OfNow[b] = s THEN NULL ELSE OfNow[b]
    <3>1. ASSUME NEW b \in Bookings, b \in BookingsOf(s) PROVE OfNow'[b] = NULL
      BY <2>4, <3>1 DEF OfNow
    <3>2. ASSUME NEW b \in Bookings, b \notin BookingsOf(s) PROVE OfNow'[b] = OfNow[b]
      BY <2>4, <3>2 DEF OfNow, Edits, LiveBooking
    <3> QED
      BY <2>6, <3>1, <3>2
  <2>8. OfNow' = [b \in Bookings |-> IF OfNow[b] = s THEN NULL ELSE OfNow[b]]
    BY <2>7 DEF OfNow
  <2>9. Offers!Withdraw(s)
    BY <1>3, <2>3, <2>5, <2>8 DEF Offers!Withdraw, StartedNow, CompletedNow, LiveRows, EndedNow, OfNow
  <2> QED
    BY <2>9
<1> QED
  BY <1>2, <1>3

(* A created session has an id that no session has or had.                 *)
LEMMA OfferStep ==
  ASSUME TypeOK, NEW t \in Teachers, NEW s \in Sessions, Create(t, s)
  PROVE  Offers!Offer(s)
<1>1. PICK slots \in SlotInputs, charge \in ChargeInputs, ds \in OfferedDates :
        createSession' = [createSession EXCEPT ![s] =
          [user_id |-> t, slots_available |-> slots, session_charge |-> charge,
           available_slots |-> ds, is_started |-> FALSE, is_completed |-> FALSE]]
  BY DEF Create
<1> DEFINE row == [user_id |-> t, slots_available |-> slots, session_charge |-> charge,
                   available_slots |-> ds, is_started |-> FALSE, is_completed |-> FALSE]
<1>2. row \in SessionRow /\ ~row.is_started /\ ~row.is_completed
  BY StoreAssumption DEF SessionRow, SlotValues, ChargeValues, OfferedDates
<1>3. /\ createSession'[s] = row /\ createSession[s] = NULL /\ UNCHANGED bookSession
      /\ \A z \in Sessions : z # s => createSession'[z] = createSession[z]
  BY <1>1 DEF Create, TypeOK
<1> HIDE DEF row
<1>4. ~LiveSession(s) /\ LiveSession(s)' /\ createSession[s] # Deleted /\ createSession'[s] # Deleted
  BY <1>2, <1>3, RowAssumption DEF LiveSession
<1>5. /\ {z \in Sessions : LiveSession(z)}' = {z \in Sessions : LiveSession(z)} \cup {s}
      /\ {z \in Sessions : createSession[z] = Deleted}' = {z \in Sessions : createSession[z] = Deleted}
      /\ StartedNow' = StartedNow /\ CompletedNow' = CompletedNow
  BY <1>2, <1>3, <1>4 DEF LiveSession, StartedNow, CompletedNow
<1>6. SameBookings
  BY <1>3 DEF SameBookings, LiveBooking
<1> QED
  BY <1>4, <1>5, <1>6, BookingsStay
     DEF Offers!Offer, StartedNow, CompletedNow, LiveRows, EndedNow, OfNow

(* startSession marks a session that is there, or misses it.               *)
LEMMA BeginStep ==
  ASSUME TypeOK, NEW h \in Handlers, StartSession(h)
  PROVE  UNCHANGED Offers!svars \/ \E s \in Sessions : Offers!Begin(s)
<1>1. PICK s \in Sessions : s = handler[h].session
  BY HandlerTypes DEF StartSession, At, SessionSteps
<1>2. SameBookings
  BY DEF StartSession, SameBookings, LiveBooking
<1>3. CASE ~LiveSession(s)
  <2>1. UNCHANGED createSession
    BY <1>1, <1>3 DEF StartSession
  <2> QED
    BY <1>2, <2>1, OffersStutters DEF SameSessions, LiveSession
<1>4. CASE LiveSession(s)
  <2> DEFINE row == [createSession[s] EXCEPT !.is_started = TRUE]
  <2>1. row \in SessionRow /\ row.is_started /\ row.is_completed = createSession[s].is_completed
    BY <1>4, LiveSessionRow DEF SessionRow
  <2>2. createSession' = [createSession EXCEPT ![s] = row]
    BY <1>1, <1>4, Zenon DEF StartSession
  <2> HIDE DEF row
  <2>3. /\ createSession'[s] = row
        /\ \A z \in Sessions : z # s => createSession'[z] = createSession[z]
        /\ \A z \in Sessions : LiveSession(z)' <=> LiveSession(z)
    BY <1>4, <2>1, <2>2, OneSession
  <2>4. createSession[s] # Deleted /\ createSession'[s] # Deleted
    BY <1>4, <2>1, <2>3, RowAssumption DEF LiveSession
  <2>5. StartedNow' = StartedNow \cup {s} /\ CompletedNow' = CompletedNow /\ OfferedNow' = OfferedNow
    BY <1>4, <2>1, <2>3, <2>4 DEF StartedNow, CompletedNow, OfferedNow
  <2>6. Offers!Begin(s)
    BY <1>2, <1>4, <2>5, BookingsStay
       DEF Offers!Begin, OfferedNow, StartedNow, CompletedNow, LiveRows, EndedNow, OfNow
  <2> QED
    BY <2>6
<1> QED
  BY <1>3, <1>4

(* The cron job completes a session only for a booking it has ended and    *)
(* that is still of it.                                                    *)
LEMMA CloseStep ==
  ASSUME TypeOK, CronInv, CronSession
  PROVE  UNCHANGED Offers!svars \/ \E s \in Sessions : Offers!Close(s)
<1>1. PICK s \in Sessions : s = cron.mark /\ s # NULL
  BY DEF CronSession, TypeOK
<1>2. SameBookings
  BY DEF CronSession, SameBookings, LiveBooking
<1>3. CASE ~LiveSession(s)
  <2>1. UNCHANGED createSession
    BY <1>1, <1>3 DEF CronSession
  <2> QED
    BY <1>2, <2>1, OffersStutters DEF SameSessions, LiveSession
<1>4. CASE LiveSession(s)
  <2> DEFINE row == [createSession[s] EXCEPT !.is_completed = TRUE]
  <2>1. row \in SessionRow /\ row.is_completed /\ row.is_started = createSession[s].is_started
    BY <1>4, LiveSessionRow DEF SessionRow
  <2>2. createSession' = [createSession EXCEPT ![s] = row]
    BY <1>1, <1>4, Zenon DEF CronSession
  <2> HIDE DEF row
  <2>3. /\ createSession'[s] = row
        /\ \A z \in Sessions : z # s => createSession'[z] = createSession[z]
        /\ \A z \in Sessions : LiveSession(z)' <=> LiveSession(z)
    BY <1>4, <2>1, <2>2, OneSession
  <2>4. createSession[s] # Deleted /\ createSession'[s] # Deleted
    BY <1>4, <2>1, <2>3, RowAssumption DEF LiveSession
  <2>5. CompletedNow' = CompletedNow \cup {s} /\ StartedNow' = StartedNow /\ OfferedNow' = OfferedNow
    BY <1>4, <2>1, <2>3, <2>4 DEF StartedNow, CompletedNow, OfferedNow
  <2>6. \E b \in EndedNow : OfNow[b] = s
    BY <1>1, <2>4 DEF CronInv, CronReads, EndedNow, OfNow, BookingsOf
  <2>7. Offers!Close(s)
    BY <1>2, <1>4, <2>5, <2>6, BookingsStay
       DEF Offers!Close, OfferedNow, StartedNow, CompletedNow, LiveRows, EndedNow, OfNow
  <2> QED
    BY <2>7
<1> QED
  BY <1>3, <1>4

(* The updates of the counter and of the offer touch neither flag.         *)
LEMMA CounterStutters ==
  ASSUME TypeOK, NEW h \in Handlers, BookCount(h) \/ EditUpdate(h)
  PROVE  UNCHANGED Offers!svars
<1>1. PICK s \in Sessions : s = handler[h].session
  BY HandlerTypes DEF BookCount, EditUpdate, At, SessionSteps
<1>2. SameBookings
  BY DEF BookCount, EditUpdate, SameBookings, LiveBooking
<1>3. \A z \in Sessions : z # s => createSession'[z] = createSession[z]
  BY <1>1 DEF BookCount, EditUpdate, TypeOK
<1>4. \A z \in Sessions : LiveSession(z)' <=> LiveSession(z)
  BY SessionEdits DEF SessionEdit
<1>5. CASE ~LiveSession(s)
  <2>1. UNCHANGED createSession
    BY <1>1, <1>5 DEF BookCount, EditUpdate
  <2> QED
    BY <1>2, <2>1, OffersStutters DEF SameSessions, LiveSession
<1>6. CASE LiveSession(s)
  <2>1. createSession[s] \in SessionRow
    BY <1>6, LiveSessionRow
  <2>2. /\ createSession'[s].is_started = createSession[s].is_started
        /\ createSession'[s].is_completed = createSession[s].is_completed
    <3>1. CASE BookCount(h)
      <4>1. createSession' = [createSession EXCEPT ![s].slots_available =
                                OneLess(Number(handler[h].slots))]
        BY <1>1, <1>6, <3>1, Zenon DEF BookCount
      <4> QED
        BY <2>1, <4>1 DEF TypeOK, SessionRow
    <3>2. CASE EditUpdate(h)
      <4>1. PICK row \in Bodies(createSession[s]) :
              createSession' = [createSession EXCEPT ![s] = row]
        BY <1>1, <1>6, <3>2 DEF EditUpdate
      <4> QED
        BY <2>1, <4>1, BodyRow DEF TypeOK
    <3> QED
      BY <3>1, <3>2
  <2>3. createSession'[s] # Deleted /\ createSession[s] # Deleted
    BY <1>4, <1>6 DEF LiveSession
  <2>4. SameSessions
    BY <1>3, <1>4, <2>2, <2>3 DEF SameSessions
  <2> QED
    BY <1>2, <2>4, OffersStutters
<1> QED
  BY <1>5, <1>6

(* The steps that write one of the two tables.                             *)
TableWrite ==
  \/ \E h \in Handlers :
       \/ \E b \in Bookings : BookCreate(h, b)
       \/ JoinUpdate(h) \/ CancelUpdate(h) \/ RequestFlag(h) \/ StartBookings(h)
       \/ BookCount(h) \/ EditUpdate(h) \/ StartSession(h) \/ DeleteRow(h)
  \/ \E t \in Teachers, s \in Sessions : Create(t, s)
  \/ \E b \in Bookings, s \in Sessions \cup {NULL} : CronBooking(b, s)
  \/ CronSession
  \/ \E e \in StripeEvent : WebhookSucceeded(e)

(* Every other step leaves both tables alone.                              *)
LEMMA QuietOrWrite ==
  ASSUME [Next]_vars
  PROVE  UNCHANGED <<createSession, bookSession>> \/ TableWrite
<1> DEFINE Quiet == UNCHANGED <<createSession, bookSession>>
<1>1. CASE StudentsNext
  <2>1. ASSUME NEW h \in Handlers, NEW u \in Students, NEW s \in Sessions, NEW d \in Dates,
               Book(h, u, s, d) PROVE Quiet
    BY <2>1 DEF Book, allButHandler
  <2>2. ASSUME NEW h \in Handlers, NEW b \in Bookings,
               Join(h, b) \/ Cancel(h, b) \/ RequestReschedule(h, b) PROVE Quiet
    BY <2>2 DEF Join, Cancel, RequestReschedule, allButHandler
  <2>3. ASSUME NEW h \in Handlers, BookFind(h) \/ BookOrphan(h) \/ RequestFind(h) \/ RequestCreate(h)
        PROVE Quiet
    BY <2>3 DEF BookFind, BookOrphan, RequestFind, RequestCreate, allButHandler
  <2> QED
    BY <1>1, <2>1, <2>2, <2>3, Zenon DEF StudentsNext, TableWrite
<1>2. CASE TeachersNext
  <2>1. ASSUME NEW h \in Handlers, NEW t \in Teachers, NEW s \in Sessions,
               Edit(h, t, s) \/ Start(h, t, s) \/ Remove(h, t, s) \/ AdminDelete(h, s) PROVE Quiet
    BY <2>1 DEF Edit, Start, Remove, AdminDelete, allButHandler
  <2>2. ASSUME NEW h \in Handlers, NEW s \in Sessions, AdminDelete(h, s) PROVE Quiet
    BY <2>2 DEF AdminDelete, allButHandler
  <2>3. ASSUME NEW h \in Handlers, NEW t \in Teachers, NEW b \in Bookings,
               NEW a \in {"accept.update", "reject.update"}, HandleRequest(h, t, b, a) PROVE Quiet
    BY <2>3 DEF HandleRequest, allButHandler
  <2>4. ASSUME NEW h \in Handlers, AcceptUpdate(h) \/ RejectUpdate(h) PROVE Quiet
    BY <2>4 DEF AcceptUpdate, RejectUpdate, allButHandler
  <2> QED
    BY <1>2, <2>1, <2>2, <2>3, <2>4, Zenon DEF TeachersNext, TableWrite
<1>3. CASE SchedulerNext
  <2>1. ASSUME CronFind \/ CronFails PROVE Quiet
    BY <2>1 DEF CronFind, CronFails
  <2> QED
    BY <1>3, <2>1 DEF SchedulerNext, CronStep, TableWrite
<1>4. CASE StripeNext
  <2>1. ASSUME NEW h \in Handlers, NEW u \in Students, NEW b \in Bookings, Pay(h, u, b) PROVE Quiet
    BY <2>1 DEF Pay, allButHandler
  <2>2. ASSUME NEW h \in Handlers, NEW i \in Intents, PayIntent(h, i) PROVE Quiet
    BY <2>2 DEF PayIntent
  <2>3. ASSUME NEW i \in Intents, NEW o \in {"succeeded", "payment_failed", "canceled"},
               Settled(i, o) PROVE Quiet
    BY <2>3 DEF Settled
  <2>4. ASSUME NEW e \in StripeEvent, WebhookNotSucceeded(e) \/ WebhookFails(e) PROVE Quiet
    BY <2>4 DEF WebhookNotSucceeded, WebhookFails
  <2> QED
    BY <1>4, <2>1, <2>2, <2>3, <2>4, Zenon DEF StripeNext, TableWrite
<1>5. CASE Tick \/ Crash \/ UNCHANGED vars \/ \E h \in Handlers : StatementFails(h)
  BY <1>5 DEF Tick, Crash, vars, StatementFails, allButHandler
<1> QED
  BY <1>1, <1>2, <1>3, <1>4, <1>5 DEF Next

(* Each step is one of the contract's or a stutter of it.                  *)
LEMMA SessionsStep ==
  ASSUME IInv, [Next]_vars
  PROVE  [Offers!SNext]_(Offers!svars)
<1> DEFINE Good == [Offers!SNext]_(Offers!svars)
<1>0. TypeOK /\ References /\ CronInv
  BY DEF IInv
<1>1. ASSUME UNCHANGED <<createSession, bookSession>> PROVE Good
  BY <1>1, OffersStutters DEF SameSessions, SameBookings, LiveSession, LiveBooking
<1>2. ASSUME NEW h \in Handlers, NEW b \in Bookings, BookCreate(h, b) PROVE Good
  BY <1>0, <1>2, ReserveStep DEF Offers!SNext
<1>3. ASSUME NEW h \in Handlers, JoinUpdate(h) PROVE Good
  BY <1>0, <1>3, JoinWrites, EditsStutter DEF JoinUpdate
<1>4. ASSUME NEW h \in Handlers, CancelUpdate(h) PROVE Good
  BY <1>0, <1>4, CancelWrites, EditsStutter DEF CancelUpdate
<1>5. ASSUME NEW h \in Handlers, RequestFlag(h) PROVE Good
  BY <1>0, <1>5, FlagWrites, EditsStutter DEF RequestFlag
<1>6. ASSUME NEW h \in Handlers, StartBookings(h) PROVE Good
  BY <1>0, <1>6, StartWrites, EditsStutter DEF StartBookings
<1>7. ASSUME NEW e \in StripeEvent, WebhookSucceeded(e) PROVE Good
  BY <1>0, <1>7, WebhookWrites, EditsStutter DEF WebhookSucceeded
<1>8. ASSUME NEW h \in Handlers, BookCount(h) \/ EditUpdate(h) PROVE Good
  BY <1>0, <1>8, CounterStutters
<1>9. ASSUME NEW h \in Handlers, StartSession(h) PROVE Good
  BY <1>0, <1>9, BeginStep DEF Offers!SNext
<1>10. ASSUME NEW h \in Handlers, DeleteRow(h) PROVE Good
  BY <1>0, <1>10, WithdrawStep DEF Offers!SNext
<1>11. ASSUME NEW t \in Teachers, NEW s \in Sessions, Create(t, s) PROVE Good
  BY <1>0, <1>11, OfferStep DEF Offers!SNext
<1>12. ASSUME NEW b \in Bookings, NEW s \in Sessions \cup {NULL}, CronBooking(b, s) PROVE Good
  BY <1>0, <1>12, EndStep DEF Offers!SNext
<1>13. ASSUME CronSession PROVE Good
  BY <1>0, <1>13, CloseStep DEF Offers!SNext
<1> HIDE DEF Good
<1>14. ASSUME TableWrite PROVE Good
  BY <1>14, <1>2, <1>3, <1>4, <1>5, <1>6, <1>7, <1>8, <1>9, <1>10, <1>11, <1>12, <1>13, Zenon
     DEF TableWrite
<1>15. Good
  BY <1>1, <1>14, QuietOrWrite
<1> QED
  BY <1>15 DEF Good

(* Students, teachers, the cron job and Stripe together keep the contract  *)
(* of a session and what is booked of it: ids are not revived, bookings    *)
(* are made only of sessions that are there and lose them all at once, and *)
(* a session is completed only after a booking that still is of it has     *)
(* ended.                                                                  *)
THEOREM SessionsImplemented == Spec => SessionsKept
<1>1. Init => Offers!SInit
  BY RowAssumption DEF Init, Offers!SInit, LiveSession, LiveBooking
<1>2. IInv /\ [Next]_vars => [Offers!SNext]_(Offers!svars)
  BY SessionsStep
<1> QED
  BY <1>1, <1>2, Invariance, PTL DEF Spec, SessionsKept, Offers!Contract

----------------------------------------------------------------------------
(* What the pages show                                                     *)

(* A booking without a session is of one that was deleted.                 *)
OrphansInv ==
  \A b \in Bookings :
    LiveBooking(b) /\ bookSession[b].create_session_id = NULL =>
      \E s \in Sessions : createSession[s] = Deleted

(* By the contract: a booking is made of a session, loses it only when one *)
(* is withdrawn, and withdrawn is for good.                                *)
LEMMA OrphansStep ==
  ASSUME OrphansInv, [Offers!SNext]_(Offers!svars)
  PROVE  OrphansInv'
<1> DEFINE Gone == {s \in Sessions : createSession[s] = Deleted}
<1>1. ASSUME UNCHANGED <<Gone, LiveRows, OfNow>> PROVE OrphansInv'
  <2>1. SUFFICES ASSUME NEW b \in Bookings, LiveBooking(b)', OfNow'[b] = NULL
                 PROVE  Gone' # {}
    BY DEF OrphansInv, OfNow
  <2>2. LiveBooking(b) /\ OfNow[b] = NULL
    BY <1>1, <2>1 DEF LiveRows
  <2>3. Gone # {}
    BY <2>2 DEF OrphansInv, OfNow
  <2> QED
    BY <1>1, <2>3
<1>2. CASE UNCHANGED Offers!svars
  BY <1>1, <1>2 DEF Offers!svars, LiveRows, OfNow
<1>3. ASSUME NEW s \in Sessions, Offers!Offer(s) \/ Offers!Begin(s) \/ Offers!Close(s)
      PROVE  OrphansInv'
  BY <1>1, <1>3 DEF Offers!Offer, Offers!Begin, Offers!Close, LiveRows, OfNow
<1>4. ASSUME NEW s \in Sessions, Offers!Withdraw(s) PROVE OrphansInv'
  <2>1. Gone' = Gone \cup {s}
    BY <1>4 DEF Offers!Withdraw
  <2> QED
    BY <2>1 DEF OrphansInv
<1>5. ASSUME NEW b \in Bookings, Offers!End(b) PROVE OrphansInv'
  BY <1>1, <1>5 DEF Offers!End, LiveRows, OfNow
<1>6. ASSUME NEW b \in Bookings, NEW s \in Sessions, Offers!Reserve(b, s) PROVE OrphansInv'
  <2>1. Gone' = Gone /\ LiveRows' = LiveRows \cup {b} /\ OfNow' = [OfNow EXCEPT ![b] = s]
    BY <1>6 DEF Offers!Reserve, LiveRows, OfNow
  <2>2. SUFFICES ASSUME NEW c \in Bookings, LiveBooking(c)', OfNow'[c] = NULL
                 PROVE  Gone' # {}
    BY DEF OrphansInv, OfNow
  <2>3. c # b
    BY <2>1, <2>2, StoreAssumption DEF OfNow
  <2>4. LiveBooking(c) /\ OfNow[c] = NULL
    BY <2>1, <2>2, <2>3 DEF LiveRows, OfNow
  <2>5. Gone # {}
    BY <2>4 DEF OrphansInv, OfNow
  <2> QED
    BY <2>1, <2>5
<1> HIDE DEF Gone
<1> QED
  BY <1>2, <1>3, <1>4, <1>5, <1>6, Zenon DEF Offers!SNext

(* Of a finite set, disjoint parts add up and are no more than the whole.  *)
LEMMA PartsOf ==
  ASSUME NEW S, IsFiniteSet(S), NEW A \in SUBSET S, NEW B \in SUBSET S, A \cap B = {}
  PROVE  /\ Cardinality(A \cup B) = Cardinality(A) + Cardinality(B)
         /\ Cardinality(A) + Cardinality(B) <= Cardinality(S)
<1>1. IsFiniteSet(A) /\ IsFiniteSet(B)
  BY FS_Subset
<1>2. Cardinality(A \cup B) = Cardinality(A) + Cardinality(B) - Cardinality(A \cap B)
  BY <1>1, FS_Union
<1>3. Cardinality(A \cap B) = 0
  BY FS_EmptySet
<1>4. A \cup B \in SUBSET S
  OBVIOUS
<1>5. Cardinality(A \cup B) <= Cardinality(S)
  BY <1>4, FS_Subset
<1>6. Cardinality(A) \in Nat /\ Cardinality(B) \in Nat
  BY <1>1, FS_CardinalityType
<1> QED
  BY <1>2, <1>3, <1>5, <1>6

(* What is completed was joined, and every booking is of some student.     *)
LEMMA EndedIsCompleted ==
  ASSUME TypeOK, CompletedWasHeld, NEW t \in Teachers
  PROVE  EndedBookings(t) = BookedFrom(t) \cap UNION {CompletedOfStudent(u) : u \in Students}
<1>1. ASSUME NEW b \in BookedFrom(t)
      PROVE  bookSession[b].is_completed <=> \E u \in Students : b \in CompletedOfStudent(u)
  <2>1. b \in Bookings /\ LiveBooking(b) /\ bookSession[b].user_id \in Students
    BY LiveRow DEF BookedFrom, BookingsOf, BookingRow
  <2> QED
    BY <2>1 DEF CompletedOfStudent, RowsOf, CompletedWasHeld
<1> QED
  BY <1>1 DEF EndedBookings

(* A completed session has a completed booking, and a booking one session: *)
(* of a set of bookings that has those of a set of completed sessions, the *)
(* sessions are no more.                                                   *)
LEMMA CompletedAtMostEnded ==
  ASSUME CompletedSessionHasCompletedBooking, NEW done \in SUBSET Sessions,
         \A s \in done : LiveSession(s) /\ createSession[s].is_completed,
         NEW E, IsFiniteSet(E),
         \A s \in done : \A b \in BookingsOf(s) : bookSession[b].is_completed => b \in E
  PROVE  /\ Cardinality(done) \in Nat /\ Cardinality(E) \in Nat
         /\ Cardinality(done) <= Cardinality(E)
<1> DEFINE f == [b \in E |-> bookSession[b].create_session_id]
<1>1. \A s \in done : \E b \in E : f[b] = s
  <2> SUFFICES ASSUME NEW s \in done PROVE \E b \in E : f[b] = s
    OBVIOUS
  <2>1. PICK b \in BookingsOf(s) : bookSession[b].is_completed
    BY DEF CompletedSessionHasCompletedBooking
  <2> QED
    BY <2>1 DEF BookingsOf
<1>2. /\ IsFiniteSet({f[b] : b \in E}) /\ Cardinality({f[b] : b \in E}) <= Cardinality(E)
  <2>1. f \in Surjection(E, {f[b] : b \in E})
    BY DEF Surjection
  <2> HIDE DEF f
  <2> QED
    BY <2>1, FS_Surjection
<1>3. done \in SUBSET {f[b] : b \in E}
  BY <1>1
<1> HIDE DEF f
<1>4. IsFiniteSet(done) /\ Cardinality(done) <= Cardinality({f[b] : b \in E})
  BY <1>2, <1>3, FS_Subset
<1>5. /\ Cardinality(done) \in Nat /\ Cardinality(E) \in Nat
      /\ Cardinality({f[b] : b \in E}) \in Nat
  BY <1>2, <1>4, FS_CardinalityType
<1> QED
  BY <1>2, <1>4, <1>5

(* The sessions a teacher is not shown as open are completed; those, and   *)
(* the ones every page counts, are no more than the bookings that ended.   *)
LEMMA TeacherEnds ==
  ASSUME TypeOK, CompletedSessionHasCompletedBooking, TablesFinite, NEW t \in Teachers
  PROVE  LET ended == Cardinality(EndedBookings(t)) IN
         /\ TutorSessionStates(t).completedSessions <= ended
         /\ TeacherById(t).totalSessions <= ended
         /\ States(t).totalSessions - Cardinality(OpenSessions(t)) <= ended
<1>1. IsFiniteSet(SessionsOf(t)) /\ IsFiniteSet(EndedBookings(t))
  <2>1. SessionsOf(t) \in SUBSET LiveIds /\ EndedBookings(t) \in SUBSET LiveRows
    BY DEF SessionsOf, Owns, LiveIds, EndedBookings, BookedFrom, BookingsOf, LiveRows
  <2> QED
    BY <2>1, FS_Subset DEF TablesFinite
<1>2. PICK done \in SUBSET SessionsOf(t) :
        done = {s \in SessionsOf(t) : createSession[s].is_completed}
  OBVIOUS
<1>3. /\ Cardinality(done) \in Nat /\ Cardinality(EndedBookings(t)) \in Nat
      /\ Cardinality(done) <= Cardinality(EndedBookings(t))
  <2>1. /\ done \in SUBSET Sessions
        /\ \A s \in done : LiveSession(s) /\ createSession[s].is_completed
    BY <1>2 DEF SessionsOf, Owns
  <2>2. \A s \in done : \A b \in BookingsOf(s) :
          bookSession[b].is_completed => b \in EndedBookings(t)
    BY <1>2 DEF EndedBookings, BookedFrom
  <2> QED
    BY <1>1, <2>1, <2>2, CompletedAtMostEnded
<1>4. OpenSessions(t) \in SUBSET SessionsOf(t) /\ done \cap OpenSessions(t) = {}
      /\ done \cup OpenSessions(t) = SessionsOf(t)
  BY <1>2 DEF OpenSessions
<1>5. /\ Cardinality(SessionsOf(t)) = Cardinality(done) + Cardinality(OpenSessions(t))
      /\ Cardinality(OpenSessions(t)) \in Nat
  BY <1>1, <1>4, PartsOf, FS_Subset, FS_CardinalityType
<1>6. /\ States(t).totalSessions = Cardinality(SessionsOf(t))
      /\ TeacherById(t).totalSessions = Cardinality(done)
      /\ TutorSessionStates(t).completedSessions = Cardinality(done)
  BY <1>2 DEF States, TeacherById, TutorSessionStates
<1> QED
  BY <1>3, <1>5, <1>6

(* Likewise over all teachers: what ended, some student sees as completed. *)
LEMMA AllEnds ==
  ASSUME TypeOK, CompletedWasHeld, CompletedSessionHasCompletedBooking, TablesFinite
  PROVE  SessionStates.completedSessions
           <= Cardinality(UNION {CompletedOfStudent(u) : u \in Students})
<1>1. PICK all : all = UNION {CompletedOfStudent(u) : u \in Students}
  OBVIOUS
<1>2. PICK done \in SUBSET Sessions :
        done = {s \in {s \in Sessions : LiveSession(s)} : createSession[s].is_completed}
  OBVIOUS
<1>3. IsFiniteSet(all)
  <2>1. all \in SUBSET LiveRows
    BY <1>1 DEF CompletedOfStudent, RowsOf, LiveRows
  <2> QED
    BY <2>1, FS_Subset DEF TablesFinite
<1>4. ASSUME NEW s \in Sessions, NEW b \in BookingsOf(s), bookSession[b].is_completed
      PROVE  b \in all
  <2>1. b \in Bookings /\ LiveBooking(b) /\ bookSession[b].user_id \in Students
    BY LiveRow DEF BookingsOf, BookingRow
  <2> QED
    BY <1>1, <1>4, <2>1 DEF CompletedOfStudent, RowsOf, CompletedWasHeld
<1>5. Cardinality(done) <= Cardinality(all)
  BY <1>2, <1>3, <1>4, CompletedAtMostEnded
<1>6. SessionStates.completedSessions = Cardinality(done)
  BY <1>2 DEF SessionStates
<1> QED
  BY <1>1, <1>5, <1>6

(* A pending booking is not completed, whatever the order of the writes.   *)
LEMMA StudentCounts ==
  ASSUME StatusBackedByFlags, TablesFinite, NEW u \in Students
  PROVE  LET states == StudentStates(u) IN
         states.pendingSessions + states.completedSessions <= states.totalBookedSessions
<1>1. IsFiniteSet(RowsOf(u))
  <2>1. RowsOf(u) \in SUBSET LiveRows
    BY DEF RowsOf, LiveRows
  <2> QED
    BY <2>1, FS_Subset DEF TablesFinite
<1>2. PICK A \in SUBSET RowsOf(u) : A = {b \in RowsOf(u) : bookSession[b].status = "pending"}
  OBVIOUS
<1>3. PICK B \in SUBSET RowsOf(u) : B = {b \in RowsOf(u) : bookSession[b].is_completed}
  OBVIOUS
<1>4. A \cap B = {}
  BY <1>2, <1>3 DEF RowsOf, StatusBackedByFlags
<1>5. Cardinality(A) + Cardinality(B) <= Cardinality(RowsOf(u))
  BY <1>1, <1>4, PartsOf
<1>6. /\ StudentStates(u).completedSessions = Cardinality(B)
      /\ StudentStates(u).pendingSessions = Cardinality(A)
      /\ StudentStates(u).totalBookedSessions = Cardinality(RowsOf(u))
  BY <1>2, <1>3 DEF StudentStates
<1> QED
  BY <1>5, <1>6

(* The pages of a student fail when a booking has lost its session, and only *)
(* then: what they show otherwise is no null.                              *)
LEMMA StudentsPages ==
  ASSUME TypeOK, References, NEW u \in Students
  PROVE  /\ BookedSessionsOfStudent(u) = Throws <=> Orphaned(u)
         /\ SessionsOfStudent(u) = Throws <=> Orphaned(u)
<1>1. ASSUME ~Orphaned(u), NEW b \in RowsOf(u)
      PROVE  /\ b \in Bookings /\ LiveBooking(b) /\ bookSession[b] \in BookingRow
             /\ bookSession[b].create_session_id \in Sessions
             /\ createSession[bookSession[b].create_session_id] \in SessionRow
  <2>1. b \in Bookings /\ LiveBooking(b) /\ bookSession[b] \in BookingRow
    BY LiveRow DEF RowsOf
  <2>2. bookSession[b].create_session_id # NULL
    BY <1>1, <2>1 DEF Orphaned, RowsOf
  <2>3. bookSession[b].create_session_id \in Sessions
    BY <2>1, <2>2 DEF BookingRow
  <2>4. LiveSession(bookSession[b].create_session_id)
    BY <2>1, <2>2 DEF References
  <2> QED
    BY <2>1, <2>3, <2>4, LiveSessionRow
<1>2. CASE Orphaned(u)
  BY <1>2 DEF BookedSessionsOfStudent, SessionsOfStudent
<1>3. CASE ~Orphaned(u)
  <2>1. \A b \in RowsOf(u) :
          /\ createSession[bookSession[b].create_session_id].session_charge \in ChargeValues
          /\ reschedule[b] \in Decision /\ bookSession[b].is_joined \in BOOLEAN
          /\ bookSession[b].is_cancelled \in BOOLEAN /\ bookSession[b].is_completed \in BOOLEAN
          /\ bookSession[b].status \in {"pending", "Reschedule_requested", "completed"}
    BY <1>1, <1>3 DEF BookingRow, SessionRow, TypeOK
  <2>2. BookedSessionsOfStudent(u) \in [RowsOf(u) -> PageRow]
    BY <1>3, <2>1 DEF BookedSessionsOfStudent, PageRow
  <2>3. SessionsOfStudent(u) \in [RowsOf(u) -> Sessions] /\ RowsOf(u) \in SUBSET Bookings
    BY <1>1, <1>3 DEF SessionsOfStudent, RowsOf
  <2> QED
    BY <1>3, <2>2, <2>3, PagesAssumption
<1> QED
  BY <1>2, <1>3

(* A booking of a student whose pages answer has a session that is there,  *)
(* and that a teacher.                                                     *)
LEMMA BookedOfTeacher ==
  ASSUME TypeOK, References, NEW u \in Students, ~Orphaned(u), NEW b \in RowsOf(u)
  PROVE  LET s == bookSession[b].create_session_id
             t == createSession[s].user_id IN
         /\ b \in Bookings /\ LiveBooking(b) /\ bookSession[b].user_id = u
         /\ s \in Sessions /\ LiveSession(s) /\ b \in BookingsOf(s)
         /\ t \in Teachers /\ s \in SessionsOf(t) /\ b \in BookedFrom(t)
<1>1. b \in Bookings /\ LiveBooking(b) /\ bookSession[b].user_id = u
      /\ bookSession[b].create_session_id # NULL
      /\ bookSession[b].create_session_id \in Sessions
  BY LiveRow DEF RowsOf, Orphaned, BookingRow
<1>2. PICK s \in Sessions : s = bookSession[b].create_session_id /\ LiveSession(s)
  BY <1>1 DEF References
<1>3. PICK t \in Teachers : t = createSession[s].user_id
  BY <1>2, LiveSessionRow DEF SessionRow
<1>4. s \in SessionsOf(t) /\ b \in BookingsOf(s)
  BY <1>1, <1>2, <1>3 DEF SessionsOf, Owns, BookingsOf
<1>5. b \in BookedFrom(t)
  BY <1>4 DEF BookedFrom
<1> QED
  BY <1>1, <1>2, <1>3, <1>4, <1>5

(* What is shown as requested is flagged, and so has its request.          *)
LEMMA RequestsAppearInv ==
  ASSUME TypeOK, References, StatusBackedByFlags, FlaggedHasRequest
  PROVE  RequestsAppear
<1> SUFFICES ASSUME NEW u \in Students, BookedSessionsOfStudent(u) # Throws,
                    NEW b \in DOMAIN BookedSessionsOfStudent(u),
                    BookedSessionsOfStudent(u)[b].status = "Reschedule_requested"
             PROVE  /\ BookedSessionsOfStudent(u)[b].request # "none"
                    /\ b \in UNION {RescheduleRequests(t) : t \in Teachers}
  BY Zenon DEF RequestsAppear
<1>1. ~Orphaned(u)
  BY StudentsPages
<1>2. /\ b \in RowsOf(u) /\ BookedSessionsOfStudent(u)[b].request = reschedule[b]
      /\ BookedSessionsOfStudent(u)[b].status = bookSession[b].status
  BY <1>1 DEF BookedSessionsOfStudent
<1>3. reschedule[b] # "none"
  BY <1>2 DEF RowsOf, StatusBackedByFlags, FlaggedHasRequest
<1>4. \E t \in Teachers : b \in BookedFrom(t)
  BY <1>1, <1>2, BookedOfTeacher
<1> QED
  BY <1>2, <1>3, <1>4 DEF RescheduleRequests

(* A page that fails is of a student whose session was deleted; on a page  *)
(* that answers each booking is of a session and a teacher others see.     *)
LEMMA PagesAnswerInv ==
  ASSUME TypeOK, References, OrphansInv
  PROVE  PagesAnswer
<1> SUFFICES ASSUME NEW u \in Students
             PROVE  /\ Throws \in {BookedSessionsOfStudent(u), SessionsOfStudent(u)} =>
                         \E s \in Sessions : createSession[s] = Deleted
                    /\ SessionsOfStudent(u) # Throws =>
                         \A b \in DOMAIN SessionsOfStudent(u) :
                           LET s == SessionsOfStudent(u)[b] IN
                           /\ s \in DOMAIN AllSessions /\ u \in AllSessions[s].booked
                           /\ \E t \in Teachers : s \in SessionsOf(t) /\ u \in TutorSessionInfo(t)[s]
                    /\ MaterialsOfStudent(u) # Throws =>
                         \A row \in MaterialsOfStudent(u) :
                           /\ row.teacher \in DOMAIN TeacherCards
                           /\ \E booked \in BookedSessionsOfTeacher(row.teacher) : booked.student = u
  BY Zenon DEF PagesAnswer
<1>1. Throws \in {BookedSessionsOfStudent(u), SessionsOfStudent(u)} =>
        \E s \in Sessions : createSession[s] = Deleted
  BY StudentsPages DEF Orphaned, OrphansInv
<1>2. ASSUME SessionsOfStudent(u) # Throws, NEW b \in DOMAIN SessionsOfStudent(u)
      PROVE  LET s == SessionsOfStudent(u)[b] IN
             /\ s \in DOMAIN AllSessions /\ u \in AllSessions[s].booked
             /\ \E t \in Teachers : s \in SessionsOf(t) /\ u \in TutorSessionInfo(t)[s]
  <2>1. ~Orphaned(u)
    BY <1>2, StudentsPages
  <2>2. b \in RowsOf(u) /\ SessionsOfStudent(u)[b] = bookSession[b].create_session_id
    BY <1>2, <2>1 DEF SessionsOfStudent
  <2>3. PICK s \in Sessions, t \in Teachers :
          /\ s = bookSession[b].create_session_id /\ LiveSession(s) /\ b \in BookingsOf(s)
          /\ s \in SessionsOf(t) /\ bookSession[b].user_id = u
    BY <2>1, <2>2, BookedOfTeacher
  <2>4. s \in DOMAIN AllSessions /\ AllSessions[s].booked = {bookSession[c].user_id : c \in BookingsOf(s)}
    BY <2>3 DEF AllSessions
  <2>5. TutorSessionInfo(t)[s] = {bookSession[c].user_id : c \in BookingsOf(s)}
    BY <2>3 DEF TutorSessionInfo
  <2> QED
    BY <2>2, <2>3, <2>4, <2>5
<1>3. ASSUME MaterialsOfStudent(u) # Throws, NEW row \in MaterialsOfStudent(u)
      PROVE  /\ row.teacher \in DOMAIN TeacherCards
             /\ \E booked \in BookedSessionsOfTeacher(row.teacher) : booked.student = u
  <2>1. ~Orphaned(u) /\ RowsOf(u) # {}
    BY <1>3, Zenon DEF MaterialsOfStudent, Throws
  <2>2. MaterialsOfStudent(u) =
          {[booking |-> b, teacher |-> createSession[bookSession[b].create_session_id].user_id] :
             b \in RowsOf(u)}
    BY <2>1, Zenon DEF MaterialsOfStudent
  <2>3. PICK b \in RowsOf(u) : row.teacher = createSession[bookSession[b].create_session_id].user_id
    BY <1>3, <2>2
  <2>4. PICK s \in Sessions, t \in Teachers :
          /\ t = row.teacher /\ s \in SessionsOf(t) /\ b \in BookedFrom(t)
          /\ bookSession[b].user_id = u
    BY <2>1, <2>3, BookedOfTeacher
  <2>5. t \in DOMAIN TeacherCards
    BY <2>4 DEF TeacherCards
  <2>6. [session |-> bookSession[b].create_session_id, student |-> bookSession[b].user_id]
          \in BookedSessionsOfTeacher(t)
    BY <2>4 DEF BookedSessionsOfTeacher
  <2> QED
    BY <2>4, <2>5, <2>6
<1> QED
  BY <1>1, <1>2, <1>3, Zenon

(* The pages of students, teachers and administrators agree with each      *)
(* other in every state: on what was earned, on what is over and how often *)
(* (getStates, findTutorSessionStates, findAStudentStates, findAllStates), *)
(* on what is asked for, and on who booked what of whom; and a student's   *)
(* pages fail only after a session was deleted.                            *)
THEOREM PagesCorrect == Spec => []PagesAgree
<1>1. Init => OrphansInv
  BY DEF Init, OrphansInv, LiveBooking
<1>2. IInv /\ OrphansInv /\ [Next]_vars => OrphansInv'
  BY SessionsStep, OrphansStep
<1>3. IInv /\ TablesFinite /\ OrphansInv => PagesAgree
  <2> SUFFICES ASSUME IInv, TablesFinite, OrphansInv PROVE PagesAgree
    OBVIOUS
  <2>1. /\ TypeOK /\ References /\ CompletedWasHeld /\ CompletedSessionHasCompletedBooking
        /\ StatusBackedByFlags /\ FlaggedHasRequest
    BY DEF IInv, CronInv, RequestInv
  <2>2. EndsAgree
    BY <2>1, EndedIsCompleted, TeacherEnds, AllEnds, StudentCounts, Zenon DEF EndsAgree
  <2> QED
    BY <2>1, <2>2, EarningsInv, RequestsAppearInv, PagesAnswerInv, Zenon DEF PagesAgree
<1> QED
  BY <1>1, <1>2, <1>3, Invariance, TablesCorrect, PTL DEF Spec
=============================================================================
