----------------------------- MODULE ChatProofs -----------------------------
(***************************************************************************)
(* The theorems about Chat, for any number of users, conversations,        *)
(* messages and requests: a message that is there is in a conversation     *)
(* that is there, and is announced unless a failure strikes its request;   *)
(* and a pair has one conversation, or as many as requests can overlap.    *)
(***************************************************************************)
EXTENDS Chat, FiniteSetTheorems, TLAPS

(* A request that has stored a message still names the conversation it     *)
(* stored it in; so when the conversation is gone, the message is, too.    *)
StoredIn ==
  \A r \in Requests : Telling(r) =>
    /\ message[request[r].message] # NULL
    /\ LiveMessage(request[r].message) =>
         message[request[r].message].conversation = request[r].conversation

IInv == TypeOK /\ MessageHasConversation /\ StoredIn /\ StoredIsAnnounced

----------------------------------------------------------------------------
(* The types of Chat are kept: every handler writes rows and requests of   *)
(* the forms it declares.                                                  *)
LEMMA TypeStep == TypeOK /\ [Next]_chvars => TypeOK'
<1> SUFFICES ASSUME TypeOK, [Next]_chvars PROVE TypeOK'
  OBVIOUS
<1> USE ChatAssumption DEF TypeOK, Idle, At, Arrive, Finish, MessageRow, MessageStatus
<1>1. CASE UNCHANGED chvars
  BY <1>1 DEF chvars
<1>2. ASSUME NEW r \in Requests, NEW p \in Pair, Converse(r, p) PROVE TypeOK'
  BY <1>2 DEF Converse
<1>3. ASSUME NEW r \in Requests, NEW c \in Conversations, CreateConversation(r, c) PROVE TypeOK'
  BY <1>3 DEF CreateConversation
<1>4. ASSUME NEW r \in Requests, NEW c \in Conversations, Send(r, c) PROVE TypeOK'
  BY <1>4 DEF Send
<1>5. ASSUME NEW r \in Requests, NEW m \in Messages, InsertMessage(r, m) PROVE TypeOK'
  BY <1>5 DEF InsertMessage
<1>6. ASSUME NEW r \in Requests, NEW m \in Messages, NEW st \in MessageStatus, SetStatus(r, m, st)
      PROVE  TypeOK'
  BY <1>6 DEF SetStatus
<1>7. ASSUME NEW r \in Requests, Touch(r) PROVE TypeOK'
  BY <1>7 DEF Touch
<1>8. ASSUME NEW r \in Requests, Announce(r) PROVE TypeOK'
  BY <1>8 DEF Announce
<1>9. ASSUME NEW r \in Requests, UpdateStatus(r) PROVE TypeOK'
  BY <1>9 DEF UpdateStatus, LiveMessage
<1>10. ASSUME NEW c \in Conversations, Remove(c) PROVE TypeOK'
  BY <1>10 DEF Remove
<1>11. CASE Fails
  BY <1>11 DEF Fails, Telling
<1> QED
  BY <1>1, <1>2, <1>3, <1>4, <1>5, <1>6, <1>7, <1>8, <1>9, <1>10, <1>11 DEF Next

----------------------------------------------------------------------------
(* A step that leaves the tables alone, and of the requests at most lets   *)
(* some that had stored nothing do something else.                         *)
LEMMA TablesKept ==
  ASSUME IInv, UNCHANGED <<conversation, message>>, announced \subseteq announced',
         dropped \subseteq dropped',
         \A r \in Requests : Telling(r)' =>
           /\ Telling(r)
           /\ request'[r].message = request[r].message
           /\ request'[r].conversation = request[r].conversation,
         \A r \in Requests : Telling(r) =>
           Telling(r)' \/ request[r].message \in announced' \cup dropped'
             \/ ~LiveMessage(request[r].message)
  PROVE  MessageHasConversation' /\ StoredIn' /\ StoredIsAnnounced'
<1>1. \A m \in Messages : LiveMessage(m)' = LiveMessage(m)
  BY DEF LiveMessage
<1>2. MessageHasConversation'
  BY <1>1 DEF IInv, MessageHasConversation, LiveConversation
<1>3. StoredIn'
  BY DEF IInv, StoredIn, LiveMessage
<1>4. StoredIsAnnounced'
  BY <1>1 DEF IInv, StoredIsAnnounced, Telling
<1> QED
  BY <1>2, <1>3, <1>4

(* The invariant is kept by every step: the steps that write a message or  *)
(* remove a conversation one by one, the others by TablesKept.             *)
LEMMA InvStep == IInv /\ [Next]_chvars => IInv'
<1> SUFFICES ASSUME IInv, [Next]_chvars PROVE IInv'
  OBVIOUS
<1>t. TypeOK /\ TypeOK'
  BY TypeStep DEF IInv
<1> DEFINE Goal == MessageHasConversation' /\ StoredIn' /\ StoredIsAnnounced'
<1> SUFFICES Goal
  BY <1>t DEF IInv
<1> HIDE DEF Goal
<1>1. CASE UNCHANGED chvars
  BY <1>1, <1>t, TablesKept DEF chvars, Telling, Goal
<1>2. ASSUME NEW r \in Requests, NEW p \in Pair, Converse(r, p) PROVE Goal
  BY <1>2, <1>t, TablesKept DEF Converse, Arrive, Idle, TypeOK, Telling, Goal
<1>3. ASSUME NEW r \in Requests, NEW c \in Conversations, CreateConversation(r, c) PROVE Goal
  <2>1. \A m \in Messages : LiveMessage(m)' = LiveMessage(m)
    BY <1>3 DEF CreateConversation, LiveMessage
  <2>2. MessageHasConversation'
    BY <1>3, <1>t, <2>1, ChatAssumption
       DEF IInv, MessageHasConversation, LiveConversation, CreateConversation, LiveMessage,
           TypeOK, MessageRow
  <2>3. StoredIn'
    BY <1>3, <1>t DEF IInv, StoredIn, CreateConversation, Finish, Idle, TypeOK, LiveMessage,
           Telling, At
  <2>4. StoredIsAnnounced'
    BY <1>3, <1>t, <2>1 DEF IInv, StoredIsAnnounced, CreateConversation, Finish, Idle, TypeOK, At, Telling
  <2> QED
    BY <2>2, <2>3, <2>4 DEF Goal
<1>4. ASSUME NEW r \in Requests, NEW c \in Conversations, Send(r, c) PROVE Goal
  BY <1>4, <1>t, TablesKept DEF Send, Arrive, Idle, TypeOK, Telling, Goal
<1>5. ASSUME NEW r \in Requests, NEW m \in Messages, InsertMessage(r, m) PROVE Goal
  <2>1. CASE ~LiveConversation(request[r].conversation)
    BY <1>5, <2>1, <1>t, TablesKept DEF InsertMessage, At, Finish, Idle, TypeOK, Telling, Goal
  <2>2. CASE LiveConversation(request[r].conversation)
    <3> DEFINE c == request[r].conversation
               row == [conversation |-> c, status |-> "SENT"]
    <3>1. /\ c \in Conversations /\ message[m] = NULL /\ row # NULL /\ row # Gone
          /\ message' = [message EXCEPT ![m] = row]
          /\ request' = [request EXCEPT ![r] = [pc |-> "touch", conversation |-> c, message |-> m]]
          /\ UNCHANGED <<conversation, announced, dropped>>
          /\ request[r].pc = "insert"
      <4>1. c \in Conversations /\ row \in MessageRow
        BY <1>5, <1>t DEF InsertMessage, At, TypeOK, Idle, MessageRow, MessageStatus
      <4> QED
        BY <1>5, <2>2, <4>1, ChatAssumption DEF InsertMessage, At
    <3>2. \A n \in Messages : n # m => message'[n] = message[n]
      BY <3>1, <1>t DEF TypeOK
    <3>3. message'[m] = row /\ ~LiveMessage(m) /\ LiveMessage(m)'
      BY <3>1, <1>t DEF TypeOK, LiveMessage
    <3>4. MessageHasConversation'
      BY <3>1, <3>2, <3>3, <2>2 DEF IInv, MessageHasConversation, LiveConversation, LiveMessage
    <3>5. StoredIn'
      BY <3>1, <3>2, <3>3, <1>t DEF IInv, StoredIn, Telling, LiveMessage, TypeOK
    <3>6. StoredIsAnnounced'
      BY <3>1, <3>2, <3>3, <1>t DEF IInv, StoredIsAnnounced, LiveMessage, TypeOK, Telling
    <3> QED
      BY <3>4, <3>5, <3>6 DEF Goal
  <2> QED
    BY <2>1, <2>2
<1>6. ASSUME NEW r \in Requests, NEW m \in Messages, NEW st \in MessageStatus, SetStatus(r, m, st)
      PROVE  Goal
  BY <1>6, <1>t, TablesKept DEF SetStatus, Arrive, Idle, TypeOK, Telling, Goal
<1>7. ASSUME NEW r \in Requests, Touch(r) PROVE Goal
  <2>1. request[r].message \in Messages /\ request[r].pc = "touch"
    BY <1>7, <1>t DEF Touch, At, TypeOK, Idle
  <2>2. CASE LiveConversation(request[r].conversation)
    BY <1>7, <2>1, <2>2, <1>t, TablesKept DEF Touch, At, TypeOK, Telling, Goal
  <2>3. CASE ~LiveConversation(request[r].conversation)
    <3>1. ~LiveMessage(request[r].message)
      BY <2>1, <2>3 DEF IInv, StoredIn, MessageHasConversation, Telling
    <3> QED
      BY <1>7, <2>1, <2>3, <3>1, <1>t, TablesKept DEF Touch, At, Finish, Idle, TypeOK, Telling, Goal
  <2> QED
    BY <2>2, <2>3
<1>8. ASSUME NEW r \in Requests, Announce(r) PROVE Goal
  BY <1>8, <1>t, TablesKept DEF Announce, At, Finish, Idle, TypeOK, Telling, Goal
<1>9. ASSUME NEW r \in Requests, UpdateStatus(r) PROVE Goal
  <2>1. \A m \in Messages :
          /\ LiveMessage(m)' = LiveMessage(m) /\ (message'[m] = NULL <=> message[m] = NULL)
          /\ LiveMessage(m) => message'[m].conversation = message[m].conversation
    <3>1. PICK m \in Messages : m = request[r].message
      BY <1>9, <1>t DEF UpdateStatus, At, TypeOK, Idle
    <3>2. CASE ~LiveMessage(request[r].message)
      BY <1>9, <3>1, <3>2 DEF UpdateStatus, LiveMessage
    <3>3. CASE LiveMessage(request[r].message)
      <4>1. /\ message[m] \in MessageRow /\ request[r].status \in MessageStatus
            /\ message' = [message EXCEPT ![m].status = request[r].status]
        BY <1>9, <3>1, <3>3, <1>t DEF UpdateStatus, At, LiveMessage, TypeOK, Idle
      <4>2. message'[m].conversation = message[m].conversation /\ message'[m] \in MessageRow
        BY <4>1, <1>t DEF MessageRow, TypeOK
      <4>3. message'[m] # NULL /\ message'[m] # Gone
        BY <4>2, ChatAssumption
      <4>4. \A n \in Messages : n # m => message'[n] = message[n]
        BY <4>1, <1>t DEF TypeOK
      <4> QED
        BY <3>1, <3>3, <4>2, <4>3, <4>4 DEF LiveMessage
    <3> QED
      BY <3>2, <3>3
  <2>2. /\ UNCHANGED <<conversation, announced, dropped>>
        /\ request' = [request EXCEPT ![r] = Idle] /\ request[r].pc = "status"
    BY <1>9 DEF UpdateStatus, At, Finish
  <2>3. MessageHasConversation'
    BY <2>1, <2>2 DEF IInv, MessageHasConversation, LiveConversation
  <2>4. StoredIn'
    BY <2>1, <2>2, <1>t DEF IInv, StoredIn, Telling, TypeOK, Idle
  <2>5. StoredIsAnnounced'
    BY <2>1, <2>2, <1>t DEF IInv, StoredIsAnnounced, TypeOK, Idle, Telling
  <2> QED
    BY <2>3, <2>4, <2>5 DEF Goal
<1>10. ASSUME NEW c \in Conversations, Remove(c) PROVE Goal
  <2>1. \A m \in Messages : LiveMessage(m)' =>
          /\ LiveMessage(m) /\ message'[m] = message[m] /\ message[m].conversation # c
    BY <1>10, <1>t DEF Remove, LiveMessage, TypeOK
  <2>1a. \A m \in Messages : message[m] # NULL => message'[m] # NULL
    BY <1>10, <1>t, ChatAssumption DEF Remove, TypeOK
  <2>2. /\ UNCHANGED <<announced, dropped, request>>
        /\ \A d \in Conversations : d # c => conversation'[d] = conversation[d]
    BY <1>10, <1>t DEF Remove, TypeOK
  <2>3. MessageHasConversation'
    BY <2>1, <2>2, <1>t DEF IInv, MessageHasConversation, LiveConversation, LiveMessage, TypeOK,
       MessageRow
  <2>4. StoredIn'
    BY <2>1, <2>1a, <2>2, <1>t DEF IInv, StoredIn, Telling, TypeOK, Idle
  <2>5. StoredIsAnnounced'
    BY <2>1, <2>2 DEF IInv, StoredIsAnnounced, Telling
  <2> QED
    BY <2>3, <2>4, <2>5 DEF Goal
<1>11. CASE Fails
  BY <1>11, <1>t, TablesKept DEF Fails, Idle, TypeOK, Telling, Goal
<1> QED
  BY <1>1, <1>2, <1>3, <1>4, <1>5, <1>6, <1>7, <1>8, <1>9, <1>10, <1>11 DEF Next

THEOREM Invariance == Spec => []IInv
<1>1. Init => IInv
  <2>1. Init => TypeOK
    <3>1. ASSUME Init PROVE faults \in 0..MaxFaults
      BY <3>1, ChatAssumption DEF Init
    <3> QED
      BY <3>1, Zenon DEF Init, TypeOK
  <2>2. Init => \A m \in Messages : ~LiveMessage(m)
    BY DEF Init, LiveMessage
  <2>3. Init => MessageHasConversation /\ StoredIn /\ StoredIsAnnounced
    BY <2>2 DEF Init, Idle, MessageHasConversation, StoredIn, StoredIsAnnounced, Telling
  <2> QED
    BY <2>1, <2>2, <2>3 DEF IInv
<1> QED
  BY <1>1, InvStep, PTL DEF Spec

(* A message that is there is in a conversation that is there, however     *)
(* create, remove and updateMessageStatus interleave.                      *)
THEOREM NoStrayMessage == Spec => []MessageHasConversation
<1>1. IInv => MessageHasConversation
  BY DEF IInv
<1> QED
  BY <1>1, Invariance, PTL

(* The room of a conversation is told of every message that is stored in   *)
(* it, but for those whose request failed between the insert and the       *)
(* announcement.                                                           *)
THEOREM MessagesAnnounced == Spec => []StoredIsAnnounced
<1>1. IInv => StoredIsAnnounced
  BY DEF IInv
<1> QED
  BY <1>1, Invariance, PTL

----------------------------------------------------------------------------
(* How many conversations a pair has.  A request that is about to make one *)
(* has found none, so that conversations and requests that are about to    *)
(* make one are never more than requests, and one before two overlap.      *)

Rows(p)     == {c \in Conversations : conversation[c] = p}
Creating(p) == {r \in Requests : At(r, "converse") /\ request[r].pair = p}

Counted(p) ==
  LET n == Cardinality(Rows(p)) + Cardinality(Creating(p)) IN
  /\ IsFiniteSet(Rows(p))
  /\ n <= Cardinality(Requests)
  /\ ~overlap => n <= 1

OneRequest == ~overlap => \A q, r \in Requests : q # r => request[q] = Idle \/ request[r] = Idle

CountInv == TypeOK /\ (\A p \in Pair : Counted(p)) /\ OneRequest

LEMMA CreatingFinite ==
  ASSUME IsFiniteSet(Requests), NEW p
  PROVE  /\ IsFiniteSet(Creating(p)) /\ Cardinality(Creating(p)) \in Nat
         /\ Cardinality(Creating(p)) <= Cardinality(Requests) /\ Cardinality(Requests) \in Nat
<1>1. Creating(p) \in SUBSET Requests
  BY DEF Creating
<1> QED
  BY <1>1, FS_Subset, FS_CardinalityType

(* Steps that make no conversation and bring no request to making one.     *)
LEMMA CountKept ==
  ASSUME IsFiniteSet(Requests), CountInv, TypeOK', overlap => overlap', OneRequest',
         \A c \in Conversations : LiveConversation(c)' => conversation'[c] = conversation[c],
         \A r \in Requests : At(r, "converse")' => request'[r] = request[r]
  PROVE  CountInv'
<1> SUFFICES ASSUME NEW p \in Pair PROVE Counted(p)'
  BY DEF CountInv
<1>1. Rows(p)' \in SUBSET Rows(p) /\ Creating(p)' \in SUBSET Creating(p)
  BY DEF Rows, Creating, At, LiveConversation
<1>2. IsFiniteSet(Rows(p)) /\ IsFiniteSet(Creating(p))
  BY CreatingFinite DEF CountInv, Counted
<1>3. /\ IsFiniteSet(Rows(p)') /\ Cardinality(Rows(p)') <= Cardinality(Rows(p))
      /\ IsFiniteSet(Creating(p)') /\ Cardinality(Creating(p)') <= Cardinality(Creating(p))
  BY <1>1, <1>2, FS_Subset
<1>4. /\ Cardinality(Creating(p)') \in Nat /\ Cardinality(Creating(p)) \in Nat
      /\ Cardinality(Requests) \in Nat /\ Cardinality(Rows(p)) \in Nat
      /\ Cardinality(Rows(p)') \in Nat
  BY <1>2, <1>3, FS_CardinalityType, CreatingFinite
<1> QED
  BY <1>3, <1>4 DEF CountInv, Counted

(* A request arrives that is not about to make a conversation.             *)
LEMMA ArrivalCounted ==
  ASSUME IsFiniteSet(Requests), CountInv, TypeOK', UNCHANGED conversation,
         NEW r \in Requests, NEW st, Arrive(r, st), st.pc # "converse"
  PROVE  CountInv'
<1>1. /\ request[r] = Idle /\ request'[r] = st
      /\ \A q \in Requests : q # r => request'[q] = request[q]
      /\ overlap' = (overlap \/ \E q \in Requests : request[q] # Idle)
  BY DEF Arrive, CountInv, TypeOK
<1>2. OneRequest'
  BY <1>1 DEF OneRequest
<1> QED
  BY <1>1, <1>2, CountKept DEF At

(* A step of requests that go on or end.                                   *)
LEMMA GoneOnCounted ==
  ASSUME IsFiniteSet(Requests), CountInv, TypeOK', UNCHANGED overlap,
         \A c \in Conversations : LiveConversation(c)' => conversation'[c] = conversation[c],
         \A r \in Requests : request[r] = Idle => request'[r] = Idle,
         \A r \in Requests : At(r, "converse")' => request'[r] = request[r]
  PROVE  CountInv'
<1>1. OneRequest'
  BY DEF CountInv, OneRequest
<1> QED
  BY <1>1, CountKept

(* A request has found no conversation and is about to make one.           *)
LEMMA ConverseCounted ==
  ASSUME IsFiniteSet(Requests), CountInv, TypeOK', NEW r \in Requests, NEW p \in Pair,
         Converse(r, p)
  PROVE  CountInv'
<1>1. /\ request[r] = Idle /\ request'[r] = [pc |-> "converse", pair |-> p]
      /\ \A q \in Requests : q # r => request'[q] = request[q]
      /\ overlap' = (overlap \/ \E q \in Requests : request[q] # Idle)
      /\ UNCHANGED conversation /\ ~Exists(p)
  BY DEF Converse, Arrive, CountInv, TypeOK
<1>2. OneRequest'
  BY <1>1 DEF OneRequest
<1>3. ASSUME NEW o \in Pair PROVE Counted(o)'
  <2>1. CASE o # p
    <3>1. Creating(o)' = Creating(o) /\ Rows(o)' = Rows(o)
      BY <1>1, <2>1 DEF Creating, Rows, At, Idle
    <3> QED
      BY <1>1, <3>1 DEF CountInv, Counted
  <2>2. CASE o = p
    <3>1. Rows(o)' = {}
      BY <1>1, <2>2 DEF Rows, Exists, LiveConversation
    <3>2. Creating(o)' \in SUBSET Requests
      BY DEF Creating
    <3>3. /\ Cardinality(Creating(o)') <= Cardinality(Requests) /\ Cardinality(Requests) \in Nat
          /\ Cardinality(Creating(o)') \in Nat
      BY <3>2, FS_Subset, FS_CardinalityType
    <3>4. ASSUME ~overlap' PROVE Cardinality(Creating(o)') <= 1
      <4>0. \A q \in Requests : q # r => request'[q] = Idle
        BY <1>1, <3>4
      <4>1. Creating(o)' \in SUBSET {r}
        BY <4>0 DEF Creating, At, Idle
      <4>2. IsFiniteSet({r}) /\ Cardinality({r}) = 1
        BY FS_Singleton
      <4> QED
        BY <4>1, <4>2, FS_Subset
    <3> QED
      BY <3>1, <3>3, <3>4, FS_EmptySet DEF Counted
  <2> QED
    BY <2>1, <2>2
<1> QED
  BY <1>2, <1>3 DEF CountInv

(* A conversation is made: a row more, and a request less to make one.     *)
LEMMA CreateCounted ==
  ASSUME IsFiniteSet(Requests), CountInv, TypeOK', NEW r \in Requests, NEW c \in Conversations,
         CreateConversation(r, c)
  PROVE  CountInv'
<1>1. /\ At(r, "converse") /\ request[r].pair \in Pair /\ conversation[c] = NULL
      /\ conversation' = [conversation EXCEPT ![c] = request[r].pair]
      /\ request' = [request EXCEPT ![r] = Idle] /\ UNCHANGED overlap
  BY DEF CreateConversation, Finish, At, CountInv, TypeOK, Idle
<1>2. \A q \in Requests : request'[q] = IF q = r THEN Idle ELSE request[q]
  BY <1>1 DEF CountInv, TypeOK
<1>3. OneRequest'
  BY <1>1, <1>2 DEF CountInv, OneRequest
<1>4. ASSUME NEW p \in Pair PROVE Counted(p)'
  <2>0. p # NULL
    BY ChatAssumption
  <2>1. CASE p # request[r].pair
    <3>1. Creating(p)' = Creating(p) /\ Rows(p)' = Rows(p)
      BY <1>1, <1>2, <2>0, <2>1 DEF Creating, Rows, At, Idle, CountInv, TypeOK
    <3> QED
      BY <1>1, <3>1 DEF CountInv, Counted
  <2>2. CASE p = request[r].pair
    <3>1. /\ Rows(p)' = Rows(p) \cup {c} /\ c \notin Rows(p)
          /\ Creating(p)' = Creating(p) \ {r} /\ r \in Creating(p)
      BY <1>1, <1>2, <2>0, <2>2 DEF Creating, Rows, At, Idle, CountInv, TypeOK
    <3>2. IsFiniteSet(Rows(p)) /\ IsFiniteSet(Creating(p))
      BY CreatingFinite DEF CountInv, Counted
    <3>3. /\ IsFiniteSet(Rows(p) \cup {c})
          /\ Cardinality(Rows(p) \cup {c}) = Cardinality(Rows(p)) + 1
      BY <3>1, <3>2, FS_AddElement
    <3>4. Cardinality(Creating(p) \ {r}) = Cardinality(Creating(p)) - 1
      BY <3>1, <3>2, FS_RemoveElement
    <3>5. Cardinality(Rows(p)) \in Nat /\ Cardinality(Creating(p)) \in Nat
      BY <3>2, FS_CardinalityType
    <3> QED
      BY <1>1, <3>1, <3>3, <3>4, <3>5 DEF CountInv, Counted
  <2> QED
    BY <2>1, <2>2
<1> QED
  BY <1>3, <1>4 DEF CountInv

LEMMA CountStep ==
  ASSUME IsFiniteSet(Requests), CountInv, [Next]_chvars
  PROVE  CountInv'
<1>t. TypeOK /\ TypeOK'
  BY TypeStep DEF CountInv
<1>1. CASE UNCHANGED chvars
  BY <1>1, <1>t, GoneOnCounted DEF chvars
<1>2. ASSUME NEW r \in Requests, NEW c \in Conversations, Send(r, c) PROVE CountInv'
  BY <1>2, <1>t, ArrivalCounted DEF Send
<1>3. ASSUME NEW r \in Requests, NEW m \in Messages, NEW st \in MessageStatus, SetStatus(r, m, st)
      PROVE  CountInv'
  BY <1>3, <1>t, ArrivalCounted DEF SetStatus
<1>4. ASSUME NEW r \in Requests,
             (\E m \in Messages : InsertMessage(r, m)) \/ Touch(r) \/ Announce(r) \/ UpdateStatus(r)
      PROVE  CountInv'
  <2>1. /\ UNCHANGED <<conversation, overlap>> /\ request[r] # Idle
        /\ \A q \in Requests : q # r => request'[q] = request[q]
        /\ request'[r].pc # "converse"
    BY <1>4, <1>t DEF InsertMessage, Touch, Announce, UpdateStatus, Finish, At, Idle, TypeOK
  <2> QED
    BY <2>1, <1>t, GoneOnCounted DEF At
<1>5. ASSUME NEW c \in Conversations, Remove(c) PROVE CountInv'
  <2>1. /\ UNCHANGED <<request, overlap>> /\ Gone \notin Pair
        /\ conversation' = [conversation EXCEPT ![c] = Gone]
    BY <1>5, ChatAssumption DEF Remove
  <2>2. \A d \in Conversations : LiveConversation(d)' => conversation'[d] = conversation[d]
    BY <2>1, <1>t DEF LiveConversation, TypeOK
  <2> QED
    BY <2>1, <2>2, <1>t, GoneOnCounted DEF At
<1>6. CASE Fails
  BY <1>6, <1>t, GoneOnCounted DEF Fails, At, Idle
<1> QED
  BY <1>1, <1>2, <1>3, <1>4, <1>5, <1>6, <1>t, ConverseCounted, CreateCounted DEF Next

(* 'Conversation already exists' keeps a creator and a participant to one  *)
(* conversation for as long as no request has arrived during another; and  *)
(* once two have, to as many as there can be requests at once.             *)
THEOREM OneConversation ==
  ASSUME IsFiniteSet(Requests)
  PROVE  Spec => []ConversationsUnique
<1>1. Init => CountInv
  <2> SUFFICES ASSUME Init PROVE CountInv
    OBVIOUS
  <2>1. TypeOK
    <3>1. faults \in 0..MaxFaults
      BY ChatAssumption DEF Init
    <3> QED
      BY <3>1, Zenon DEF Init, TypeOK
  <2>2. ASSUME NEW p \in Pair PROVE Counted(p)
    <3>1. Rows(p) = {} /\ Creating(p) = {}
      BY ChatAssumption DEF Init, Rows, Creating, At, Idle
    <3> QED
      BY <3>1, FS_EmptySet, FS_CardinalityType DEF Counted
  <2>3. OneRequest
    BY DEF Init, OneRequest
  <2> QED
    BY <2>1, <2>2, <2>3 DEF CountInv
<1>2. CountInv => ConversationsUnique
  <2> SUFFICES ASSUME CountInv, NEW p \in Pair
               PROVE  Cardinality(Rows(p)) + Cardinality(Creating(p))
                        <= IF overlap THEN Cardinality(Requests) ELSE 1
    BY DEF ConversationsUnique, Rows, Creating
  <2>1. Counted(p) /\ Cardinality(Creating(p)) \in Nat /\ Cardinality(Requests) \in Nat
    BY CreatingFinite DEF CountInv
  <2>2. Cardinality(Rows(p)) \in Nat
    BY <2>1, FS_CardinalityType DEF Counted
  <2> QED
    BY <2>1, <2>2 DEF Counted
<1>3. CountInv /\ [Next]_chvars => CountInv'
  BY CountStep
<1> QED
  BY <1>1, <1>2, <1>3, PTL DEF Spec
=============================================================================
