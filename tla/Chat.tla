-------------------------------- MODULE Chat --------------------------------
(***************************************************************************)
(* Conversations and messages: conversation.service.ts (create, remove),   *)
(* message.service.ts and message.controller.ts (create), and the status   *)
(* of a message, which either end may set (updateMessageStatus of          *)
(* message.gateway.ts and chat.repository.ts).                             *)
(*                                                                         *)
(* A message goes into its conversation, the conversation is touched, and  *)
(* only then the room of the conversation is told.                         *)
(***************************************************************************)
EXTENDS Naturals, FiniteSets

CONSTANTS
  Users, Conversations, Messages,
  Requests,   \* how many requests are served at once
  MaxFaults,  \* bound: failing statements and crashes
  NULL, Gone  \* no row yet, and a row deleted

VARIABLES
  conversation,  \* table conversations
  message,       \* table messages
  announced,     \* messages the room was told of
  dropped,       \* history: messages whose request failed once it had stored them
  request,       \* requests in progress
  overlap,       \* history: a request has arrived during another
  faults

chvars == <<conversation, message, announced, dropped, request, overlap, faults>>

Pair == Users \X Users
MessageStatus == {"PENDING", "SENT", "DELIVERED", "READ"}
MessageRow == [conversation: Conversations, status: MessageStatus]

ASSUME ChatAssumption ==
  /\ MaxFaults \in Nat
  /\ NULL # Gone /\ {NULL, Gone} \cap (Pair \cup MessageRow) = {}

Idle == [pc |-> "idle"]

LiveConversation(c) == conversation[c] \in Pair
LiveMessage(m)      == message[m] \notin {NULL, Gone}

TypeOK ==
  /\ conversation \in [Conversations -> Pair \cup {NULL, Gone}]
  /\ message \in [Messages -> MessageRow \cup {NULL, Gone}]
  /\ announced \subseteq Messages /\ dropped \subseteq Messages
  /\ request \in [Requests -> {Idle}
       \cup [pc: {"converse"}, pair: Pair]
       \cup [pc: {"insert"}, conversation: Conversations]
       \cup [pc: {"touch", "announce"}, conversation: Conversations, message: Messages]
       \cup [pc: {"status"}, message: Messages, status: MessageStatus]]
  /\ overlap \in BOOLEAN
  /\ faults \in 0..MaxFaults

Init ==
  /\ conversation = [c \in Conversations |-> NULL]
  /\ message = [m \in Messages |-> NULL]
  /\ announced = {} /\ dropped = {}
  /\ request = [r \in Requests |-> Idle]
  /\ overlap = FALSE
  /\ faults = 0

At(r, pc)     == request[r].pc = pc

Arrive(r, st) ==
  /\ request[r] = Idle
  /\ request' = [request EXCEPT ![r] = st]
  /\ overlap' = (overlap \/ \E q \in Requests : request[q] # Idle)

Finish(r)     == request' = [request EXCEPT ![r] = Idle]

----------------------------------------------------------------------------
(* create of conversation.service.ts; the pair is looked for as given, not *)
(* the other way round.                                                    *)

ExistsOfCreator(p) ==  \* mutant: compares creator with participant
  \E c \in Conversations : LiveConversation(c) /\ conversation[c] = <<p[2], p[1]>>

Exists(p) == \E c \in Conversations : LiveConversation(c) /\ conversation[c] = p

Converse(r, p) ==
  /\ ~Exists(p)
  /\ Arrive(r, [pc |-> "converse", pair |-> p])
  /\ UNCHANGED <<conversation, message, announced, dropped, faults>>

CreateConversation(r, c) ==
  /\ At(r, "converse")
  /\ conversation[c] = NULL
  /\ conversation' = [conversation EXCEPT ![c] = request[r].pair]
  /\ Finish(r)
  /\ UNCHANGED <<message, announced, dropped, overlap, faults>>

(* remove: one statement; the conversation's messages are ON DELETE        *)
(* CASCADE.                                                                *)
RemoveOnly(c) ==  \* mutant: the messages stay
  /\ LiveConversation(c)
  /\ conversation' = [conversation EXCEPT ![c] = Gone]
  /\ UNCHANGED <<message, announced, dropped, request, overlap, faults>>

Remove(c) ==
  /\ LiveConversation(c)
  /\ conversation' = [conversation EXCEPT ![c] = Gone]
  /\ message' = [m \in Messages |->
       IF LiveMessage(m) /\ message[m].conversation = c THEN Gone ELSE message[m]]
  /\ UNCHANGED <<announced, dropped, request, overlap, faults>>

----------------------------------------------------------------------------
(* create of message.service.ts and of its controller                      *)

Send(r, c) ==
  /\ LiveConversation(c)
  /\ Arrive(r, [pc |-> "insert", conversation |-> c])
  /\ UNCHANGED <<conversation, message, announced, dropped, faults>>

(* The insert violates the foreign key if the conversation is gone.        *)
InsertMessage(r, m) ==
  LET c == request[r].conversation IN
  /\ At(r, "insert")
  /\ message[m] = NULL
  /\ IF LiveConversation(c)
       THEN /\ message' = [message EXCEPT ![m] = [conversation |-> c, status |-> "SENT"]]
            /\ request' = [request EXCEPT ![r] =
                 [pc |-> "touch", conversation |-> c, message |-> m]]
       ELSE Finish(r) /\ UNCHANGED message
  /\ UNCHANGED <<conversation, announced, dropped, overlap, faults>>

(* updated_at of the conversation; throws if it is gone.                   *)
TouchSilently(r) ==  \* mutant: tells nobody
  /\ At(r, "touch")
  /\ Finish(r)
  /\ UNCHANGED <<conversation, message, announced, dropped, overlap, faults>>

Touch(r) ==
  /\ At(r, "touch")
  /\ IF LiveConversation(request[r].conversation)
       THEN request' = [request EXCEPT ![r].pc = "announce"]
       ELSE Finish(r)
  /\ UNCHANGED <<conversation, message, announced, dropped, overlap, faults>>

Announce(r) ==
  /\ At(r, "announce")
  /\ announced' = announced \cup {request[r].message}
  /\ Finish(r)
  /\ UNCHANGED <<conversation, message, dropped, overlap, faults>>

----------------------------------------------------------------------------
(* updateMessageStatus: any status for any message that is there; the      *)
(* update throws if it is gone by then.                                    *)

SetStatus(r, m, st) ==
  /\ LiveMessage(m)
  /\ Arrive(r, [pc |-> "status", message |-> m, status |-> st])
  /\ UNCHANGED <<conversation, message, announced, dropped, faults>>

UpdateStatus(r) ==
  LET m == request[r].message IN
  /\ At(r, "status")
  /\ message' = IF LiveMessage(m)
                  THEN [message EXCEPT ![m].status = request[r].status] ELSE message
  /\ Finish(r)
  /\ UNCHANGED <<conversation, announced, dropped, overlap, faults>>

----------------------------------------------------------------------------
(* A request that has stored its message and not told the room of it yet.  *)
Telling(r) == request[r].pc \in {"touch", "announce"}

Fails ==
  /\ faults < MaxFaults
  /\ faults' = faults + 1
  /\ \E rs \in {Requests} \cup {{r} : r \in Requests} :
       /\ request' = [r \in Requests |-> IF r \in rs THEN Idle ELSE request[r]]
       /\ dropped' = dropped \cup {request[r].message : r \in {q \in rs : Telling(q)}}
  /\ UNCHANGED <<conversation, message, announced, overlap>>

Next ==
  \/ \E r \in Requests :
       \/ \E p \in Pair : Converse(r, p)
       \/ \E c \in Conversations : CreateConversation(r, c) \/ Send(r, c)
       \/ \E m \in Messages :
            InsertMessage(r, m) \/ \E st \in MessageStatus : SetStatus(r, m, st)
       \/ Touch(r) \/ Announce(r) \/ UpdateStatus(r)
  \/ \E c \in Conversations : Remove(c)
  \/ Fails

Spec == Init /\ [][Next]_chvars

----------------------------------------------------------------------------
(* A message that is there is in a conversation that is there, although    *)
(* conversations are deleted under messages and status updates on their    *)
(* way.                                                                    *)
MessageHasConversation ==
  \A m \in Messages : LiveMessage(m) => LiveConversation(message[m].conversation)

(* A stored message has been announced, or the request that stored it is   *)
(* still at it: only a failure between the insert and the announcement,    *)
(* after which the sender is told that nothing was sent, leaves one behind *)
(* that its room was not told of, and none but the one it struck.          *)
StoredIsAnnounced ==
  \A m \in Messages : LiveMessage(m) =>
    \/ m \in announced \/ m \in dropped
    \/ \E r \in Requests : Telling(r) /\ request[r].message = m

(* 'Conversation already exists': one conversation per creator and         *)
(* participant, as long as no two requests have overlapped.  No constraint *)
(* of the table stops two that do: then there are as many as requests were *)
(* about to make when there was none, and no more, since whoever looks     *)
(* later makes none.                                                       *)
ConversationsUnique ==
  \A p \in Pair :
    Cardinality({c \in Conversations : conversation[c] = p})
        + Cardinality({r \in Requests : At(r, "converse") /\ request[r].pair = p})
      <= IF overlap THEN Cardinality(Requests) ELSE 1
=============================================================================
