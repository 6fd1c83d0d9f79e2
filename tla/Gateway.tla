------------------------------ MODULE Gateway ------------------------------
(***************************************************************************)
(* modules/chat/message/message.gateway.ts: which socket a user's messages *)
(* and calls are sent to, and whether the user is shown as online.         *)
(*                                                                         *)
(* Both handlers change the maps in one go and then await the database:    *)
(* updateUserStatus of chat.repository.ts looks the user up and writes the *)
(* status, and the handler tells everybody.  task[<<s, st>>] is where the  *)
(* handler that sets status st for socket s has got to: handleConnection   *)
(* sets "online", handleDisconnect "offline".                              *)
(***************************************************************************)
EXTENDS Naturals

CONSTANTS
  Users, Sockets,
  Names,        \* user names given to 'join' for calls
  MaxFailures,  \* bound: statements that fail
  MaxCrashes,   \* bound: deaths of the process
  NULL

ASSUME GatewayAssumption ==
  /\ NULL \notin Users \cup Sockets \cup {"online", "offline"}
  /\ MaxFailures \in Nat /\ MaxCrashes \in Nat

VARIABLES
  clients,       \* Map userId -> socketId
  activeUsers,   \* Map username -> socketId
  socket,        \* connection state of each socket
  owner,         \* decoded.sub of its token
  task,          \* handlers in progress
  known,         \* ids in table users
  availability,  \* column users.availability
  shown,         \* the last userStatusChange sent for each user
  crossed,       \* history, see Settled
  failures, crashes

maps   == <<clients, activeUsers, socket, owner>>
store  == <<known, availability, shown>>
faults == <<failures, crashes>>
gvars  == <<maps, store, faults, task, crossed>>

Status == {"online", "offline"}
Tasks  == Sockets \X Status

TypeOK ==
  /\ clients \in [Users -> Sockets \cup {NULL}]
  /\ activeUsers \in [Names -> Sockets \cup {NULL}]
  /\ socket \in [Sockets -> {"new", "open", "closed"}]
  /\ owner \in [Sockets -> Users \cup {NULL}]
  /\ task \in [Tasks -> {"none", "find", "update", "emit"}]
  /\ known \subseteq Users
  /\ availability \in [Users -> Status \cup {NULL}]
  /\ shown \in [Users -> Status \cup {NULL}]
  /\ crossed \subseteq Users
  /\ failures \in 0..MaxFailures /\ crashes \in 0..MaxCrashes

Init ==
  /\ clients = [u \in Users |-> NULL]
  /\ activeUsers = [n \in Names |-> NULL]
  /\ socket = [s \in Sockets |-> "new"]
  /\ owner = [s \in Sockets |-> NULL]
  /\ task = [t \in Tasks |-> "none"]
  /\ known = Users
  /\ availability = [u \in Users |-> NULL]
  /\ shown = [u \in Users |-> NULL]
  /\ crossed = {}
  /\ failures = 0 /\ crashes = 0

(* The handlers of user u are through with everything that came before.    *)
(* crossed holds the users whose last connection came up when they were    *)
(* not, or during another, or went away when they were not.                *)
Settled(u) == \A s \in Sockets : owner[s] = u => \A st \in Status : task[<<s, st>>] = "none"
Alone(u)   == Settled(u) /\ \A s \in Sockets : owner[s] = u => socket[s] # "open"

----------------------------------------------------------------------------
(* handleConnection, up to its await.  A socket without a valid token is   *)
(* disconnected before anything is stored and is no step.                  *)
Connect(s, u) ==
  /\ socket[s] = "new"
  /\ socket' = [socket EXCEPT ![s] = "open"]
  /\ owner' = [owner EXCEPT ![s] = u]
  /\ clients' = [clients EXCEPT ![u] = s]
  /\ task' = [task EXCEPT ![<<s, "online">>] = "find"]
  /\ crossed' = IF Alone(u) THEN crossed \ {u} ELSE crossed \cup {u}
  /\ UNCHANGED <<activeUsers, store, faults>>

(* Where the relays send to: sendMessage, typing and stopTyping go by the  *)
(* user; call, answer, iceCandidate and endCall by the name.               *)
RelayTo(u) == {clients[u]} \ {NULL}
CallTo(n)  == {activeUsers[n]} \ {NULL}

(* 'join': the socket registers a user name for calls.                     *)
Join(s, n) ==
  /\ socket[s] = "open"
  /\ activeUsers' = [activeUsers EXCEPT ![n] = s]
  /\ UNCHANGED <<clients, socket, owner, task, store, faults, crossed>>

(* handleDisconnect, up to its await, with tasks t otherwise: only the     *)
(* socket the user's entry names is cleaned up after, and of the names it  *)
(* registered only the first.                                              *)
ForgetsName(s) ==
  IF \E n \in Names : activeUsers[n] = s
    THEN \E n \in Names : activeUsers[n] = s /\ activeUsers' = [activeUsers EXCEPT ![n] = NULL]
    ELSE UNCHANGED activeUsers

ClosedQuietly(s, t) ==  \* mutant: the status is not written
  /\ socket' = [socket EXCEPT ![s] = "closed"]
  /\ task' = t
  /\ IF clients[owner[s]] = s
       THEN clients' = [clients EXCEPT ![owner[s]] = NULL] /\ ForgetsName(s)
       ELSE UNCHANGED <<clients, activeUsers>>
  /\ UNCHANGED owner

Closed(s, t) ==
  /\ socket' = [socket EXCEPT ![s] = "closed"]
  /\ IF clients[owner[s]] = s
       THEN /\ clients' = [clients EXCEPT ![owner[s]] = NULL]
            /\ ForgetsName(s)
            /\ task' = [t EXCEPT ![<<s, "offline">>] = "find"]
       ELSE UNCHANGED <<clients, activeUsers>> /\ task' = t
  /\ UNCHANGED owner

Disconnect(s) ==
  /\ socket[s] = "open"
  /\ Closed(s, task)
  /\ crossed' = IF Settled(owner[s]) THEN crossed ELSE crossed \cup {owner[s]}
  /\ UNCHANGED <<store, faults>>

----------------------------------------------------------------------------
(* updateUserStatus and the message that follows it.                       *)

FindSkipsUpdate(s, st) ==  \* mutant: the test for the user is the wrong way round
  /\ task[<<s, st>>] = "find"
  /\ task' = [task EXCEPT ![<<s, st>>] = IF owner[s] \in known THEN "emit" ELSE "update"]
  /\ UNCHANGED <<maps, store, faults, crossed>>

Find(s, st) ==
  /\ task[<<s, st>>] = "find"
  /\ task' = [task EXCEPT ![<<s, st>>] = IF owner[s] \in known THEN "update" ELSE "emit"]
  /\ UNCHANGED <<maps, store, faults, crossed>>

Update(s, st) ==
  /\ task[<<s, st>>] = "update"
  /\ owner[s] \in known
  /\ availability' = [availability EXCEPT ![owner[s]] = st]
  /\ task' = [task EXCEPT ![<<s, st>>] = "emit"]
  /\ UNCHANGED <<maps, known, shown, faults, crossed>>

EmitRegisters(s, st) ==  \* mutant: stores the client after the await
  /\ task[<<s, st>>] = "emit"
  /\ shown' = [shown EXCEPT ![owner[s]] = st]
  /\ clients' = IF st = "online" THEN [clients EXCEPT ![owner[s]] = s] ELSE clients
  /\ task' = [task EXCEPT ![<<s, st>>] = "none"]
  /\ UNCHANGED <<activeUsers, socket, owner, known, availability, faults, crossed>>

Emit(s, st) ==
  /\ task[<<s, st>>] = "emit"
  /\ shown' = [shown EXCEPT ![owner[s]] = st]
  /\ task' = [task EXCEPT ![<<s, st>>] = "none"]
  /\ UNCHANGED <<maps, known, availability, faults, crossed>>

----------------------------------------------------------------------------
(* The process dies: the maps and the connections are gone, and nothing    *)
(* resets what the table says.                                             *)
Dies ==
  /\ crashes < MaxCrashes
  /\ crashes' = crashes + 1
  /\ clients' = [u \in Users |-> NULL]
  /\ activeUsers' = [n \in Names |-> NULL]
  /\ socket' = [s \in Sockets |-> IF socket[s] = "open" THEN "closed" ELSE socket[s]]
  /\ task' = [t \in Tasks |-> "none"]
  /\ UNCHANGED <<owner, store, failures, crossed>>

(* A statement fails.  handleConnection catches the error and disconnects  *)
(* the socket; that of handleDisconnect is caught by nobody and ends the   *)
(* process, which is Dies.                                                 *)
CanFail(s, st) ==
  \/ task[<<s, st>>] \in {"find", "update"} /\ failures < MaxFailures
  \/ task[<<s, st>>] = "update" /\ owner[s] \notin known

ConnectionFails(s) ==
  LET t == [task EXCEPT ![<<s, "online">>] = "none"] IN
  /\ CanFail(s, "online")
  /\ failures' = IF failures < MaxFailures THEN failures + 1 ELSE failures
  /\ IF socket[s] = "open"
       THEN Closed(s, t)
       ELSE task' = t /\ UNCHANGED maps
  /\ UNCHANGED <<store, crashes, crossed>>

(* delete of admin/student/student.service.ts                              *)
DeleteUser(u) ==
  /\ u \in known
  /\ known' = known \ {u}
  /\ UNCHANGED <<maps, availability, shown, faults, task, crossed>>

----------------------------------------------------------------------------
Next ==
  \/ \E s \in Sockets :
       \/ \E u \in Users : Connect(s, u)
       \/ \E n \in Names : Join(s, n)
       \/ Disconnect(s) \/ ConnectionFails(s)
       \/ \E st \in Status : Find(s, st) \/ Update(s, st) \/ Emit(s, st)
  \/ Dies
  \/ \E u \in Users : DeleteUser(u)

(* The event loop runs on; nobody has to connect, and statements need not  *)
(* fail.                                                                   *)
Fairness ==
  \A s \in Sockets, st \in Status : WF_gvars(Find(s, st) \/ Update(s, st) \/ Emit(s, st))

Spec == Init /\ [][Next]_gvars /\ Fairness

----------------------------------------------------------------------------
(* Messages for a user go to an open socket of that user or to none, in    *)
(* whatever order connections come and go while handlers await.  So do     *)
(* calls, as long as sockets register one name and users do not connect    *)
(* twice: what handleDisconnect cleans up after is the socket of the map   *)
(* of messages, and one name of it.                                        *)
RoutesToOpenSocket ==
  /\ \A u \in Users : \A s \in RelayTo(u) : socket[s] = "open" /\ owner[s] = u
  /\ \A n \in Names : \A s \in CallTo(n) :
       \/ socket[s] = "open"
       \/ \E other \in Sockets \ {s} : owner[other] = owner[s]
       \/ Names # {n}

(* Once the handlers of a user are through, the user is stored and shown   *)
(* as online if there is a connection, and stored as online only if there  *)
(* is one or the process has died; provided the connection before was over *)
(* and done with when the last came up.                                    *)
StatusFollowsConnection ==
  \A u \in known \ crossed : Settled(u) =>
    /\ clients[u] # NULL => availability[u] = "online" /\ shown[u] = "online"
    /\ availability[u] = "online" => clients[u] # NULL \/ crashes > 0

(* A connection that stays makes its user online for good, also after the  *)
(* process has died and left a stale status behind.  (The same proviso.)   *)
StaysOnline ==
  \A u \in Users, s \in Sockets :
    <>[](clients[u] = s /\ u \in known \ crossed)
      => <>[](availability[u] = "online" /\ shown[u] = "online")
=============================================================================
