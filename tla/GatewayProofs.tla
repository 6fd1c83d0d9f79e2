--------------------------- MODULE GatewayProofs ---------------------------
(***************************************************************************)
(* The theorems about Gateway, for any number of users, sockets and names, *)
(* failures and deaths of the process: messages and calls go to open       *)
(* sockets, as far as RoutesToOpenSocket says; and the status of a user    *)
(* follows the connection, as far as StatusFollowsConnection says.         *)
(***************************************************************************)
EXTENDS Gateway, TLAPS

MapsType ==
  /\ clients \in [Users -> Sockets \cup {NULL}]
  /\ activeUsers \in [Names -> Sockets \cup {NULL}]
  /\ socket \in [Sockets -> {"new", "open", "closed"}]
  /\ owner \in [Sockets -> Users \cup {NULL}]

(* A socket has an owner from its connection on, and only then a name.     *)
Owned ==
  /\ \A s \in Sockets : socket[s] = "new" <=> owner[s] = NULL
  /\ \A n \in Names, s \in Sockets : activeUsers[n] = s => socket[s] # "new"

(* The same user has been connected through another socket.                *)
Twice(s) == \E other \in Sockets \ {s} : owner[other] = owner[s]

ClientsOpen ==
  \A u \in Users, s \in Sockets : clients[u] = s => socket[s] = "open" /\ owner[s] = u

(* An open socket is its user's entry unless the user has another: this is *)
(* why the clean-up of handleDisconnect reaches the only socket of a user. *)
OpenIsClient ==
  \A s \in Sockets : socket[s] = "open" => clients[owner[s]] = s \/ Twice(s)

NamesOpen ==
  \A n \in Names, s \in Sockets : activeUsers[n] = s =>
    socket[s] = "open" \/ Twice(s) \/ Names # {n}

Routes == ClientsOpen /\ OpenIsClient /\ NamesOpen
IInv == MapsType /\ Owned /\ Routes

----------------------------------------------------------------------------
(* A step that leaves the maps alone.                                      *)
LEMMA MapsKept == ASSUME IInv, UNCHANGED maps PROVE IInv'
BY DEF maps, IInv, MapsType, Owned, Routes, Twice, ClientsOpen, OpenIsClient, NamesOpen

(* A connection: the new socket becomes the entry of its user, and every   *)
(* other open socket of that user now has a twin.                          *)
LEMMA ConnectStep ==
  ASSUME IInv, NEW s \in Sockets, NEW u \in Users, Connect(s, u)
  PROVE  IInv'
<1> USE GatewayAssumption
<1>1. /\ socket[s] = "new" /\ owner[s] = NULL /\ u # NULL
      /\ socket' = [socket EXCEPT ![s] = "open"] /\ owner' = [owner EXCEPT ![s] = u]
      /\ clients' = [clients EXCEPT ![u] = s] /\ activeUsers' = activeUsers
  BY DEF Connect, IInv, Owned
<1>2. MapsType'
  BY <1>1 DEF IInv, MapsType
<1>3. Owned'
  BY <1>1 DEF IInv, MapsType, Owned
<1>4. \A r \in Sockets : r # s => socket'[r] = socket[r] /\ owner'[r] = owner[r]
  BY <1>1 DEF IInv, MapsType
<1>5. \A r \in Sockets : owner[r] # NULL /\ Twice(r) => Twice(r)'
  BY <1>1, <1>4 DEF Twice
<1>6. ClientsOpen'
  BY <1>1, <1>4 DEF IInv, MapsType, Routes, ClientsOpen, Owned
<1>7. OpenIsClient'
  <2> SUFFICES ASSUME NEW r \in Sockets, socket'[r] = "open", r # s
               PROVE  clients'[owner'[r]] = r \/ Twice(r)'
    BY <1>1 DEF OpenIsClient, IInv, MapsType
  <2>1. socket[r] = "open" /\ owner'[r] = owner[r] /\ owner[r] \in Users
    BY <1>4 DEF IInv, Owned, MapsType
  <2>2. CASE owner[r] = u
    BY <1>1, <2>1, <2>2 DEF Twice, IInv, MapsType
  <2>3. CASE owner[r] # u
    BY <1>1, <1>5, <2>1, <2>3 DEF IInv, Routes, OpenIsClient, MapsType
  <2> QED
    BY <2>2, <2>3
<1>8. NamesOpen'
  BY <1>1, <1>4, <1>5 DEF IInv, Routes, NamesOpen, Owned
<1> QED
  BY <1>2, <1>3, <1>6, <1>7, <1>8 DEF IInv, Routes

(* A name is registered by an open socket.                                 *)
LEMMA JoinStep ==
  ASSUME IInv, NEW s \in Sockets, NEW n \in Names, Join(s, n)
  PROVE  IInv'
BY DEF Join, IInv, MapsType, Owned, Routes, Twice, ClientsOpen, OpenIsClient, NamesOpen

(* A socket closes.  If it is its user's entry, that is removed, and with  *)
(* it a name of the socket: the only one if there is one name.  If it is   *)
(* not, the user has another socket.                                       *)
LEMMA ClosedStep ==
  ASSUME IInv, NEW s \in Sockets, NEW t, socket[s] = "open", Closed(s, t)
  PROVE  IInv'
<1> USE GatewayAssumption
<1>1. /\ socket' = [socket EXCEPT ![s] = "closed"] /\ owner' = owner
      /\ owner[s] \in Users
  BY DEF Closed, IInv, Owned, MapsType
<1>2. /\ \A r \in Sockets : r # s => socket'[r] = socket[r]
      /\ socket'[s] = "closed"
      /\ \A r \in Sockets : Twice(r)' <=> Twice(r)
  BY <1>1 DEF IInv, MapsType, Twice
<1>3. CASE clients[owner[s]] = s
  <2>1. /\ clients' = [clients EXCEPT ![owner[s]] = NULL]
        /\ \/ /\ \A m \in Names : activeUsers[m] # s
              /\ activeUsers' = activeUsers
           \/ \E n \in Names :
                activeUsers[n] = s /\ activeUsers' = [activeUsers EXCEPT ![n] = NULL]
    BY <1>3 DEF Closed, ForgetsName
  <2>2. /\ MapsType'
        /\ \A m \in Names, r \in Sockets : activeUsers'[m] = r => activeUsers[m] = r
        /\ \A m \in Names : Names = {m} => activeUsers'[m] # s
    BY <1>1, <2>1 DEF IInv, MapsType
  <2>3. Owned'
    BY <1>1, <1>2, <2>2 DEF IInv, Owned
  <2>4. ClientsOpen'
    BY <1>1, <1>2, <1>3, <2>1 DEF IInv, MapsType, Routes, ClientsOpen
  <2>5. OpenIsClient'
    BY <1>1, <1>2, <1>3, <2>1 DEF IInv, MapsType, Owned, Routes, OpenIsClient, ClientsOpen, Twice
  <2>6. NamesOpen'
    BY <1>2, <2>2 DEF IInv, Routes, NamesOpen
  <2> QED
    BY <2>2, <2>3, <2>4, <2>5, <2>6 DEF IInv, Routes
<1>4. CASE clients[owner[s]] # s
  <2>1. clients' = clients /\ activeUsers' = activeUsers /\ Twice(s)
    BY <1>4 DEF Closed, IInv, Routes, OpenIsClient
  <2>2. MapsType' /\ Owned'
    BY <1>1, <1>2, <2>1 DEF IInv, MapsType, Owned
  <2>3. ClientsOpen'
    BY <1>1, <1>2, <1>4, <2>1 DEF IInv, Routes, ClientsOpen
  <2>4. OpenIsClient' /\ NamesOpen'
    BY <1>1, <1>2, <2>1 DEF IInv, Routes, OpenIsClient, NamesOpen
  <2> QED
    BY <2>2, <2>3, <2>4 DEF IInv, Routes
<1> QED
  BY <1>3, <1>4

(* The process dies: no socket is open, and the maps are empty.            *)
LEMMA DiesStep == ASSUME IInv, Dies PROVE IInv'
BY GatewayAssumption
   DEF Dies, IInv, MapsType, Owned, Routes, Twice, ClientsOpen, OpenIsClient, NamesOpen

LEMMA InvStep == IInv /\ [Next]_gvars => IInv'
<1> SUFFICES ASSUME IInv, [Next]_gvars PROVE IInv'
  OBVIOUS
<1>1. CASE UNCHANGED gvars
  BY <1>1, MapsKept DEF gvars
<1>2. ASSUME NEW s \in Sockets, NEW u \in Users, Connect(s, u) PROVE IInv'
  BY <1>2, ConnectStep
<1>3. ASSUME NEW s \in Sockets, NEW n \in Names, Join(s, n) PROVE IInv'
  BY <1>3, JoinStep
<1>4. ASSUME NEW s \in Sockets, Disconnect(s) PROVE IInv'
  BY <1>4, ClosedStep DEF Disconnect
<1>5. ASSUME NEW s \in Sockets, ConnectionFails(s) PROVE IInv'
  BY <1>5, ClosedStep, MapsKept DEF ConnectionFails
<1>6. ASSUME NEW s \in Sockets, NEW st \in Status, Find(s, st) \/ Update(s, st) \/ Emit(s, st)
      PROVE  IInv'
  BY <1>6, MapsKept DEF Find, Update, Emit
<1>7. CASE Dies
  BY <1>7, DiesStep
<1>8. ASSUME NEW u \in Users, DeleteUser(u) PROVE IInv'
  BY <1>8, MapsKept DEF DeleteUser
<1> QED
  BY <1>1, <1>2, <1>3, <1>4, <1>5, <1>6, <1>7, <1>8 DEF Next

(* The relays of MessageGateway reach an open socket of the user they are  *)
(* for or nobody, whatever the order of connections, clean-ups, failures   *)
(* and deaths of the process.                                              *)
THEOREM RoutingCorrect == Spec => []RoutesToOpenSocket
<1>1. Init => IInv
  BY GatewayAssumption
     DEF Init, IInv, MapsType, Owned, Routes, Twice, ClientsOpen, OpenIsClient, NamesOpen
<1>2. IInv => RoutesToOpenSocket
  BY DEF IInv, MapsType, Routes, ClientsOpen, NamesOpen, Twice, RoutesToOpenSocket, RelayTo, CallTo
<1> QED
  BY <1>1, <1>2, InvStep, PTL DEF Spec

----------------------------------------------------------------------------
(* The status.  Of a user whose last connection came up when the one       *)
(* before was over and done with, the only socket that is open is the      *)
(* entry of the user, the only handler that sets the user online is that   *)
(* of the entry, and one that sets the user offline is at it only when     *)
(* there is no entry, and then alone.                                      *)

TaskType ==
  /\ task \in [Tasks -> {"none", "find", "update", "emit"}]
  /\ availability \in [Users -> Status \cup {NULL}]
  /\ shown \in [Users -> Status \cup {NULL}]
  /\ known \subseteq Users
  /\ failures \in Nat /\ crashes \in Nat

Busy(s, st) == task[<<s, st>>] # "none"

OneConnection(u) ==
  \A s \in Sockets : owner[s] = u =>
    /\ socket[s] = "open" => clients[u] = s
    /\ Busy(s, "online") => clients[u] = s /\ socket[s] = "open"
    /\ Busy(s, "offline") => clients[u] = NULL
    /\ \A r \in Sockets : owner[r] = u /\ Busy(r, "offline") /\ Busy(s, "offline") => r = s

(* What a handler has written when it tells, and what all have when they   *)
(* are through.                                                            *)
Written(u) ==
  u \in known =>
    /\ \A s \in Sockets : owner[s] = u =>
         /\ task[<<s, "online">>] = "emit" => availability[u] = "online"
         /\ task[<<s, "offline">>] = "emit" => availability[u] # "online"
    /\ Settled(u) =>
         /\ clients[u] # NULL => availability[u] = "online" /\ shown[u] = "online"
         /\ availability[u] = "online" => clients[u] # NULL \/ crashes > 0

Follows(u) == OneConnection(u) /\ Written(u)

(* A socket that was never connected has no handlers.                      *)
Unowned == \A s \in Sockets : owner[s] = NULL => \A st \in Status : ~Busy(s, st)

StatusInv == IInv /\ TaskType /\ Unowned /\ \A u \in Users \ crossed : Follows(u)

(* Setting one handler back or forth leaves the others where they were.    *)
LEMMA TaskSet ==
  ASSUME TaskType, NEW s \in Sockets, NEW st \in Status, NEW v,
         task' = [task EXCEPT ![<<s, st>>] = v]
  PROVE  /\ task'[<<s, st>>] = v
         /\ \A r \in Sockets, q \in Status : r # s \/ q # st => task'[<<r, q>>] = task[<<r, q>>]
         /\ v \in {"none", "find", "update", "emit"} =>
              task' \in [Tasks -> {"none", "find", "update", "emit"}]
BY DEF TaskType, Tasks

(* A step that is none of a user's business.                               *)
LEMMA OthersFollow ==
  ASSUME TaskType, NEW u \in Users, Follows(u),
         \A s \in Sockets : owner'[s] = u <=> owner[s] = u,
         \A s \in Sockets : owner[s] = u =>
           /\ socket'[s] = socket[s]
           /\ \A st \in Status : task'[<<s, st>>] = task[<<s, st>>],
         clients'[u] = clients[u], availability'[u] = availability[u], shown'[u] = shown[u],
         u \in known' => u \in known, crashes' \in Nat, crashes' >= crashes
  PROVE  Follows(u)'
<1>1. "online" \in Status /\ "offline" \in Status
  BY DEF Status
<1>2. Settled(u)' <=> Settled(u)
  BY DEF Settled
<1>3. OneConnection(u)'
  <2>1. \A s \in Sockets : owner'[s] = u =>
          /\ owner[s] = u /\ socket'[s] = socket[s]
          /\ (Busy(s, "online"))' <=> Busy(s, "online")
          /\ (Busy(s, "offline"))' <=> Busy(s, "offline")
    BY <1>1 DEF Busy
  <2>2. OneConnection(u)
    BY DEF Follows
  <2> QED
    BY <2>1, <2>2 DEF OneConnection
<1>4. Written(u)'
  BY <1>1, <1>2 DEF Follows, Written, TaskType
<1> QED
  BY <1>3, <1>4 DEF Follows

(* A connection: its user either had nothing going on, or is crossed now.  *)
LEMMA ConnectFollows ==
  ASSUME StatusInv, NEW s \in Sockets, NEW u \in Users, Connect(s, u)
  PROVE  StatusInv'
<1> USE GatewayAssumption
<1>1. /\ socket[s] = "new" /\ owner[s] = NULL
      /\ socket'[s] = "open" /\ owner'[s] = u /\ clients'[u] = s
      /\ \A r \in Sockets : r # s => socket'[r] = socket[r] /\ owner'[r] = owner[r]
      /\ \A v \in Users : v # u => clients'[v] = clients[v]
      /\ UNCHANGED <<known, availability, shown, failures, crashes>>
  BY DEF Connect, StatusInv, IInv, MapsType, Owned, store, faults
<1>2. /\ task'[<<s, "online">>] = "find"
      /\ \A r \in Sockets, q \in Status :
           r # s \/ q # "online" => task'[<<r, q>>] = task[<<r, q>>]
      /\ task' \in [Tasks -> {"none", "find", "update", "emit"}]
  BY TaskSet DEF Connect, StatusInv, Status
<1>3. IInv' /\ TaskType'
  BY <1>1, <1>2, ConnectStep DEF StatusInv, TaskType
<1>4. Unowned'
  BY <1>1, <1>2 DEF StatusInv, Unowned, Busy
<1>5. ASSUME NEW v \in Users, v # u, v \notin crossed' PROVE Follows(v)'
  <2>1. v \notin crossed /\ Follows(v)
    BY <1>5 DEF Connect, StatusInv
  <2>2. \A r \in Sockets : (owner'[r] = v <=> owner[r] = v) /\ (owner[r] = v => r # s)
    BY <1>1, <1>5
  <2> QED
    BY <1>1, <1>2, <1>5, <2>1, <2>2, OthersFollow DEF StatusInv, TaskType
<1>6. ASSUME u \notin crossed' PROVE Follows(u)'
  <2>1. Alone(u)
    BY <1>6 DEF Connect
  <2>2. \A r \in Sockets : owner'[r] = u /\ r # s =>
          /\ socket'[r] # "open" /\ \A st \in Status : task'[<<r, st>>] = "none"
    BY <1>1, <1>2, <2>1 DEF Alone, Settled
  <2>3. "online" \in Status /\ "offline" \in Status
    BY DEF Status
  <2>4. task'[<<s, "offline">>] = "none"
    BY <1>1, <1>2, <2>3 DEF StatusInv, Unowned, Busy
  <2>5. OneConnection(u)'
    BY <1>1, <1>2, <2>2, <2>3, <2>4 DEF OneConnection, Busy
  <2>6. ~Settled(u)' /\ task'[<<s, "online">>] # "emit"
    BY <1>1, <1>2, <2>3 DEF Settled
  <2>7. Written(u)'
    BY <1>1, <2>2, <2>3, <2>4, <2>6 DEF Written
  <2> QED
    BY <2>5, <2>7 DEF Follows
<1> QED
  BY <1>3, <1>4, <1>5, <1>6 DEF StatusInv

(* A socket closes that is the entry of a user who was through, or whose   *)
(* handler of the connection has failed: the entry goes, and the handler   *)
(* that sets the user offline is the only one left.                        *)
LEMMA ClosedFollows ==
  ASSUME StatusInv, NEW s \in Sockets, NEW u \in Users, owner[s] = u,
         NEW t, socket[s] = "open", Closed(s, t),
         t \in [Tasks -> {"none", "find", "update", "emit"}],
         \A r \in Sockets, q \in Status : r # s \/ q # "online" => t[<<r, q>>] = task[<<r, q>>],
         failures' \in Nat, crashes' = crashes, UNCHANGED store, crossed \subseteq crossed',
         u \notin crossed' => t[<<s, "online">>] = "none"
  PROVE  StatusInv'
<1> USE GatewayAssumption
<1>1. /\ owner' = owner /\ socket'[s] = "closed"
      /\ \A r \in Sockets : r # s => socket'[r] = socket[r]
      /\ \A v \in Users : v # u => clients'[v] = clients[v]
      /\ UNCHANGED <<known, availability, shown>>
  BY DEF Closed, StatusInv, IInv, MapsType, Owned, store
<1>2. "online" \in Status /\ "offline" \in Status
  BY DEF Status
<1>3. /\ task' \in [Tasks -> {"none", "find", "update", "emit"}]
      /\ \A r \in Sockets, q \in Status : r # s => task'[<<r, q>>] = task[<<r, q>>]
      /\ task'[<<s, "online">>] = t[<<s, "online">>]
      /\ clients[u] = s => task'[<<s, "offline">>] = "find" /\ clients'[u] = NULL
  <2>1. CASE clients[u] = s
    <3>1. /\ clients' = [clients EXCEPT ![u] = NULL]
          /\ task' = [t EXCEPT ![<<s, "offline">>] = "find"]
      BY <2>1 DEF Closed
    <3>2. clients'[u] = NULL
      BY <3>1 DEF StatusInv, IInv, MapsType
    <3> QED
      BY <3>1, <3>2 DEF Tasks, Status
  <2>2. CASE clients[u] # s
    BY <1>2, <2>2 DEF Closed
  <2> QED
    BY <2>1, <2>2
<1>4. IInv' /\ TaskType'
  BY <1>1, <1>3, ClosedStep DEF StatusInv, TaskType
<1>5. Unowned'
  BY <1>1, <1>3 DEF StatusInv, Unowned, Busy
<1>6. ASSUME NEW v \in Users, v # u, v \notin crossed' PROVE Follows(v)'
  <2>1. Follows(v)
    BY <1>6 DEF StatusInv
  <2>2. \A r \in Sockets : (owner'[r] = v <=> owner[r] = v) /\ (owner[r] = v => r # s)
    BY <1>1, <1>6
  <2> QED
    BY <1>1, <1>3, <1>6, <2>1, <2>2, OthersFollow DEF StatusInv, TaskType
<1>7. ASSUME u \notin crossed' PROVE Follows(u)'
  <2>1. Follows(u) /\ u \notin crossed
    BY <1>1, <1>7 DEF StatusInv
  <2>2. clients[u] = s /\ clients'[u] = NULL
        /\ task'[<<s, "offline">>] = "find" /\ task'[<<s, "online">>] = "none"
    BY <1>1, <1>3, <1>7, <2>1 DEF Follows, OneConnection
  <2>3. s # NULL
    BY DEF StatusInv, IInv, Owned
  <2>4. \A r \in Sockets : owner'[r] = u /\ r # s =>
          /\ socket'[r] # "open"
          /\ task'[<<r, "online">>] = "none" /\ task'[<<r, "offline">>] = "none"
    <3> SUFFICES ASSUME NEW r \in Sockets, owner[r] = u, r # s
                 PROVE  /\ socket[r] # "open"
                        /\ ~Busy(r, "online") /\ ~Busy(r, "offline")
      BY <1>1, <1>2, <1>3 DEF Busy
    <3> QED
      BY <2>1, <2>2, <2>3 DEF Follows, OneConnection
  <2>5. OneConnection(u)'
    BY <1>1, <2>2, <2>4 DEF OneConnection, Busy
  <2>6. ~Settled(u)'
    BY <1>1, <1>2, <2>2 DEF Settled
  <2>7. Written(u)'
    BY <1>1, <2>2, <2>4, <2>6 DEF Written
  <2> QED
    BY <2>5, <2>7 DEF Follows
<1> QED
  BY <1>4, <1>5, <1>6, <1>7 DEF StatusInv

LEMMA DisconnectFollows ==
  ASSUME StatusInv, NEW s \in Sockets, Disconnect(s) PROVE StatusInv'
<1>1. /\ socket[s] = "open" /\ Closed(s, task) /\ UNCHANGED <<store, faults>>
      /\ crossed \subseteq crossed'
      /\ owner[s] \notin crossed' => Settled(owner[s])
  BY DEF Disconnect
<1>2. owner[s] \notin crossed' => task[<<s, "online">>] = "none"
  BY <1>1 DEF Settled, Status
<1>3. owner[s] \in Users
  BY <1>1 DEF StatusInv, IInv, MapsType, Owned
<1> QED
  BY <1>1, <1>2, <1>3, ClosedFollows DEF StatusInv, TaskType, faults

(* The connection fails while its handler awaits.  A socket that is closed *)
(* has such a handler only if its user is crossed.                         *)
LEMMA FailsFollows ==
  ASSUME StatusInv, NEW s \in Sockets, ConnectionFails(s) PROVE StatusInv'
<1> DEFINE t == [task EXCEPT ![<<s, "online">>] = "none"]
<1>1. /\ task[<<s, "online">>] \in {"find", "update"} /\ failures' \in Nat
      /\ UNCHANGED <<store, crashes, crossed>>
  BY GatewayAssumption DEF ConnectionFails, CanFail, StatusInv, TaskType
<1>2. /\ "online" \in Status
      /\ t \in [Tasks -> {"none", "find", "update", "emit"}] /\ t[<<s, "online">>] = "none"
      /\ \A r \in Sockets, q \in Status : r # s \/ q # "online" => t[<<r, q>>] = task[<<r, q>>]
  BY DEF StatusInv, TaskType, Tasks, Status
<1>3. CASE socket[s] = "open"
  <2>1. owner[s] \in Users
    BY <1>3 DEF StatusInv, IInv, MapsType, Owned
  <2>2. Closed(s, t)
    BY <1>3 DEF ConnectionFails
  <2> HIDE DEF t
  <2> QED
    BY <1>1, <1>2, <1>3, <2>1, <2>2, ClosedFollows
<1>4. CASE socket[s] # "open"
  <2>1. task' = t /\ UNCHANGED maps
    BY <1>4 DEF ConnectionFails
  <2>2. IInv' /\ TaskType'
    BY <1>1, <1>2, <2>1, MapsKept DEF StatusInv, TaskType, store
  <2>3. Unowned'
    BY <1>2, <2>1 DEF StatusInv, Unowned, Busy, maps
  <2>4. ASSUME NEW v \in Users, v \notin crossed' PROVE Follows(v)'
    <3>1. Follows(v)
      BY <1>1, <2>4 DEF StatusInv
    <3>2. \A r \in Sockets : owner[r] = v => r # s
      BY <1>1, <1>4, <3>1 DEF Follows, OneConnection, Busy
    <3> QED
      BY <1>1, <1>2, <2>1, <3>1, <3>2, OthersFollow DEF StatusInv, TaskType, maps, store
  <2> QED
    BY <2>2, <2>3, <2>4 DEF StatusInv
<1> QED
  BY <1>3, <1>4

(* A handler moves on: the one of the entry, or the last of a user who has *)
(* none.                                                                   *)
LEMMA HandlerFollows ==
  ASSUME StatusInv, NEW s \in Sockets, NEW st \in Status,
         Find(s, st) \/ Update(s, st) \/ Emit(s, st)
  PROVE  StatusInv'
<1> USE GatewayAssumption
<1>1. /\ UNCHANGED <<clients, socket, owner, known, crossed, failures, crashes>>
      /\ UNCHANGED maps /\ task[<<s, st>>] # "none"
  BY DEF Find, Update, Emit, store, maps, faults
<1>2. PICK u \in Users : owner[s] = u
  BY <1>1 DEF StatusInv, IInv, MapsType, Unowned, Busy
<1>3. PICK v \in {"none", "find", "update", "emit"} : task' = [task EXCEPT ![<<s, st>>] = v]
  BY DEF Find, Update, Emit
<1>4. /\ task' \in [Tasks -> {"none", "find", "update", "emit"}] /\ task'[<<s, st>>] = v
      /\ \A r \in Sockets, q \in Status : r # s \/ q # st => task'[<<r, q>>] = task[<<r, q>>]
  BY <1>3 DEF StatusInv, TaskType, Tasks
<1>5. /\ availability' \in [Users -> Status \cup {NULL}]
      /\ shown' \in [Users -> Status \cup {NULL}]
      /\ \A w \in Users : w # u => availability'[w] = availability[w] /\ shown'[w] = shown[w]
  <2>1. \/ UNCHANGED <<availability, shown>>
        \/ availability' = [availability EXCEPT ![u] = st] /\ shown' = shown
        \/ shown' = [shown EXCEPT ![u] = st] /\ availability' = availability
    BY <1>2 DEF Find, Update, Emit, store
  <2> QED
    BY <2>1 DEF StatusInv, TaskType
<1>6. IInv' /\ TaskType'
  BY <1>1, <1>4, <1>5, MapsKept DEF StatusInv, TaskType
<1>7. Unowned'
  BY <1>1, <1>2, <1>4 DEF StatusInv, Unowned, Busy
<1>8. ASSUME NEW w \in Users, w # u, w \notin crossed' PROVE Follows(w)'
  <2>1. Follows(w)
    BY <1>1, <1>8 DEF StatusInv
  <2> QED
    BY <1>1, <1>2, <1>4, <1>5, <1>8, <2>1, OthersFollow DEF StatusInv, TaskType
<1>9. ASSUME u \notin crossed' PROVE Follows(u)'
  <2>1. OneConnection(u) /\ Written(u)
    BY <1>1, <1>2, <1>9 DEF StatusInv, Follows
  <2>2. "online" \in Status /\ "offline" \in Status
    BY DEF Status
  <2>3. OneConnection(u)'
    <3>1. \A r \in Sockets, q \in Status : (Busy(r, q))' => Busy(r, q)
      BY <1>1, <1>4 DEF Busy
    <3> QED
      BY <1>1, <2>1, <2>2, <3>1 DEF OneConnection
  <2>4. \A r \in Sockets, q \in Status : owner[r] = u /\ Busy(r, q) => r = s /\ q = st
    <3> SUFFICES ASSUME NEW r \in Sockets, NEW q \in Status, owner[r] = u, Busy(r, q)
                 PROVE  r = s /\ q = st
      OBVIOUS
    <3>1. Busy(s, st) /\ q \in {"online", "offline"} /\ st \in {"online", "offline"}
      BY <1>1 DEF Busy, Status
    <3> QED
      BY <1>2, <2>1, <3>1 DEF OneConnection
  <2>5. \A r \in Sockets, q \in Status :
          owner[r] = u /\ (r # s \/ q # st) => task'[<<r, q>>] = "none"
    BY <1>4, <2>4 DEF Busy
  <2>6. CASE Find(s, st)
    <3>1. task'[<<s, st>>] = "update" \/ u \notin known
      <4>1. u \in known => task' = [task EXCEPT ![<<s, st>>] = "update"]
        BY <1>2, <2>6 DEF Find
      <4> QED
        BY <4>1 DEF StatusInv, TaskType, Tasks
    <3> QED
      BY <1>1, <1>2, <2>2, <2>3, <2>5, <3>1 DEF Follows, Written, Settled
  <2>7. CASE Update(s, st)
    <3>1. task'[<<s, st>>] = "emit" /\ availability'[u] = st
      <4>1. /\ task' = [task EXCEPT ![<<s, st>>] = "emit"]
            /\ availability' = [availability EXCEPT ![u] = st]
        BY <1>2, <2>7 DEF Update
      <4> QED
        BY <4>1 DEF StatusInv, TaskType, Tasks
    <3>2. ~Settled(u)'
      BY <1>1, <1>2, <3>1 DEF Settled
    <3> QED
      BY <1>1, <2>2, <2>3, <2>5, <3>1, <3>2 DEF Follows, Written
  <2>8. CASE Emit(s, st)
    <3>1. /\ task[<<s, st>>] = "emit" /\ task'[<<s, st>>] = "none"
          /\ availability' = availability /\ shown'[u] = st
      <4>1. /\ task[<<s, st>>] = "emit" /\ task' = [task EXCEPT ![<<s, st>>] = "none"]
            /\ availability' = availability /\ shown' = [shown EXCEPT ![u] = st]
        BY <1>2, <2>8 DEF Emit
      <4> QED
        BY <4>1 DEF StatusInv, TaskType, Tasks
    <3>2. \A r \in Sockets, q \in Status : owner[r] = u => task'[<<r, q>>] = "none"
      BY <2>5, <3>1
    <3>3. CASE st = "online"
      <4>1. clients[u] # NULL
        BY <1>1, <1>2, <2>1, <3>3 DEF OneConnection, Busy
      <4>2. u \in known => availability[u] = "online"
        BY <1>2, <2>1, <3>1, <3>3 DEF Written
      <4> QED
        BY <1>1, <2>2, <2>3, <3>1, <3>2, <3>3, <4>1, <4>2 DEF Follows, Written
    <3>4. CASE st = "offline"
      <4>1. clients[u] = NULL
        BY <1>1, <1>2, <2>1, <3>4 DEF OneConnection, Busy
      <4>2. u \in known => availability[u] # "online"
        BY <1>2, <2>1, <3>1, <3>4 DEF Written
      <4> QED
        BY <1>1, <2>2, <2>3, <3>1, <3>2, <4>1, <4>2 DEF Follows, Written
    <3> QED
      BY <3>3, <3>4 DEF Status
  <2> QED
    BY <2>6, <2>7, <2>8
<1> QED
  BY <1>1, <1>6, <1>7, <1>8, <1>9 DEF StatusInv

(* The process dies: nothing is open and nothing under way, and the status *)
(* left behind is what the last clause of the property is about.           *)
LEMMA DiesFollows == ASSUME StatusInv, Dies PROVE StatusInv'
<1> USE GatewayAssumption
<1>1. /\ UNCHANGED <<owner, known, availability, shown, failures, crossed>>
      /\ \A u \in Users : clients'[u] = NULL
      /\ \A s \in Sockets : socket'[s] # "open"
      /\ task' = [t \in Tasks |-> "none"]
      /\ crashes' \in Nat /\ crashes' > 0
  BY DEF Dies, StatusInv, TaskType, store
<1>2. \A s \in Sockets, st \in Status : task'[<<s, st>>] = "none"
  BY <1>1 DEF Tasks
<1>3. IInv' /\ TaskType'
  BY <1>1, DiesStep DEF StatusInv, TaskType
<1>4. Unowned'
  BY <1>2 DEF Unowned, Busy
<1>5. \A u \in Users : Follows(u)'
  BY <1>1, <1>2 DEF Follows, OneConnection, Written, Busy, Status
<1> QED
  BY <1>3, <1>4, <1>5 DEF StatusInv

(* Steps that change none of what the status is about.                     *)
LEMMA QuietFollows ==
  ASSUME StatusInv, IInv',
         UNCHANGED <<clients, owner, socket, task, availability, shown, crossed, faults>>,
         known' \subseteq known
  PROVE  StatusInv'
<1>1. TaskType' /\ Unowned'
  BY DEF StatusInv, TaskType, Unowned, Busy, faults
<1>2. ASSUME NEW u \in Users \ crossed' PROVE Follows(u)'
  BY OthersFollow DEF StatusInv, TaskType, faults
<1> QED
  BY <1>1, <1>2 DEF StatusInv

LEMMA StatusStep == StatusInv /\ [Next]_gvars => StatusInv'
<1> SUFFICES ASSUME StatusInv, [Next]_gvars PROVE StatusInv'
  OBVIOUS
<1>1. IInv'
  BY InvStep DEF StatusInv
<1>2. CASE UNCHANGED gvars
  BY <1>1, <1>2, QuietFollows DEF gvars, maps, store
<1>3. ASSUME NEW s \in Sockets, NEW u \in Users, Connect(s, u) PROVE StatusInv'
  BY <1>3, ConnectFollows
<1>4. ASSUME NEW s \in Sockets, NEW n \in Names, Join(s, n) PROVE StatusInv'
  BY <1>1, <1>4, QuietFollows DEF Join, store
<1>5. ASSUME NEW s \in Sockets, Disconnect(s) \/ ConnectionFails(s) PROVE StatusInv'
  BY <1>5, DisconnectFollows, FailsFollows
<1>6. ASSUME NEW s \in Sockets, NEW st \in Status, Find(s, st) \/ Update(s, st) \/ Emit(s, st)
      PROVE  StatusInv'
  BY <1>6, HandlerFollows
<1>7. CASE Dies
  BY <1>7, DiesFollows
<1>8. ASSUME NEW u \in Users, DeleteUser(u) PROVE StatusInv'
  BY <1>1, <1>8, QuietFollows DEF DeleteUser, maps
<1> QED
  BY <1>2, <1>3, <1>4, <1>5, <1>6, <1>7, <1>8 DEF Next

(* What updateUserStatus has stored and userStatusChange has said, once    *)
(* the handlers of a user are through, is whether the user is connected:   *)
(* for every user whose connections did not overlap, however many others   *)
(* come and go meanwhile, statements fail and the process dies.            *)
THEOREM StatusCorrect == Spec => []StatusFollowsConnection
<1>1. Init => StatusInv
  <2> SUFFICES ASSUME Init PROVE StatusInv
    OBVIOUS
  <2>1. IInv
    BY GatewayAssumption
       DEF Init, IInv, MapsType, Owned, Routes, Twice, ClientsOpen, OpenIsClient, NamesOpen
  <2>2. TaskType /\ Unowned
    BY DEF Init, TaskType, Unowned, Busy, Tasks
  <2>3. \A u \in Users, s \in Sockets : owner[s] # u
    BY GatewayAssumption DEF Init
  <2>4. \A u \in Users : Follows(u)
    BY <2>3, GatewayAssumption DEF Init, Follows, OneConnection, Written
  <2> QED
    BY <2>1, <2>2, <2>4 DEF StatusInv
<1>2. StatusInv => StatusFollowsConnection
  BY DEF StatusInv, TaskType, Follows, Written, StatusFollowsConnection
<1> QED
  BY <1>1, <1>2, StatusStep, PTL DEF Spec
=============================================================================
