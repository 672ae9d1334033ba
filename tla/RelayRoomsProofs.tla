--------------------------- MODULE RelayRoomsProofs ---------------------------
(***************************************************************************)
(* The safety of the relay's rooms, for any sockets, any tickets and any   *)
(* number of rooms.  No invariant of RelayRooms is inductive on its own:   *)
(* each needs to know that the rooms' member sets and the sockets' own     *)
(* roles agree (Placed), which is what the listeners rely on.              *)
(***************************************************************************)
EXTENDS RelayRooms, TLAPS

Link == {"none", "open", "closing", "closed"}
Role == {"new", "asking", "node", "client", "waiting", "refused"}
Sockets == [Sock -> [st : Role, link : Link, room : {NoRoom} \union Room]]
Rooms == [Room -> [node : NodeSock \union {NoSock},
                   clients : SUBSET ClientSock, waiting : SUBSET ClientSock]]

\* A socket is in at most one room, the one its listeners hold, in its role.
NodePlaced == \A r \in Room : room[r].node # NoSock =>
                ws[room[r].node].st = "node" /\ ws[room[r].node].room = r
ClientsPlaced == \A r \in Room : \A c \in room[r].clients : ws[c].st = "client" /\ ws[c].room = r
WaitingPlaced == \A r \in Room : \A c \in room[r].waiting : ws[c].st = "waiting" /\ ws[c].room = r
RolesPlaced ==
  /\ \A s \in Sock : ws[s].st \in {"node", "client", "waiting"} => ws[s].room \in Room
  /\ \A s \in NodeSock : ws[s].st \notin {"client", "waiting"}
  /\ \A c \in ClientSock : ws[c].st # "node"
Placed == NodePlaced /\ ClientsPlaced /\ WaitingPlaced /\ RolesPlaced

IInv == /\ TypeOK /\ Placed
        /\ NoticesAgree /\ NoEmptyRoom /\ OwnAccountOnly
        /\ NobodyHeldInVain /\ NodeReachable /\ ClosedLeaves

-----------------------------------------------------------------------------
(* What the operators of the model preserve. *)

\* room() returns a room object, one that is there or the next to be made.
LEMMA EntryIsRoom ==
  ASSUME TypeOK, CanEnter
  PROVE  Entry \in Room /\ Created \in 0 .. MaxRooms
  BY RoomBounds DEF TypeOK, CanEnter, Entry, Created, Room, NoRoom

\* dropRoomIfEmpty leaves the map with a room that has a member, or with none,
\* when the other rooms are as they were.
LEMMA DropKeepsRoom ==
  ASSUME TypeOK, NoEmptyRoom, NEW r \in Room, DropRoomIfEmpty(r, room'),
         \A x \in Room \ {r} : room'[x] = room[x]
  PROVE  NoEmptyRoom' /\ rooms' \in {NoRoom} \union Room /\ misled' \in BOOLEAN
  BY DEF TypeOK, NoEmptyRoom, DropRoomIfEmpty, IsEmpty

\* close() touches only the links of the sockets it is given, and leaves a link
\* that is already closing or closed.
LEMMA ClosingEffect ==
  ASSUME NEW w \in Sockets, NEW S
  PROVE  /\ Closing(w, S) \in Sockets
         /\ \A t \in Sock : /\ Closing(w, S)[t].st = w[t].st /\ Closing(w, S)[t].room = w[t].room
                            /\ Closing(w, S)[t].link = IF t \in S /\ w[t].link = "open"
                                                       THEN "closing" ELSE w[t].link
  BY DEF Closing, Sockets, Link

\* A refused socket keeps its room reference; no other socket is touched.
LEMMA RefuseEffect ==
  ASSUME NEW w \in Sockets, NEW c \in Sock
  PROVE  /\ Refuse(w, c) \in Sockets
         /\ \A t \in Sock \ {c} : Refuse(w, c)[t] = w[t]
         /\ Refuse(w, c)[c].st = "refused" /\ Refuse(w, c)[c].room = w[c].room
         /\ Refuse(w, c)[c].link = IF w[c].link = "open" THEN "closing" ELSE w[c].link
<1> DEFINE u == Closing(w, {c})
<1>1. /\ u \in Sockets /\ \A t \in Sock \ {c} : u[t] = w[t]
      /\ u[c].room = w[c].room /\ u[c].link = IF w[c].link = "open" THEN "closing" ELSE w[c].link
  <2>1. \A t \in Sock \ {c} : u[t] = w[t]
    BY DEF Closing
  <2> QED BY <2>1, ClosingEffect
<1>2. Refuse(w, c) = [u EXCEPT ![c].st = "refused"] /\ "refused" \in Role
  BY DEF Refuse, Role
<1> HIDE DEF u
<1> QED BY <1>1, <1>2 DEF Sockets

\* A step of a socket that is in no room, before it is attached or after it was
\* refused, keeps the invariant.
LEMMA AsidePreserves ==
  ASSUME IInv, NEW s \in Sock, UNCHANGED <<rooms, room, made, told, late, misled>>,
         ws[s].st \in {"new", "asking", "refused"},
         ws' \in Sockets,
         ws'[s].st \in {"asking", "refused"},
         \A t \in Sock \ {s} : ws'[t] = ws[t]
  PROVE  IInv'
<1> USE DEF IInv
<1>1. TypeOK'
  BY DEF TypeOK, Sockets, Role, Link
<1>2. Placed'
  <2>1. NodePlaced'
    BY SocketsAssumption DEF TypeOK, Placed, NodePlaced, Sock
  <2>2. ClientsPlaced' /\ WaitingPlaced'
    <3>1. \A r \in Room : \A c \in room[r].clients \union room[r].waiting : c \in Sock \ {s}
      BY DEF TypeOK, Placed, ClientsPlaced, WaitingPlaced, Sock
    <3> QED BY <3>1 DEF Placed, ClientsPlaced, WaitingPlaced
  <2>3. RolesPlaced'
    BY DEF Placed, RolesPlaced, Sock
  <2> QED BY <2>1, <2>2, <2>3 DEF Placed
<1>3. NoticesAgree' /\ OwnAccountOnly' /\ NobodyHeldInVain' /\ NoEmptyRoom'
  BY DEF TypeOK, Placed, ClientsPlaced, NoticesAgree, OwnAccountOnly, NobodyHeldInVain,
         NoEmptyRoom, IsEmpty, IsOpen, Sock
<1>4. NodeReachable'
  BY DEF TypeOK, NodeReachable, IsOpen, Sock
<1>5. ClosedLeaves'
  BY DEF TypeOK, Placed, NodePlaced, ClientsPlaced, WaitingPlaced, ClosedLeaves, Sock
<1> QED BY <1>1, <1>2, <1>3, <1>4, <1>5

\* An accepted upgrade is in no room yet.
LEMMA ConnectPreserves ==
  ASSUME IInv, NEW s \in Sock, Connect(s)
  PROVE  IInv'
  BY AsidePreserves DEF IInv, TypeOK, Connect, Sockets, Role, Link

\* A rejected ticket closes a socket that is in no room.
LEMMA NotAdmittedPreserves ==
  ASSUME IInv, NEW s \in Sock, NotAdmitted(s)
  PROVE  IInv'
<1>1. ws \in Sockets  BY DEF IInv, TypeOK, Sockets, Role, Link
<1>2. ws' \in Sockets /\ ws'[s].st = "refused" /\ \A t \in Sock \ {s} : ws'[t] = ws[t]
  BY <1>1, RefuseEffect DEF NotAdmitted
<1>3. ws[s].st = "asking" /\ UNCHANGED <<rooms, room, made, told, late, misled>>
  BY DEF NotAdmitted
<1> QED BY <1>2, <1>3, AsidePreserves

\* The close of a socket that nobody listens to changes no room.
LEMMA CloseUnattachedPreserves ==
  ASSUME IInv, NEW s \in Sock, CloseUnattached(s)
  PROVE  IInv'
  BY AsidePreserves DEF IInv, TypeOK, CloseUnattached, Closes, Sockets, Role, Link

-----------------------------------------------------------------------------
(* The node comes and goes. *)

\* attachNode: the older connection is closed but still names the room, the held
\* clients of the account become clients, the others are refused.
LEMMA AttachNodePreserves ==
  ASSUME IInv, NEW s \in NodeSock, AttachNode(s)
  PROVE  IInv'
<1> DEFINE r == Entry
           old == room[r].node
           fits == room[r].waiting \ Foreign
           shut == room[r].waiting \cap Foreign
<1> USE DEF IInv
<1>r. r \in Room /\ made' \in 0 .. MaxRooms
  BY EntryIsRoom DEF AttachNode
<1> HIDE DEF r
<1>rooms. /\ rooms' = r /\ UNCHANGED misled
          /\ rooms # NoRoom => r = rooms
  BY DEF AttachNode, r, Entry
<1>t. /\ s \in Sock /\ s \notin ClientSock /\ fits \subseteq ClientSock /\ shut \subseteq ClientSock
      /\ old \in NodeSock \union {NoSock} /\ NoSock \notin Sock /\ ClientSock \subseteq Sock
      /\ NodeSock \cap ClientSock = {} /\ NodeSock \subseteq Sock
  BY <1>r, SocketsAssumption DEF TypeOK, Sock
<1>asking. ws[s].st = "asking"
  BY DEF AttachNode
\* What becomes of each room and of each socket.
<1>room. /\ room' = [room EXCEPT ![r] = [node |-> s, clients |-> @.clients \union fits, waiting |-> {}]]
         /\ told' = Notify(room[r].clients \union fits, "online")
         /\ late' = Late(s)
  BY DEF AttachNode, r
<1>here. /\ room'[r].node = s /\ room'[r].clients = room[r].clients \union fits /\ room'[r].waiting = {}
         /\ \A x \in Room \ {r} : room'[x] = room[x]
  BY <1>r, <1>room DEF TypeOK
<1> DEFINE admitted == [Closing(ws, {old} \ {NoSock}) EXCEPT ![s].st = "node", ![s].room = r]
<1>ws. ws' = [c \in Sock |-> IF c \in fits THEN [admitted[c] EXCEPT !.st = "client"]
                             ELSE IF c \in room[r].waiting THEN Refuse(admitted, c)[c]
                             ELSE admitted[c]]
  BY DEF AttachNode, r
<1>typed. ws \in Sockets
  BY DEF TypeOK, Sockets, Role, Link
<1>adm. /\ admitted \in Sockets
        /\ \A t \in Sock : /\ admitted[t].st = IF t = s THEN "node" ELSE ws[t].st
                           /\ admitted[t].room = IF t = s THEN r ELSE ws[t].room
                           /\ admitted[t].link = IF t = old /\ ws[t].link = "open"
                                                 THEN "closing" ELSE ws[t].link
  <2> DEFINE u == Closing(ws, {old} \ {NoSock})
  <2>1. /\ u \in Sockets
        /\ \A t \in Sock : /\ u[t].st = ws[t].st /\ u[t].room = ws[t].room
                           /\ u[t].link = IF t \in {old} \ {NoSock} /\ ws[t].link = "open"
                                          THEN "closing" ELSE ws[t].link
    BY <1>typed, ClosingEffect
  <2>2. admitted = [u EXCEPT ![s].st = "node", ![s].room = r] /\ "node" \in Role
    BY DEF Role
  <2> HIDE DEF u, admitted
  <2>3. /\ admitted \in Sockets
        /\ admitted[s].st = "node" /\ admitted[s].link = u[s].link /\ admitted[s].room = r
        /\ \A t \in Sock \ {s} : admitted[t] = u[t]
    <3> DEFINE v == [u EXCEPT ![s].st = "node"]
    <3>1. /\ v \in Sockets /\ v[s].st = "node" /\ v[s].link = u[s].link
          /\ \A t \in Sock \ {s} : v[t] = u[t]
      BY <2>1, <2>2, <1>t DEF Sockets
    <3>2. admitted = [v EXCEPT ![s].room = r]
      BY <2>1, <2>2, <1>t DEF Sockets
    <3> HIDE DEF v
    <3> QED BY <3>1, <3>2, <1>t, <1>r DEF Sockets
  <2> QED BY <2>1, <2>3, <1>t
<1> HIDE DEF admitted
<1>ref. \A c \in room[r].waiting :
          /\ c \in Sock /\ Refuse(admitted, c) \in Sockets
          /\ Refuse(admitted, c)[c].st = "refused" /\ Refuse(admitted, c)[c].room = admitted[c].room
          /\ Refuse(admitted, c)[c].link = IF admitted[c].link = "open" THEN "closing" ELSE admitted[c].link
  BY <1>adm, <1>r, RefuseEffect DEF TypeOK, Sock
<1>st. \A t \in Sock : /\ ws'[t].st = IF t = s THEN "node" ELSE IF t \in fits THEN "client"
                                      ELSE IF t \in shut THEN "refused" ELSE ws[t].st
                       /\ ws'[t].room = IF t = s THEN r ELSE ws[t].room
                       /\ ws'[t].link = IF (t = old \/ t \in shut) /\ ws[t].link = "open"
                                        THEN "closing" ELSE ws[t].link
  <2> SUFFICES ASSUME NEW t \in Sock
               PROVE  /\ ws'[t].st = IF t = s THEN "node" ELSE IF t \in fits THEN "client"
                                     ELSE IF t \in shut THEN "refused" ELSE ws[t].st
                      /\ ws'[t].room = IF t = s THEN r ELSE ws[t].room
                      /\ ws'[t].link = IF (t = old \/ t \in shut) /\ ws[t].link = "open"
                                       THEN "closing" ELSE ws[t].link
    OBVIOUS
  <2>1. CASE t \in fits
    BY <2>1, <1>ws, <1>t, <1>adm DEF Sockets
  <2>2. CASE t \in shut
    BY <2>2, <1>ws, <1>t, <1>adm, <1>ref
  <2>3. CASE t \notin room[r].waiting
    BY <2>3, <1>ws, <1>adm
  <2> QED BY <2>1, <2>2, <2>3
<1>1. TypeOK'
  <2>1. ws' \in Sockets
    BY <1>ws, <1>adm, <1>ref, <1>t DEF Sockets, Role
  <2>2. told' \in [ClientSock -> {"none", "online", "offline"}]
    BY <1>room DEF TypeOK, Notify
  <2>3. late' \subseteq Sock
    BY <1>room, <1>t DEF TypeOK, Late
  <2>4. room' \in Rooms
    BY <1>room, <1>r, <1>t DEF TypeOK, Rooms
  <2> QED BY <2>1, <2>2, <2>3, <2>4, <1>r, <1>rooms DEF TypeOK, Rooms, Sockets, Role, Link
<1>2. Placed'
  <2>1. NodePlaced'
    BY <1>here, <1>st, <1>t, <1>asking, <1>r DEF TypeOK, Placed, NodePlaced
  <2>2. ClientsPlaced'
    BY <1>here, <1>st, <1>t, <1>asking, <1>r DEF TypeOK, Placed, ClientsPlaced, WaitingPlaced
  <2>3. WaitingPlaced'
    BY <1>here, <1>st, <1>t, <1>asking, <1>r DEF TypeOK, Placed, WaitingPlaced
  <2>4. RolesPlaced'
    BY <1>st, <1>t, <1>r DEF Placed, RolesPlaced, WaitingPlaced
  <2> QED BY <2>1, <2>2, <2>3, <2>4 DEF Placed
<1>3. NoticesAgree'
  <2> SUFFICES ASSUME NEW x \in Room, NEW c \in room'[x].clients, IsOpen(c)'
               PROVE  told'[c] = "online" <=> room'[x].node # NoSock
    BY DEF NoticesAgree
  <2>0. c \in ClientSock
    BY <1>1 DEF TypeOK
  <2>1. ws'[c].link = "open" /\ ws[c].link = "open"
    BY <2>0, <1>st, <1>t DEF IsOpen
  <2>2. CASE x = r
    BY <2>0, <2>1, <2>2, <1>here, <1>room, <1>t DEF Notify, IsOpen
  <2>3. CASE x # r
    <3>1. c \in room[x].clients /\ room'[x] = room[x]
      BY <2>3, <1>here
    <3>2. c \notin room[r].clients \union fits
      BY <3>1, <2>3, <1>r DEF Placed, ClientsPlaced, WaitingPlaced
    <3> QED BY <3>1, <3>2, <2>0, <2>1, <1>room DEF NoticesAgree, IsOpen, Notify
  <2> QED BY <2>2, <2>3
<1>4. NoEmptyRoom'
  BY <1>rooms, <1>here, <1>t DEF NoEmptyRoom, IsEmpty
<1>5. OwnAccountOnly' /\ NobodyHeldInVain'
  BY <1>here DEF OwnAccountOnly, NobodyHeldInVain
<1>6. NodeReachable'
  <2> SUFFICES ASSUME NEW t \in NodeSock, ws'[t].st = "node", ws'[t].link = "open"
               PROVE  room'[ws'[t].room].node = t /\ (misled' \/ rooms' = ws'[t].room)
    BY DEF NodeReachable, IsOpen
  <2>1. CASE t = s
    BY <2>1, <1>st, <1>here, <1>rooms, <1>t
  <2>2. CASE t # s
    <3>1. ws[t].st = "node" /\ ws[t].link = "open" /\ ws'[t].room = ws[t].room /\ t # old
      BY <2>2, <1>st, <1>t
    <3>2. room[ws[t].room].node = t /\ (misled \/ rooms = ws[t].room) /\ ws[t].room \in Room
      BY <3>1, <1>t DEF NodeReachable, IsOpen, Placed, RolesPlaced
    <3>3. ws[t].room # r
      BY <3>1, <3>2
    <3>4. misled
      BY <3>2, <3>3, <1>rooms DEF Room, NoRoom
    <3> QED BY <3>1, <3>2, <3>3, <3>4, <1>here, <1>rooms
  <2> QED BY <2>1, <2>2
<1>7. ClosedLeaves'
  <2>1. late \subseteq late' /\ (ws[s].link = "closed" => s \in late')
    BY <1>room DEF Late
  <2>2. \A t \in Sock : ws'[t].link = "closed" <=> ws[t].link = "closed"
    BY <1>st
  <2> QED BY <2>1, <2>2, <1>here, <1>t, <1>r DEF ClosedLeaves, TypeOK
<1> QED BY <1>1, <1>2, <1>3, <1>4, <1>5, <1>6, <1>7

\* The close listener of a node socket: it empties the node only when the room
\* still holds this very socket.
LEMMA CloseNodePreserves ==
  ASSUME IInv, NEW s \in NodeSock, CloseNode(s)
  PROVE  IInv'
<1> DEFINE r == ws[s].room
           current == room[r].node = s
<1> USE DEF IInv
<1>t. /\ s \in Sock /\ s # NoSock /\ s \notin ClientSock /\ r \in Room
      /\ ClientSock \subseteq Sock /\ NodeSock \subseteq Sock /\ NoSock \notin Sock
  BY SocketsAssumption DEF CloseNode, Placed, RolesPlaced, Sock
<1>ws. /\ ws' \in Sockets
       /\ ws'[s].st = "node" /\ ws'[s].room = r /\ ws'[s].link = "closed"
       /\ \A t \in Sock \ {s} : ws'[t] = ws[t]
  BY <1>t DEF CloseNode, Closes, TypeOK, Sockets, Role, Link
<1>room. /\ room' = IF current THEN [room EXCEPT ![r].node = NoSock] ELSE room
         /\ told' = IF current THEN Notify(room[r].clients, "offline") ELSE told
         /\ DropRoomIfEmpty(r, room') /\ UNCHANGED <<made, late>>
  BY DEF CloseNode
<1>st. ws[s].st = "node"
  BY DEF CloseNode
<1> HIDE DEF r
<1>here. /\ room'[r].node = IF current THEN NoSock ELSE room[r].node
         /\ \A x \in Room : room'[x].clients = room[x].clients /\ room'[x].waiting = room[x].waiting
         /\ \A x \in Room \ {r} : room'[x] = room[x]
         /\ room' \in Rooms
  BY <1>room, <1>t DEF TypeOK, Rooms
<1>drop. NoEmptyRoom' /\ rooms' \in {NoRoom} \union Room /\ misled' \in BOOLEAN
  BY <1>here, <1>room, <1>t, DropKeepsRoom
<1>1. TypeOK'
  <2>1. told' \in [ClientSock -> {"none", "online", "offline"}]
    BY <1>room DEF TypeOK, Notify
  <2> QED BY <2>1, <1>ws, <1>room, <1>here, <1>drop DEF TypeOK, Rooms, Sockets, Role, Link
<1>gone. \A x \in Room : room'[x].node # s
  BY <1>here, <1>t, <1>st DEF Placed, NodePlaced, r
<1>2. Placed'
  <2>1. NodePlaced'
    BY <1>here, <1>ws, <1>gone, <1>t DEF TypeOK, Placed, NodePlaced
  <2>2. ClientsPlaced' /\ WaitingPlaced'
    <3>1. \A x \in Room : \A c \in room[x].clients \union room[x].waiting : c \in Sock \ {s}
      BY <1>t DEF TypeOK
    <3> QED BY <3>1, <1>here, <1>ws DEF Placed, ClientsPlaced, WaitingPlaced
  <2>3. RolesPlaced'
    BY <1>ws, <1>t DEF Placed, RolesPlaced
  <2> QED BY <2>1, <2>2, <2>3 DEF Placed
<1>3. NoticesAgree'
  <2> SUFFICES ASSUME NEW x \in Room, NEW c \in room'[x].clients, IsOpen(c)'
               PROVE  told'[c] = "online" <=> room'[x].node # NoSock
    BY DEF NoticesAgree
  <2>1. c \in ClientSock /\ c \in room[x].clients
    BY <1>here DEF TypeOK
  <2>2. ws[c].link = "open"
    BY <2>1, <1>ws, <1>t DEF IsOpen
  <2>3. CASE x = r /\ current
    BY <2>1, <2>2, <2>3, <1>room, <1>here DEF Notify, IsOpen
  <2>4. CASE x # r /\ current
    <3>1. c \notin room[r].clients
      BY <2>1, <2>4, <1>t DEF Placed, ClientsPlaced
    <3> QED BY <3>1, <2>1, <2>2, <2>4, <1>room, <1>here DEF NoticesAgree, Notify, IsOpen
  <2>5. CASE ~current
    BY <2>1, <2>2, <2>5, <1>room DEF NoticesAgree, IsOpen
  <2> QED BY <2>3, <2>4, <2>5
<1>4. OwnAccountOnly' /\ NobodyHeldInVain'
  BY <1>here DEF OwnAccountOnly, NobodyHeldInVain
<1>5. NodeReachable'
  <2> SUFFICES ASSUME NEW t \in NodeSock, ws'[t].st = "node", ws'[t].link = "open"
               PROVE  room'[ws'[t].room].node = t /\ (misled' \/ rooms' = ws'[t].room)
    BY DEF NodeReachable, IsOpen
  <2>1. t # s /\ ws'[t] = ws[t] /\ ws[t].room \in Room /\ t # NoSock
    BY <1>ws, <1>t DEF Placed, RolesPlaced
  <2>2. room[ws[t].room].node = t /\ (misled \/ rooms = ws[t].room)
    BY <2>1 DEF NodeReachable, IsOpen
  <2>3. room'[ws[t].room].node = t
    BY <2>1, <2>2, <1>here
  <2>4. misled' \/ rooms' = ws[t].room
    <3>1. CASE misled
      BY <3>1, <1>room DEF DropRoomIfEmpty
    <3>2. CASE rooms = ws[t].room
      BY <3>2, <2>1, <2>3, <1>room DEF DropRoomIfEmpty, IsEmpty, Room, NoRoom
    <3> QED BY <3>1, <3>2, <2>2
  <2> QED BY <2>1, <2>3, <2>4
<1>6. ClosedLeaves'
  <2> SUFFICES ASSUME NEW x \in Room,
                      NEW t \in {room'[x].node} \union room'[x].clients \union room'[x].waiting,
                      t # NoSock, ws'[t].link = "closed"
               PROVE  t \in late'
    BY DEF ClosedLeaves
  <2>1. t \in Sock \ {s} /\ t \in {room[x].node} \union room[x].clients \union room[x].waiting
    BY <1>here, <1>gone, <1>t DEF TypeOK
  <2> QED BY <2>1, <1>ws, <1>room DEF ClosedLeaves
<1> QED BY <1>1, <1>2, <1>3, <1>4, <1>5, <1>6, <1>drop

-----------------------------------------------------------------------------
(* Clients come and go. *)

\* A client that is taken out of the room it is in, whatever becomes of its
\* socket, keeps the invariant.
LEMMA LeavePreserves ==
  ASSUME IInv, NEW c \in ClientSock, NEW r \in Room, r = ws[c].room,
         ws[c].st \in {"client", "waiting"},
         ws' \in Sockets, ws'[c].st \in {"client", "refused"}, ws'[c].room = r,
         \A t \in Sock \ {c} : ws'[t] = ws[t],
         room' \in Rooms, \A x \in Room \ {r} : room'[x] = room[x],
         \A x \in Room : room'[x].node = room[x].node,
         room'[r].clients = room[r].clients \ {c}, room'[r].waiting = room[r].waiting \ {c},
         DropRoomIfEmpty(r, room'), UNCHANGED <<made, told, late>>
  PROVE  IInv'
<1> USE DEF IInv
<1>t. /\ c \in Sock /\ c # NoSock /\ c \notin NodeSock
      /\ ClientSock \subseteq Sock /\ NodeSock \subseteq Sock /\ NoSock \notin Sock
  BY SocketsAssumption DEF Sock
<1>drop. NoEmptyRoom' /\ rooms' \in {NoRoom} \union Room /\ misled' \in BOOLEAN
  BY DropKeepsRoom
<1>1. TypeOK'
  BY <1>drop DEF TypeOK, Rooms, Sockets, Role, Link
\* No room but r had it, and r has it no more.
<1>gone. \A x \in Room : /\ room'[x].clients \subseteq room[x].clients \ {c}
                         /\ room'[x].waiting \subseteq room[x].waiting \ {c}
                         /\ room'[x].node # c
  BY <1>t DEF TypeOK, Placed, ClientsPlaced, WaitingPlaced
<1>2. Placed'
  <2>1. NodePlaced'
    <3>1. \A x \in Room : room[x].node # NoSock => room[x].node \in Sock \ {c}
      BY <1>t DEF TypeOK
    <3> QED BY <3>1 DEF Placed, NodePlaced
  <2>2. ClientsPlaced' /\ WaitingPlaced'
    <3>1. \A x \in Room : \A t \in room'[x].clients \union room'[x].waiting : t \in Sock \ {c}
      BY <1>gone, <1>t DEF TypeOK
    <3>2. ClientsPlaced'
      BY <3>1, <1>gone DEF Placed, ClientsPlaced
    <3>3. WaitingPlaced'
      BY <3>1, <1>gone DEF Placed, WaitingPlaced
    <3> QED BY <3>2, <3>3
  <2>3. RolesPlaced'
    BY <1>t DEF Placed, RolesPlaced
  <2> QED BY <2>1, <2>2, <2>3 DEF Placed
<1>3. NoticesAgree'
  <2> SUFFICES ASSUME NEW x \in Room, NEW t \in room'[x].clients, IsOpen(t)'
               PROVE  told'[t] = "online" <=> room'[x].node # NoSock
    BY DEF NoticesAgree
  <2>1. t \in Sock \ {c} /\ t \in room[x].clients
    BY <1>gone, <1>t DEF TypeOK
  <2> QED BY <2>1 DEF NoticesAgree, IsOpen
<1>4. OwnAccountOnly' /\ NobodyHeldInVain'
  BY <1>gone DEF OwnAccountOnly, NobodyHeldInVain
<1>5. NodeReachable'
  <2> SUFFICES ASSUME NEW t \in NodeSock, ws'[t].st = "node", ws'[t].link = "open"
               PROVE  room'[ws'[t].room].node = t /\ (misled' \/ rooms' = ws'[t].room)
    BY DEF NodeReachable, IsOpen
  <2>1. ws'[t] = ws[t] /\ ws[t].room \in Room /\ t # NoSock
    BY <1>t DEF Placed, RolesPlaced
  <2>2. room[ws[t].room].node = t /\ (misled \/ rooms = ws[t].room)
    BY <2>1 DEF NodeReachable, IsOpen
  <2>3. room'[ws[t].room].node = t
    BY <2>1, <2>2
  <2>4. misled' \/ rooms' = ws[t].room
    <3>1. CASE misled
      BY <3>1 DEF DropRoomIfEmpty
    <3>2. CASE rooms = ws[t].room
      BY <3>2, <2>1, <2>3 DEF DropRoomIfEmpty, IsEmpty, Room, NoRoom
    <3> QED BY <3>1, <3>2, <2>2
  <2> QED BY <2>1, <2>3, <2>4
<1>6. ClosedLeaves'
  <2> SUFFICES ASSUME NEW x \in Room,
                      NEW t \in {room'[x].node} \union room'[x].clients \union room'[x].waiting,
                      t # NoSock, ws'[t].link = "closed"
               PROVE  t \in late'
    BY DEF ClosedLeaves
  <2>1. t \in {room[x].node} \union (room[x].clients \ {c}) \union (room[x].waiting \ {c})
    BY <1>gone
  <2>2. t \in Sock \ {c}
    BY <2>1, <1>t DEF TypeOK
  <2> QED BY <2>1, <2>2 DEF ClosedLeaves
<1> QED BY <1>1, <1>2, <1>3, <1>4, <1>5, <1>6, <1>drop

\* The close listener of a client, admitted or held.
LEMMA CloseClientPreserves ==
  ASSUME IInv, NEW c \in ClientSock, CloseClient(c)
  PROVE  IInv'
<1> DEFINE r == ws[c].room
<1>1. r \in Room /\ c \in Sock
  BY DEF IInv, CloseClient, Placed, RolesPlaced, Sock
<1>2. /\ ws' \in Sockets /\ ws'[c].st \in {"client", "refused"} /\ ws'[c].room = r
      /\ \A t \in Sock \ {c} : ws'[t] = ws[t]
  BY <1>1 DEF IInv, CloseClient, Closes, TypeOK, Sockets, Role, Link
<1>3. /\ room' \in Rooms /\ \A x \in Room \ {r} : room'[x] = room[x]
      /\ \A x \in Room : room'[x].node = room[x].node
      /\ room'[r].clients = room[r].clients \ {c} /\ room'[r].waiting = room[r].waiting \ {c}
  <2>1. room' = [room EXCEPT ![r].clients = @ \ {c}, ![r].waiting = @ \ {c}]
    BY DEF CloseClient
  <2> HIDE DEF r
  <2> QED BY <1>1, <2>1 DEF IInv, TypeOK, Rooms
<1>4. ws[c].st \in {"client", "waiting"} /\ DropRoomIfEmpty(r, room') /\ UNCHANGED <<made, told, late>>
  BY DEF CloseClient
<1> QED BY <1>1, <1>2, <1>3, <1>4, LeavePreserves

\* The timer of a held client.
LEMMA WaitExpiresPreserves ==
  ASSUME IInv, NEW c \in ClientSock, WaitExpires(c)
  PROVE  IInv'
<1> DEFINE r == ws[c].room
<1>1. r \in Room /\ c \in Sock
  BY DEF IInv, WaitExpires, Placed, RolesPlaced, Sock
<1>2. /\ ws' \in Sockets /\ ws'[c].st \in {"client", "refused"} /\ ws'[c].room = r
      /\ \A t \in Sock \ {c} : ws'[t] = ws[t]
  <2>1. ws \in Sockets
    BY DEF IInv, TypeOK, Sockets, Role, Link
  <2> QED BY <2>1, <1>1, RefuseEffect DEF WaitExpires
<1>3. room[r].clients = room[r].clients \ {c}
  BY <1>1 DEF IInv, WaitExpires, Placed, ClientsPlaced
<1>4. /\ room' \in Rooms /\ \A x \in Room \ {r} : room'[x] = room[x]
      /\ \A x \in Room : room'[x].node = room[x].node
      /\ room'[r].clients = room[r].clients \ {c} /\ room'[r].waiting = room[r].waiting \ {c}
  <2>1. room' = [room EXCEPT ![r].waiting = @ \ {c}]
    BY DEF WaitExpires
  <2> HIDE DEF r
  <2> QED BY <1>1, <1>3, <2>1 DEF IInv, TypeOK, Rooms
<1>5. ws[c].st \in {"client", "waiting"} /\ DropRoomIfEmpty(r, room') /\ UNCHANGED <<made, told, late>>
  BY DEF WaitExpires
<1> QED BY <1>1, <1>2, <1>4, <1>5, LeavePreserves

\* attachClient: one of admitted, held and refused, and the map keeps the room
\* only in the first two cases or when somebody else is there.
LEMMA AttachClientPreserves ==
  ASSUME IInv, NEW c \in ClientSock, AttachClient(c)
  PROVE  IInv'
<1> DEFINE r == Entry
           present == room[r].node # NoSock
           held == ~present /\ Holds /\ Cardinality(room[r].waiting) < MaxWaiting
           admitted == present /\ c \notin Foreign
<1> USE DEF IInv
<1>r. r \in Room /\ Created \in 0 .. MaxRooms
  BY EntryIsRoom DEF AttachClient
<1>t. /\ c \in Sock /\ c # NoSock /\ c \notin NodeSock
      /\ ClientSock \subseteq Sock /\ NodeSock \subseteq Sock /\ NoSock \notin Sock
  BY SocketsAssumption DEF Sock
<1>asking. ws[c].st = "asking"
  BY DEF AttachClient
<1>eff. /\ room' = [room EXCEPT ![r].clients = IF admitted THEN @ \union {c} ELSE @,
                                ![r].waiting = IF held THEN @ \union {c} ELSE @]
        /\ ws' = IF admitted \/ held
                 THEN [ws EXCEPT ![c].st = IF admitted THEN "client" ELSE IF held THEN "waiting" ELSE "refused",
                                 ![c].room = r]
                 ELSE Refuse(ws, c)
        /\ told' = IF admitted THEN Notify({c}, "online") ELSE told
        /\ rooms' = IF IsEmpty(room'[r]) THEN NoRoom ELSE r
        /\ made' = IF IsEmpty(room'[r]) THEN made ELSE Created
        /\ late' = IF admitted \/ held THEN Late(c) ELSE late
        /\ UNCHANGED misled
  BY DEF AttachClient
<1>entry. rooms # NoRoom => r = rooms
  BY DEF Entry
<1> HIDE DEF r
<1>one. ~(admitted /\ held)
  OBVIOUS
<1>here. /\ room'[r].clients = IF admitted THEN room[r].clients \union {c} ELSE room[r].clients
         /\ room'[r].waiting = IF held THEN room[r].waiting \union {c} ELSE room[r].waiting
         /\ \A x \in Room : room'[x].node = room[x].node
         /\ \A x \in Room \ {r} : room'[x] = room[x]
         /\ room' \in Rooms
  <2> DEFINE K == IF admitted THEN room[r].clients \union {c} ELSE room[r].clients
             L == IF held THEN room[r].waiting \union {c} ELSE room[r].waiting
             v == [room EXCEPT ![r].clients = K]
  <2> HIDE DEF admitted, held
  <2>1. K \in SUBSET ClientSock /\ L \in SUBSET ClientSock
    BY <1>r DEF TypeOK
  <2>2. room' = [room EXCEPT ![r].clients = K, ![r].waiting = L]
    BY <1>eff, <1>r DEF TypeOK
  <2> HIDE DEF K, L
  <2>3. /\ v \in Rooms /\ v[r].clients = K /\ v[r].node = room[r].node
        /\ \A x \in Room \ {r} : v[x] = room[x]
    BY <2>1, <1>r DEF TypeOK, Rooms
  <2>4. room' = [v EXCEPT ![r].waiting = L]
    BY <2>2, <1>r DEF TypeOK
  <2> HIDE DEF v
  <2>5. /\ room' \in Rooms /\ room'[r].clients = K /\ room'[r].waiting = L /\ room'[r].node = room[r].node
        /\ \A x \in Room \ {r} : room'[x] = room[x]
    BY <2>1, <2>3, <2>4, <1>r DEF Rooms
  <2> QED BY <2>5 DEF K, L
<1>ws. /\ ws' \in Sockets
       /\ ws'[c].st = IF admitted THEN "client" ELSE IF held THEN "waiting" ELSE "refused"
       /\ admitted \/ held => ws'[c].room = r /\ ws'[c].link = ws[c].link
       /\ \A t \in Sock \ {c} : ws'[t] = ws[t]
  <2> HIDE DEF admitted, held
  <2>0. ws \in Sockets
    BY DEF TypeOK, Sockets, Role, Link
  <2>1. CASE admitted \/ held
    <3> DEFINE st == IF admitted THEN "client" ELSE IF held THEN "waiting" ELSE "refused"
               v == [ws EXCEPT ![c].st = st]
    <3>0. st \in Role /\ ws' = [ws EXCEPT ![c].st = st, ![c].room = r]
      BY <2>1, <1>eff DEF Role
    <3> HIDE DEF st
    <3>1. /\ v \in Sockets /\ v[c].st = st /\ v[c].link = ws[c].link
          /\ \A t \in Sock \ {c} : v[t] = ws[t]
      BY <2>0, <3>0, <1>t DEF Sockets
    <3>2. ws' = [v EXCEPT ![c].room = r]
      BY <2>0, <3>0, <1>t DEF Sockets
    <3> HIDE DEF v
    <3>3. /\ ws' \in Sockets /\ ws'[c].st = st /\ ws'[c].room = r /\ ws'[c].link = ws[c].link
          /\ \A t \in Sock \ {c} : ws'[t] = ws[t]
      BY <3>1, <3>2, <1>t, <1>r DEF Sockets
    <3> QED BY <3>3, <2>1 DEF st
  <2>2. CASE ~(admitted \/ held)
    BY <2>0, <2>2, <1>eff, <1>t, RefuseEffect
  <2> QED BY <2>1, <2>2
<1> HIDE DEF held
\* The clients and the held clients of a room are its old ones, or the newcomer.
<1>new. /\ \A x \in Room : \A t \in room'[x].clients : t \in room[x].clients \/ (t = c /\ admitted /\ x = r)
        /\ \A x \in Room : \A t \in room'[x].waiting : t \in room[x].waiting \/ (t = c /\ held /\ x = r)
  <2> HIDE DEF admitted
  <2> QED BY <1>here
<1>old. \A x \in Room : \A t \in room[x].clients \union room[x].waiting : t \in Sock \ {c}
  BY <1>t, <1>asking DEF TypeOK, Placed, ClientsPlaced, WaitingPlaced
<1>nodes. \A x \in Room : room[x].node # NoSock => room[x].node \in Sock \ {c}
  BY <1>t DEF TypeOK
<1>1. TypeOK'
  <2>1. told' \in [ClientSock -> {"none", "online", "offline"}]
    BY <1>eff DEF TypeOK, Notify
  <2>2. late' \subseteq Sock
    BY <1>eff, <1>t DEF TypeOK, Late
  <2>3. rooms' \in {NoRoom} \union Room /\ made' \in 0 .. MaxRooms
    BY <1>eff, <1>r DEF TypeOK
  <2> QED BY <2>1, <2>2, <2>3, <1>ws, <1>here, <1>eff DEF TypeOK, Rooms, Sockets, Role, Link
<1>2. Placed'
  <2>1. NodePlaced'
    BY <1>nodes, <1>here, <1>ws DEF Placed, NodePlaced
  <2>2. ClientsPlaced'
    BY <1>new, <1>old, <1>ws DEF Placed, ClientsPlaced
  <2>3. WaitingPlaced'
    BY <1>new, <1>old, <1>ws, <1>one DEF Placed, WaitingPlaced
  <2>4. RolesPlaced'
    BY <1>ws, <1>r, <1>t DEF Placed, RolesPlaced
  <2> QED BY <2>1, <2>2, <2>3, <2>4 DEF Placed
<1>3. NoticesAgree'
  <2> SUFFICES ASSUME NEW x \in Room, NEW t \in room'[x].clients, IsOpen(t)'
               PROVE  told'[t] = "online" <=> room'[x].node # NoSock
    BY DEF NoticesAgree
  <2>1. CASE t = c /\ admitted /\ x = r
    <3>1. IsOpen(c)
      BY <2>1, <1>ws DEF IsOpen
    <3>2. told'[c] = "online"
      BY <3>1, <2>1, <1>eff DEF Notify
    <3> QED BY <3>2, <2>1, <1>here
  <2>2. CASE t \in room[x].clients
    <3>1. t \in Sock \ {c} /\ t \in ClientSock
      BY <2>2, <1>old DEF TypeOK
    <3>2. IsOpen(t) /\ told'[t] = told[t]
      BY <3>1, <1>ws, <1>eff DEF IsOpen, Notify
    <3> QED BY <3>2, <2>2, <1>here DEF NoticesAgree
  <2> QED BY <2>1, <2>2, <1>new
<1>4. NoEmptyRoom'
  BY <1>eff DEF NoEmptyRoom
<1>5. OwnAccountOnly' /\ NobodyHeldInVain'
  <2>1. OwnAccountOnly'
    BY <1>new DEF OwnAccountOnly
  <2>2. NobodyHeldInVain'
    BY <1>here DEF NobodyHeldInVain, held
  <2> QED BY <2>1, <2>2
<1>6. NodeReachable'
  <2> SUFFICES ASSUME NEW t \in NodeSock, ws'[t].st = "node", ws'[t].link = "open"
               PROVE  room'[ws'[t].room].node = t /\ (misled' \/ rooms' = ws'[t].room)
    BY DEF NodeReachable, IsOpen
  <2>1. ws'[t] = ws[t] /\ ws[t].room \in Room /\ t # NoSock
    BY <1>t, <1>ws DEF Placed, RolesPlaced
  <2>2. room[ws[t].room].node = t /\ (misled \/ rooms = ws[t].room)
    BY <2>1 DEF NodeReachable, IsOpen
  <2>3. room'[ws[t].room].node = t
    BY <2>1, <2>2, <1>here
  <2>4. CASE rooms = ws[t].room
    <3>1. r = ws[t].room
      BY <2>4, <2>1, <1>entry DEF Room, NoRoom
    <3>2. ~IsEmpty(room'[r])
      BY <3>1, <2>1, <2>3 DEF IsEmpty
    <3>3. rooms' = r
      BY <3>2, <1>eff
    <3> QED BY <3>1, <3>3, <2>1, <2>3
  <2>5. misled => misled'
    BY <1>eff
  <2> QED BY <2>1, <2>2, <2>3, <2>4, <2>5
<1>7. ClosedLeaves'
  <2> SUFFICES ASSUME NEW x \in Room,
                      NEW t \in {room'[x].node} \union room'[x].clients \union room'[x].waiting,
                      t # NoSock, ws'[t].link = "closed"
               PROVE  t \in late'
    BY DEF ClosedLeaves
  <2>1. CASE t = c /\ (admitted \/ held)
    BY <2>1, <1>ws, <1>eff DEF Late, held
  <2>2. CASE t \in {room[x].node} \union room[x].clients \union room[x].waiting
    <3>1. t \in Sock \ {c}
      BY <2>2, <1>old, <1>nodes
    <3>2. t \in late
      BY <3>1, <2>2, <1>ws DEF ClosedLeaves
    <3> QED BY <3>2, <1>eff DEF Late
  <2> QED BY <2>1, <2>2, <1>new, <1>here
<1> QED BY <1>1, <1>2, <1>3, <1>4, <1>5, <1>6, <1>7

-----------------------------------------------------------------------------
(* The theorems. *)

\* No room and no socket, to begin with.
LEMMA InitEstablishes == Init => IInv
<1> SUFFICES ASSUME Init PROVE IInv
  OBVIOUS
<1>1. /\ \A r \in Room : room[r].node = NoSock /\ room[r].clients = {} /\ room[r].waiting = {}
      /\ \A s \in Sock : ws[s].st = "new" /\ ws[s].link = "none"
      /\ rooms = NoRoom
  BY DEF Init, EmptyRoom
<1>2. TypeOK
  <2>1. made \in 0 .. MaxRooms
    BY RoomBounds DEF Init
  <2>2. room \in Rooms /\ ws \in Sockets /\ told \in [ClientSock -> {"none", "online", "offline"}]
    BY DEF Init, EmptyRoom, Rooms, Sockets, Role, Link
  <2> QED BY <2>1, <2>2 DEF Init, TypeOK, Rooms, Sockets, Role, Link
<1>3. Placed
  BY <1>1 DEF Placed, NodePlaced, ClientsPlaced, WaitingPlaced, RolesPlaced, Sock
<1>4. NoticesAgree /\ NoEmptyRoom /\ OwnAccountOnly /\ NobodyHeldInVain
  BY <1>1 DEF NoticesAgree, NoEmptyRoom, OwnAccountOnly, NobodyHeldInVain
<1>5. NodeReachable /\ ClosedLeaves
  BY <1>1 DEF NodeReachable, ClosedLeaves, IsOpen, Sock
<1> QED BY <1>2, <1>3, <1>4, <1>5 DEF IInv

\* Every step of the relay keeps the inductive invariant.
LEMMA NextPreserves == IInv /\ [Next]_vars => IInv'
<1> SUFFICES ASSUME IInv, [Next]_vars PROVE IInv'
  OBVIOUS
<1>1. CASE \E s \in Sock : Connect(s) \/ NotAdmitted(s) \/ CloseUnattached(s)
  BY <1>1, ConnectPreserves, NotAdmittedPreserves, CloseUnattachedPreserves
<1>2. CASE \E s \in NodeSock : AttachNode(s) \/ CloseNode(s)
  BY <1>2, AttachNodePreserves, CloseNodePreserves
<1>3. CASE \E c \in ClientSock : AttachClient(c) \/ WaitExpires(c) \/ CloseClient(c)
  BY <1>3, AttachClientPreserves, WaitExpiresPreserves, CloseClientPreserves
<1>4. CASE UNCHANGED vars
  BY <1>4 DEF vars, IInv, TypeOK, Placed, NodePlaced, ClientsPlaced, WaitingPlaced, RolesPlaced,
              NoticesAgree, NoEmptyRoom, OwnAccountOnly, NobodyHeldInVain, NodeReachable,
              ClosedLeaves, IsOpen, IsEmpty
<1> QED BY <1>1, <1>2, <1>3, <1>4 DEF Next

\* The inductive invariant holds in every behaviour.
LEMMA Invariance == Spec => []IInv
  BY InitEstablishes, NextPreserves, PTL DEF Spec

\* The relay's state keeps its shape.
THEOREM TypeCorrect == Spec => []TypeOK
<1>1. IInv => TypeOK
  BY DEF IInv
<1> QED BY Invariance, <1>1, PTL

\* attachNode, attachClient and the close listeners: every admitted client that
\* can still hear the relay knows whether the node is there.
THEOREM ClientsKnowTheNode == Spec => []NoticesAgree
<1>1. IInv => NoticesAgree
  BY DEF IInv
<1> QED BY Invariance, <1>1, PTL

\* dropRoomIfEmpty: the map never keeps a room without a member.
THEOREM RoomsAreDropped == Spec => []NoEmptyRoom
<1>1. IInv => NoEmptyRoom
  BY DEF IInv
<1> QED BY Invariance, <1>1, PTL

\* The ownership check of attachNode and attachClient keeps a client of another
\* account out of the room, whichever of the two came first.
THEOREM AccountsSeparate == Spec => []OwnAccountOnly
<1>1. IInv => OwnAccountOnly
  BY DEF IInv
<1> QED BY Invariance, <1>1, PTL

\* attachNode leaves nobody held in the room it joins, and attachClient holds
\* nobody in a room that has its node.
THEOREM NobodyWaitsForAPresentNode == Spec => []NobodyHeldInVain
<1>1. IInv => NobodyHeldInVain
  BY DEF IInv
<1> QED BY Invariance, <1>1, PTL

\* The node's open connection stays the node of its room through replacements
\* and late closes, and the map leads to that room unless a late close of
\* another room's socket removed the entry.
THEOREM OpenNodeIsReachable == Spec => []NodeReachable
<1>1. IInv => NodeReachable
  BY DEF IInv
<1> QED BY Invariance, <1>1, PTL

\* The close listeners leave no closed socket in a room, except one whose close
\* came during the introspection of its ticket.
THEOREM ClosedSocketsLeave == Spec => []ClosedLeaves
<1>1. IInv => ClosedLeaves
  BY DEF IInv
<1> QED BY Invariance, <1>1, PTL
=============================================================================
