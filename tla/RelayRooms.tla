------------------------------ MODULE RelayRooms ------------------------------
(***************************************************************************)
(* The rooms of the relay, for one node id: the node's sockets, the        *)
(* clients admitted to its room, and the clients held until it connects.   *)
(*                                                                         *)
(* A room is an object that socket listeners keep a reference to; the map  *)
(* from node ids to rooms is a separate thing, and both are modelled.  A   *)
(* socket may close at any time: by its peer, by the heartbeat, by an      *)
(* eviction for backpressure or a rate limit, or because the relay closed  *)
(* it.  The introspection of its ticket is an await during which anything  *)
(* may happen, its own close included.                                     *)
(***************************************************************************)
EXTENDS Naturals, FiniteSets

CONSTANTS NodeSock,     \* the node's successive connections
          ClientSock,   \* client connections
          Foreign,      \* those that present another account's ticket
          NoSock,       \* no node in the room
          MaxWaiting,   \* MAX_WAITING_CLIENTS_PER_ROOM
          MaxRooms,     \* bound on the room objects created
          Holds         \* clientNodeWaitMs > 0

ASSUME SocketsAssumption ==
  /\ NodeSock \cap ClientSock = {} /\ NoSock \notin NodeSock \union ClientSock
  /\ Foreign \subseteq ClientSock
ASSUME RoomBounds == MaxWaiting \in Nat /\ MaxRooms \in Nat /\ Holds \in BOOLEAN

VARIABLES
  rooms,    \* the map's entry for the node id: a room, or NoRoom
  room,     \* room[r]: the room objects
  made,     \* room objects created so far
  ws,       \* ws[s]: a socket's role, its link and the room its listeners hold
  told,     \* told[c]: the last peer notice the client was sent
  late,     \* history: sockets attached after they had closed
  misled    \* history: a close removed the map's entry of another room

vars == <<rooms, room, made, ws, told, late, misled>>

Sock == NodeSock \union ClientSock
NoRoom == 0
Room == 1 .. MaxRooms
EmptyRoom == [node |-> NoSock, clients |-> {}, waiting |-> {}]
IsEmpty(r) == r.node = NoSock /\ r.clients = {} /\ r.waiting = {}

-----------------------------------------------------------------------------
(* room(), send() and close(). *)

\* The room of the node id, created when there is none.
Entry == IF rooms = NoRoom THEN made + 1 ELSE rooms
CanEnter == rooms = NoRoom => made < MaxRooms
\* Mutant: an object is made whether or not the node id has a room.
CreatedAgain == made + 1
Created == IF rooms = NoRoom THEN made + 1 ELSE made

IsOpen(s) == ws[s].link = "open"
\* The relay closes the sockets S; their close events come later.
Closing(w, S) == [s \in Sock |-> IF s \in S /\ w[s].link = "open"
                                 THEN [w[s] EXCEPT !.link = "closing"] ELSE w[s]]
Notify(S, notice) == [c \in ClientSock |-> IF c \in S /\ IsOpen(c) THEN notice ELSE told[c]]
Refuse(w, c) == [Closing(w, {c}) EXCEPT ![c].st = "refused"]

\* dropRoomIfEmpty deletes by node id: the entry goes, whichever room it names.
DropRoomIfEmpty(r, rm) ==
  /\ rooms' = IF IsEmpty(rm[r]) THEN NoRoom ELSE rooms
  /\ misled' = (misled \/ (IsEmpty(rm[r]) /\ rooms \notin {r, NoRoom}))

-----------------------------------------------------------------------------
(* Admission. *)

\* The upgrade is accepted and the ticket sent for introspection.
Connect(s) ==
  /\ ws[s].st = "new"
  /\ ws' = [ws EXCEPT ![s].st = "asking", ![s].link = "open"]
  /\ UNCHANGED <<rooms, room, made, told, late, misled>>

\* The ticket is rejected, or the control plane could not say.
NotAdmitted(s) ==
  /\ ws[s].st = "asking"
  /\ ws' = Refuse(ws, s)
  /\ UNCHANGED <<rooms, room, made, told, late, misled>>

Late(s) == IF ws[s].link = "closed" THEN late \union {s} ELSE late

\* Mutant: clients already in the room are not told that the node is back.
AttachNodeQuietly(s) ==
  /\ ws[s].st = "asking" /\ CanEnter
  /\ LET r == Entry
         old == room[r].node
         fits == room[r].waiting \ Foreign
         admitted == [Closing(ws, {old} \ {NoSock}) EXCEPT ![s].st = "node", ![s].room = r]
     IN /\ room' = [room EXCEPT ![r] = [node |-> s, clients |-> @.clients \union fits, waiting |-> {}]]
        /\ ws' = [c \in Sock |-> IF c \in fits THEN [admitted[c] EXCEPT !.st = "client"]
                                 ELSE IF c \in room[r].waiting THEN Refuse(admitted, c)[c]
                                 ELSE admitted[c]]
        /\ told' = Notify(fits, "online")
        /\ rooms' = r /\ made' = Created
  /\ late' = Late(s)
  /\ UNCHANGED misled

\* Mutant: held clients are admitted without the ownership check.
AttachNodeUnchecked(s) ==
  /\ ws[s].st = "asking" /\ CanEnter
  /\ LET r == Entry
         old == room[r].node
         held == room[r].waiting
         admitted == [Closing(ws, {old} \ {NoSock}) EXCEPT ![s].st = "node", ![s].room = r]
     IN /\ room' = [room EXCEPT ![r] = [node |-> s, clients |-> @.clients \union held, waiting |-> {}]]
        /\ ws' = [c \in Sock |-> IF c \in held THEN [admitted[c] EXCEPT !.st = "client"] ELSE admitted[c]]
        /\ told' = Notify(room[r].clients \union held, "online")
        /\ rooms' = r /\ made' = Created
  /\ late' = Late(s)
  /\ UNCHANGED misled

\* Mutant: held clients are left to their timers.
AttachNodeLeavesWaiting(s) ==
  /\ ws[s].st = "asking" /\ CanEnter
  /\ LET r == Entry
         old == room[r].node
     IN /\ room' = [room EXCEPT ![r].node = s]
        /\ ws' = [Closing(ws, {old} \ {NoSock}) EXCEPT ![s].st = "node", ![s].room = r]
        /\ told' = Notify(room[r].clients, "online")
        /\ rooms' = r /\ made' = Created
  /\ late' = Late(s)
  /\ UNCHANGED misled

\* attachNode: replace the node's older connection, tell the clients, admit
\* those that were held and belong to the account.
AttachNode(s) ==
  /\ ws[s].st = "asking" /\ CanEnter
  /\ LET r == Entry
         old == room[r].node
         fits == room[r].waiting \ Foreign
         admitted == [Closing(ws, {old} \ {NoSock}) EXCEPT ![s].st = "node", ![s].room = r]
     IN /\ room' = [room EXCEPT ![r] = [node |-> s, clients |-> @.clients \union fits, waiting |-> {}]]
        /\ ws' = [c \in Sock |-> IF c \in fits THEN [admitted[c] EXCEPT !.st = "client"]
                                 ELSE IF c \in room[r].waiting THEN Refuse(admitted, c)[c]
                                 ELSE admitted[c]]
        /\ told' = Notify(room[r].clients \union fits, "online")
        /\ rooms' = r /\ made' = Created
  /\ late' = Late(s)
  /\ UNCHANGED misled

\* attachClient: admitted at once, refused, or held for the node.
AttachClient(c) ==
  /\ ws[c].st = "asking" /\ CanEnter
  /\ LET r == Entry
         present == room[r].node # NoSock
         held == ~present /\ Holds /\ Cardinality(room[r].waiting) < MaxWaiting
         admitted == present /\ c \notin Foreign
         st == IF admitted THEN "client" ELSE IF held THEN "waiting" ELSE "refused"
     IN /\ room' = [room EXCEPT ![r].clients = IF admitted THEN @ \union {c} ELSE @,
                                ![r].waiting = IF held THEN @ \union {c} ELSE @]
        /\ ws' = IF admitted \/ held THEN [ws EXCEPT ![c].st = st, ![c].room = r] ELSE Refuse(ws, c)
        /\ told' = IF admitted THEN Notify({c}, "online") ELSE told
        /\ rooms' = IF IsEmpty(room'[r]) THEN NoRoom ELSE r
        /\ made' = IF IsEmpty(room'[r]) THEN made ELSE Created
        /\ late' = IF admitted \/ held THEN Late(c) ELSE late
  /\ UNCHANGED misled

\* Mutant: the room is kept when the last held client gives up.
WaitExpiresKeeps(c) ==
  /\ ws[c].st = "waiting"
  /\ room' = [room EXCEPT ![ws[c].room].waiting = @ \ {c}]
  /\ ws' = Refuse(ws, c)
  /\ UNCHANGED <<rooms, made, told, late, misled>>

\* A held client's timer fires before the node came.
WaitExpires(c) ==
  /\ ws[c].st = "waiting"
  /\ room' = [room EXCEPT ![ws[c].room].waiting = @ \ {c}]
  /\ ws' = Refuse(ws, c)
  /\ DropRoomIfEmpty(ws[c].room, room')
  /\ UNCHANGED <<made, told, late>>

-----------------------------------------------------------------------------
(* Close events. *)

Closes(s) ==
  /\ ws[s].link \in {"open", "closing"}
  /\ ws' = [ws EXCEPT ![s].link = "closed", ![s].st = IF @ = "waiting" THEN "refused" ELSE @]

\* Nobody listens: the ticket is still being checked, or was refused.
CloseUnattached(s) ==
  /\ ws[s].st \in {"asking", "refused"}
  /\ Closes(s)
  /\ UNCHANGED <<rooms, room, made, told, late, misled>>

\* Mutant: the close of a replaced connection takes the node offline.
CloseNodeUnchecked(s) ==
  /\ ws[s].st = "node"
  /\ Closes(s)
  /\ LET r == ws[s].room
     IN /\ room' = [room EXCEPT ![r].node = NoSock]
        /\ told' = Notify(room[r].clients, "offline")
        /\ DropRoomIfEmpty(r, room')
  /\ UNCHANGED <<made, late>>

CloseNode(s) ==
  /\ ws[s].st = "node"
  /\ Closes(s)
  /\ LET r == ws[s].room
         current == room[r].node = s
     IN /\ room' = IF current THEN [room EXCEPT ![r].node = NoSock] ELSE room
        /\ told' = IF current THEN Notify(room[r].clients, "offline") ELSE told
        /\ DropRoomIfEmpty(r, room')
  /\ UNCHANGED <<made, late>>

\* Mutant: only a held client is taken out of the room when it closes.
CloseClientKeeps(c) ==
  /\ ws[c].st \in {"client", "waiting"}
  /\ Closes(c)
  /\ LET r == ws[c].room
     IN /\ room' = [room EXCEPT ![r].waiting = @ \ {c}]
        /\ DropRoomIfEmpty(r, room')
  /\ UNCHANGED <<made, told, late>>

CloseClient(c) ==
  /\ ws[c].st \in {"client", "waiting"}
  /\ Closes(c)
  /\ LET r == ws[c].room
     IN /\ room' = [room EXCEPT ![r].clients = @ \ {c}, ![r].waiting = @ \ {c}]
        /\ DropRoomIfEmpty(r, room')
  /\ UNCHANGED <<made, told, late>>

-----------------------------------------------------------------------------
Init ==
  /\ rooms = NoRoom /\ made = 0
  /\ room = [r \in Room |-> EmptyRoom]
  /\ ws = [s \in Sock |-> [st |-> "new", link |-> "none", room |-> NoRoom]]
  /\ told = [c \in ClientSock |-> "none"]
  /\ late = {} /\ misled = FALSE

Next ==
  \/ \E s \in Sock : Connect(s) \/ NotAdmitted(s) \/ CloseUnattached(s)
  \/ \E s \in NodeSock : AttachNode(s) \/ CloseNode(s)
  \/ \E c \in ClientSock : AttachClient(c) \/ WaitExpires(c) \/ CloseClient(c)

Spec == Init /\ [][Next]_vars

-----------------------------------------------------------------------------
(* Properties. *)

\* The shape of every variable.
TypeOK ==
  /\ rooms \in {NoRoom} \union Room /\ made \in 0 .. MaxRooms
  /\ room \in [Room -> [node : NodeSock \union {NoSock},
                        clients : SUBSET ClientSock, waiting : SUBSET ClientSock]]
  /\ ws \in [Sock -> [st : {"new", "asking", "node", "client", "waiting", "refused"},
                      link : {"none", "open", "closing", "closed"}, room : {NoRoom} \union Room]]
  /\ told \in [ClientSock -> {"none", "online", "offline"}]
  /\ late \subseteq Sock /\ misled \in BOOLEAN

\* An admitted client that can still hear the relay knows whether the node is
\* there: reconnects, replacements and late closes of the node never leave it
\* showing "node offline" for a node that is back, or the reverse.
NoticesAgree ==
  \A r \in Room : \A c \in room[r].clients :
    IsOpen(c) => (told[c] = "online" <=> room[r].node # NoSock)

\* No room outlives the last of its sockets in the map.
NoEmptyRoom == rooms # NoRoom => ~IsEmpty(room[rooms])

\* A client never gets into the room of a node of another account, whether it
\* arrived after the node or was held for it.
OwnAccountOnly == \A r \in Room : room[r].clients \cap Foreign = {}

\* Nobody is held for a node that is there.
NobodyHeldInVain == \A r \in Room : room[r].node # NoSock => room[r].waiting = {}

\* The node's open connection is the node of its room, and new clients find that
\* room, unless the late close of an older connection removed the map's entry.
NodeReachable ==
  \A s \in NodeSock : ws[s].st = "node" /\ IsOpen(s) =>
    room[ws[s].room].node = s /\ (misled \/ rooms = ws[s].room)

\* A closed socket is in no room, unless it had closed before it was attached.
ClosedLeaves ==
  \A r \in Room : \A s \in {room[r].node} \union room[r].clients \union room[r].waiting :
    s # NoSock /\ ws[s].link = "closed" => s \in late
=============================================================================
