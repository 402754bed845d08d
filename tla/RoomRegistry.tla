---------------------------- MODULE RoomRegistry ----------------------------
(***************************************************************************)
(* The bookkeeping of RoomService, RoomStore and the identity fields of    *)
(* PeerSession (apps/core/src/domain).  Every method is synchronous        *)
(* JavaScript, so one call is one atomic step.  The methods' early returns *)
(* and exceptions that change nothing are disjuncts that leave everything  *)
(* unchanged.                                                              *)
(***************************************************************************)

CONSTANTS Sockets,   \* WebSocket connections
          Rooms,     \* room ids
          Peers,     \* peer ids that randomUUID() may hand out
          None       \* null / undefined

\* None is not a value of any of the maps, and the two marks that
\* RoomDirectory uses for a peer outside every room are not room ids.
ASSUME RegistryAssumption ==
    /\ None \notin Sockets \cup Rooms \cup Peers
    /\ {"new", "gone"} \cap Rooms = {}

VARIABLES rooms,         \* keys of RoomStore.rooms
          members,       \* room id -> keys of RoomRecord.peers
          sessions,      \* keys of RoomService.sessions
          roomOf,        \* PeerSession.roomId, kept by the object after it leaves the map
          socketOf,      \* PeerSession.socket; None before the session is constructed
          socketToPeer   \* the WeakMap socketToPeer; entries are never deleted

regVars == <<rooms, members, sessions, roomOf, socketOf, socketToPeer>>

RegistryTypeOK ==
    /\ rooms \subseteq Rooms
    /\ members \in [Rooms -> SUBSET Peers]
    /\ sessions \subseteq Peers
    /\ roomOf \in [Peers -> Rooms \cup {None}]
    /\ socketOf \in [Peers -> Sockets \cup {None}]
    /\ socketToPeer \in [Sockets -> Peers \cup {None}]

RegistryInit ==
    /\ rooms = {}
    /\ members = [r \in Rooms |-> {}]
    /\ sessions = {}
    /\ roomOf = [p \in Peers |-> None]
    /\ socketOf = [p \in Peers |-> None]
    /\ socketToPeer = [s \in Sockets |-> None]

-----------------------------------------------------------------------------
\* RoomService.createRoom: RoomStore.create throws on an id that exists.
CreateRoom(r) ==
    /\ r \notin rooms
    /\ rooms' = rooms \cup {r}
    /\ UNCHANGED <<members, sessions, roomOf, socketOf, socketToPeer>>

\* RoomService.joinRoom: getOrCreate the room, then enter the fresh peer in
\* the three maps.  Nothing asks whether the socket already has a session.
JoinRoom(r, s, p) ==
    /\ socketOf[p] = None
    /\ rooms' = rooms \cup {r}
    /\ roomOf' = [roomOf EXCEPT ![p] = r]
    /\ members' = [members EXCEPT ![r] = @ \cup {p}]
    /\ sessions' = sessions \cup {p}
    /\ socketOf' = [socketOf EXCEPT ![p] = s]
    /\ socketToPeer' = [socketToPeer EXCEPT ![s] = p]

\* The guard of leavePeer: the session is in the map and still has a room.
Registered(p) == p \in sessions /\ roomOf[p] # None

\* Mutant: the session stays in the sessions map.
RemovePeerKeepSession(p) ==
    LET r == roomOf[p]
        left == members[r] \ {p}
    IN /\ Registered(p)
       /\ members' = [members EXCEPT ![r] = left]
       /\ rooms' = IF left = {} THEN rooms \ {r} ELSE rooms
       /\ UNCHANGED <<sessions, roomOf, socketOf, socketToPeer>>

\* Mutant: the room is deleted without looking at room.peers.size.
RemovePeerAndRoom(p) ==
    LET r == roomOf[p]
    IN /\ Registered(p)
       /\ members' = [members EXCEPT ![r] = @ \ {p}]
       /\ rooms' = rooms \ {r}
       /\ sessions' = sessions \ {p}
       /\ roomOf' = [roomOf EXCEPT ![p] = None]
       /\ UNCHANGED <<socketOf, socketToPeer>>

\* Mutant: the emptied room is never deleted.
RemovePeerKeepRoom(p) ==
    LET r == roomOf[p]
    IN /\ Registered(p)
       /\ members' = [members EXCEPT ![r] = @ \ {p}]
       /\ sessions' = sessions \ {p}
       /\ roomOf' = [roomOf EXCEPT ![p] = None]
       /\ UNCHANGED <<rooms, socketOf, socketToPeer>>

\* RoomService.leavePeer past its guard.
RemovePeer(p) ==
    LET r == roomOf[p]
        left == members[r] \ {p}
    IN /\ Registered(p)
       /\ members' = IF r \in rooms THEN [members EXCEPT ![r] = left] ELSE members
       /\ rooms' = IF r \in rooms /\ left = {} THEN rooms \ {r} ELSE rooms
       /\ sessions' = sessions \ {p}
       /\ roomOf' = [roomOf EXCEPT ![p] = None]
       /\ UNCHANGED <<socketOf, socketToPeer>>

LeavePeer(p) == \/ RemovePeer(p)
                \/ ~Registered(p) /\ UNCHANGED regVars

\* RoomService.leaveBySocket
LeaveBySocket(s) == \/ socketToPeer[s] # None /\ LeavePeer(socketToPeer[s])
                    \/ socketToPeer[s] = None /\ UNCHANGED regVars

\* RoomService.closeAll: both maps are emptied, the session objects keep
\* their roomId and socketToPeer keeps its entries.
CloseAll ==
    /\ sessions' = {}
    /\ rooms' = {}
    /\ members' = [r \in Rooms |-> {}]
    /\ UNCHANGED <<roomOf, socketOf, socketToPeer>>

RegistryNext ==
    \/ \E r \in Rooms : CreateRoom(r)
    \/ \E r \in Rooms, s \in Sockets, p \in Peers : JoinRoom(r, s, p)
    \/ \E p \in Peers : LeavePeer(p)
    \/ \E s \in Sockets : LeaveBySocket(s)
    \/ CloseAll

RegistrySpec == RegistryInit /\ [][RegistryNext]_regVars

-----------------------------------------------------------------------------
\* The sessions map, the room records and the roomId fields tell one story:
\* a peer is in a room's record exactly when its session is registered and
\* points at that room (getPeersInRoom, broadcast and peerCount read one
\* structure, leavePeer and the dispatcher the others).
MembershipAgrees ==
    \A p \in Peers, r \in Rooms :
        p \in members[r] <=> p \in sessions /\ roomOf[p] = r

\* A room record with peers is in the store: no peer is in a deleted room.
OccupiedRoomsListed == \A r \in Rooms : members[r] # {} => r \in rooms

\* A registered session has a socket to send on, a room to leave, and the
\* peer id a socket maps to is a session that was opened on that socket: a
\* disconnect never removes somebody else's peer.
SessionsWellFormed ==
    /\ \A p \in sessions : socketOf[p] # None /\ roomOf[p] # None
    /\ \A s \in Sockets : socketToPeer[s] # None => socketOf[socketToPeer[s]] = s
    /\ \A p \in Peers : socketOf[p] = None => roomOf[p] = None

RegistryInv == RegistryTypeOK /\ MembershipAgrees /\ OccupiedRoomsListed /\ SessionsWellFormed

\* A peer that was removed never appears in a room again, and a peer never
\* moves from one room to another (randomUUID is fresh on every join).
PeersNeverReturn ==
    [][\A p \in Peers : socketOf[p] # None =>
          \A r \in Rooms : p \in members'[r] => p \in members[r]]_regVars

\* The abstract directory, seen through the registry's structures.
Directory == INSTANCE RoomDirectory WITH
    listed <- rooms,
    where <- [p \in Peers |-> IF socketOf[p] = None THEN "new"
                              ELSE IF p \in sessions THEN roomOf[p] ELSE "gone"]

\* The registry implements the directory: whatever order the calls come in,
\* rooms are listed exactly while they are fresh or occupied.
DirectorySpec == Directory!Spec
=============================================================================
