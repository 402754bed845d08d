------------------------- MODULE RoomRegistryProofs -------------------------
(***************************************************************************)
(* Proofs about RoomRegistry for every set of sockets, rooms and peers.    *)
(***************************************************************************)
EXTENDS RoomRegistry, TLAPS

\* The registry starts with its maps in agreement.
LEMMA RegistryInitInv == RegistryInit => RegistryInv
  BY RegistryAssumption DEF RegistryInit, RegistryInv, RegistryTypeOK, MembershipAgrees,
     OccupiedRoomsListed, SessionsWellFormed

\* Creating a room that is not in the store disturbs no map of peers.
LEMMA CreateRoomInv ==
  ASSUME RegistryInv, NEW r \in Rooms, CreateRoom(r)
  PROVE  RegistryInv'
  BY DEF RegistryInv, RegistryTypeOK, MembershipAgrees, OccupiedRoomsListed,
     SessionsWellFormed, CreateRoom

\* joinRoom enters a fresh peer in all the maps at once.
LEMMA JoinRoomInv ==
  ASSUME RegistryInv, NEW r \in Rooms, NEW s \in Sockets, NEW p \in Peers, JoinRoom(r, s, p)
  PROVE  RegistryInv'
<1> USE RegistryAssumption DEF RegistryInv, RegistryTypeOK, JoinRoom
<1>1. RegistryTypeOK'
  OBVIOUS
<1>2. MembershipAgrees'
  BY DEF MembershipAgrees, SessionsWellFormed
<1>3. OccupiedRoomsListed'
  BY DEF OccupiedRoomsListed
<1>4. SessionsWellFormed'
  BY DEF SessionsWellFormed
<1> QED BY <1>1, <1>2, <1>3, <1>4

\* leavePeer takes the peer out of all the maps at once, and the room with
\* its last peer.
LEMMA RemovePeerInv ==
  ASSUME RegistryInv, NEW p \in Peers, RemovePeer(p)
  PROVE  RegistryInv'
<1> USE RegistryAssumption DEF RegistryInv, RegistryTypeOK, RemovePeer, Registered
<1>1. roomOf[p] \in Rooms /\ p \in members[roomOf[p]] /\ roomOf[p] \in rooms
  BY DEF MembershipAgrees, OccupiedRoomsListed
<1>2. RegistryTypeOK'
  OBVIOUS
<1>3. MembershipAgrees'
  BY <1>1 DEF MembershipAgrees
<1>4. OccupiedRoomsListed'
  BY <1>1 DEF OccupiedRoomsListed
<1>5. SessionsWellFormed'
  BY <1>1 DEF SessionsWellFormed
<1> QED BY <1>2, <1>3, <1>4, <1>5

\* closeAll leaves no peer in any map that the others read.
LEMMA CloseAllInv ==
  ASSUME RegistryInv, CloseAll
  PROVE  RegistryInv'
  BY DEF RegistryInv, RegistryTypeOK, MembershipAgrees, OccupiedRoomsListed,
     SessionsWellFormed, CloseAll

\* A step that touches none of the maps keeps the invariant.
LEMMA RegistryStutterInv ==
  ASSUME RegistryInv, UNCHANGED regVars
  PROVE  RegistryInv'
  BY DEF RegistryInv, RegistryTypeOK, MembershipAgrees, OccupiedRoomsListed,
     SessionsWellFormed, regVars

\* Every call is a creation, a join, a removal, a closeAll or changes nothing.
LEMMA RegistryStepCases ==
  ASSUME RegistryInv, [RegistryNext]_regVars
  PROVE  \/ \E r \in Rooms : CreateRoom(r)
         \/ \E r \in Rooms, s \in Sockets, p \in Peers : JoinRoom(r, s, p)
         \/ \E p \in Peers : RemovePeer(p)
         \/ CloseAll
         \/ UNCHANGED regVars
  BY DEF RegistryNext, LeavePeer, LeaveBySocket, RegistryInv, RegistryTypeOK

\* Every step of the registry keeps its invariant.
LEMMA RegistryStepInv ==
  ASSUME RegistryInv, [RegistryNext]_regVars
  PROVE  RegistryInv'
<1>1. CASE \E r \in Rooms : CreateRoom(r)
  BY <1>1, CreateRoomInv
<1>2. CASE \E r \in Rooms, s \in Sockets, p \in Peers : JoinRoom(r, s, p)
  BY <1>2, JoinRoomInv
<1>3. CASE \E p \in Peers : RemovePeer(p)
  BY <1>3, RemovePeerInv
<1>4. CASE CloseAll
  BY <1>4, CloseAllInv
<1>5. CASE UNCHANGED regVars
  BY <1>5, RegistryStutterInv
<1> QED BY <1>1, <1>2, <1>3, <1>4, <1>5, RegistryStepCases

\* The three maps, the roomId fields and the room records always agree,
\* whatever order the calls come in (RoomService as a whole).
THEOREM RegistryInvariance == RegistrySpec => []RegistryInv
<1>1. RegistryInit => RegistryInv
  BY RegistryInitInv
<1>2. RegistryInv /\ [RegistryNext]_regVars => RegistryInv'
  BY RegistryStepInv
<1> QED BY <1>1, <1>2, PTL DEF RegistrySpec

\* The variables of the registry keep their types.
THEOREM RegistryTypes == RegistrySpec => []RegistryTypeOK
<1>1. RegistryInv => RegistryTypeOK
  BY DEF RegistryInv
<1> QED BY <1>1, RegistryInvariance, PTL

\* getPeersInRoom and the peers' own roomId fields never disagree.
THEOREM MembersAgree == RegistrySpec => []MembershipAgrees
<1>1. RegistryInv => MembershipAgrees
  BY DEF RegistryInv
<1> QED BY <1>1, RegistryInvariance, PTL

\* No peer is ever left in a room that leavePeer or closeAll has deleted.
THEOREM OccupiedRoomsStay == RegistrySpec => []OccupiedRoomsListed
<1>1. RegistryInv => OccupiedRoomsListed
  BY DEF RegistryInv
<1> QED BY <1>1, RegistryInvariance, PTL

\* A disconnect only ever finds a peer that was opened on that socket.
THEOREM SessionsStayWellFormed == RegistrySpec => []SessionsWellFormed
<1>1. RegistryInv => SessionsWellFormed
  BY DEF RegistryInv
<1> QED BY <1>1, RegistryInvariance, PTL

\* Joining is the only way into a room and needs a fresh peer id, so a peer
\* that left, or that sits in another room, never enters one.
THEOREM PeersStayOut == RegistrySpec => PeersNeverReturn
<1>1. ASSUME RegistryInv, [RegistryNext]_regVars,
             NEW p \in Peers, socketOf[p] # None, NEW r \in Rooms, p \in members'[r]
      PROVE  p \in members[r]
  <2>1. CASE \E q \in Rooms : CreateRoom(q)
    BY <1>1, <2>1 DEF CreateRoom
  <2>2. CASE \E q \in Rooms, s \in Sockets, o \in Peers : JoinRoom(q, s, o)
    BY <1>1, <2>2 DEF JoinRoom, RegistryInv, RegistryTypeOK
  <2>3. CASE \E o \in Peers : RemovePeer(o)
    BY <1>1, <2>3 DEF RemovePeer, RegistryInv, RegistryTypeOK
  <2>4. CASE CloseAll
    BY <1>1, <2>4 DEF CloseAll
  <2>5. CASE UNCHANGED regVars
    BY <1>1, <2>5 DEF regVars
  <2> QED BY <1>1, <2>1, <2>2, <2>3, <2>4, <2>5, RegistryStepCases
<1>2. RegistryInv /\ [RegistryNext]_regVars =>
        [\A p \in Peers : socketOf[p] # None =>
            \A r \in Rooms : p \in members'[r] => p \in members[r]]_regVars
  BY <1>1
<1> QED BY <1>2, RegistryInvariance, PTL DEF RegistrySpec, PeersNeverReturn

\* The directory's view of a peer.
Where(p) == IF socketOf[p] = None THEN "new" ELSE IF p \in sessions THEN roomOf[p] ELSE "gone"

\* Under the invariant a peer is in the directory's room r exactly when it is
\* in the record of room r.
LEMMA OccupantsAreMembers ==
  ASSUME RegistryInv, NEW r \in Rooms
  PROVE  Directory!Occupants(r) = members[r]
<1>1. ASSUME NEW p \in Peers PROVE Where(p) = r <=> p \in members[r]
  BY RegistryAssumption DEF Where, RegistryInv, MembershipAgrees, SessionsWellFormed, RegistryTypeOK
<1> QED BY <1>1 DEF Directory!Occupants, Where, RegistryInv, RegistryTypeOK

\* A join is an Enter of the directory.
LEMMA JoinRefinesEnter ==
  ASSUME RegistryInv, NEW r \in Rooms, NEW s \in Sockets, NEW p \in Peers, JoinRoom(r, s, p)
  PROVE  Directory!Enter(p, r)
<1> USE RegistryAssumption DEF RegistryInv, RegistryTypeOK, JoinRoom
<1>1. Where(p) = "new"
  BY DEF Where
<1>2. \A o \in Peers : Where(o)' = IF o = p THEN r ELSE Where(o)
  BY DEF Where
<1>3. rooms' = rooms \cup {r}
  OBVIOUS
<1> QED BY <1>1, <1>2, <1>3 DEF Directory!Enter, Where

\* A removal is an Exit of the directory.
LEMMA RemoveRefinesExit ==
  ASSUME RegistryInv, NEW p \in Peers, RemovePeer(p)
  PROVE  Directory!Exit(p)
<1> USE RegistryAssumption DEF RegistryInv, RegistryTypeOK, RemovePeer, Registered
<1> DEFINE r == roomOf[p]
<1>1. r \in Rooms /\ r \in rooms /\ p \in members[r] /\ Where(p) = r
  BY DEF MembershipAgrees, OccupiedRoomsListed, SessionsWellFormed, Where
<1>2. \A o \in Peers : Where(o)' = IF o = p THEN "gone" ELSE Where(o)
  BY DEF SessionsWellFormed, Where
<1>3. Directory!Occupants(r) = members[r]
  BY <1>1, OccupantsAreMembers
<1>4. rooms' = IF members[r] = {p} THEN rooms \ {r} ELSE rooms
  BY <1>1
<1> QED BY <1>1, <1>2, <1>3, <1>4 DEF Directory!Exit, Where

\* closeAll is the directory's Clear.
LEMMA CloseAllRefinesClear ==
  ASSUME RegistryInv, CloseAll
  PROVE  Directory!Clear
<1> USE RegistryAssumption DEF RegistryInv, RegistryTypeOK, CloseAll
<1>1. \A o \in Peers : Where(o)' = IF Where(o) \in Rooms THEN "gone" ELSE Where(o)
  BY DEF SessionsWellFormed, Where
<1> QED BY <1>1 DEF Directory!Clear, Where

\* The registry implements the abstract directory: a room is listed exactly
\* from its creation or first join until its last peer has left, in every
\* order of calls and for every number of rooms, sockets and peers.
THEOREM RegistryImplementsDirectory == RegistrySpec => DirectorySpec
<1>1. RegistryInit => Directory!Init
  BY DEF RegistryInit, Directory!Init
<1>2. ASSUME RegistryInv, [RegistryNext]_regVars
      PROVE  [Directory!Next]_(Directory!dirVars)
  <2>1. CASE \E r \in Rooms : CreateRoom(r)
    BY <2>1 DEF CreateRoom, Directory!Create, Directory!Next
  <2>2. CASE \E r \in Rooms, s \in Sockets, p \in Peers : JoinRoom(r, s, p)
    BY <1>2, <2>2, JoinRefinesEnter DEF Directory!Next
  <2>3. CASE \E p \in Peers : RemovePeer(p)
    BY <1>2, <2>3, RemoveRefinesExit DEF Directory!Next
  <2>4. CASE CloseAll
    BY <1>2, <2>4, CloseAllRefinesClear DEF Directory!Next
  <2>5. CASE UNCHANGED regVars
    BY <2>5 DEF regVars, Directory!dirVars
  <2> QED BY <1>2, <2>1, <2>2, <2>3, <2>4, <2>5, RegistryStepCases
<1>3. RegistryInv /\ [RegistryNext]_regVars => [Directory!Next]_(Directory!dirVars)
  BY <1>2
<1> QED BY <1>1, <1>3, RegistryInvariance, PTL DEF RegistrySpec, DirectorySpec, Directory!Spec
=============================================================================
