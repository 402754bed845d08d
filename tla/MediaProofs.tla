----------------------------- MODULE MediaProofs -----------------------------
(***************************************************************************)
(* The media of peers in rooms, for any number of sockets, rooms, peers and *)
(* workers and any order of the workers' answers.                          *)
(*                                                                         *)
(* closeMedia and the workers close what depends on a closed object, by its *)
(* id.  That nobody else's media goes with it holds because every id was   *)
(* handed out once: a claim says for which request, of which peer in which *)
(* room, and the claims of the objects in the sessions and of the requests *)
(* under way agree.  That alone is not enough, since an answer may come when *)
(* its peer has left: what a request waits for is there as long as its peer *)
(* stays, and a client knows only of producers that were in the session of *)
(* their owner.                                                            *)
(*                                                                         *)
(* A step is taken apart into what it adds (Growth) and what it takes away *)
(* (HeldLost, OpenLost), and the parts of the invariant follow from those. *)
(***************************************************************************)
EXTENDS SignalingProofs

\* A claim says that an id was handed out for a request of a peer in a room.
Claim(n, p, r) == [id |-> n, peer |-> p, room |-> r]

MediaClaims(m) == {Claim(n, m.owner, m.router.room) : n \in {m.id, m.transport} \ {0}}

\* The room a request is about.
AskedRoom(q) == IF q.step = "router" THEN q.room
                ELSE IF q.step = "transport" THEN q.router.room ELSE q.on.router.room

RequestClaims(q) ==
    IF q.step = "leave" THEN {}
    ELSE {Claim(q.id, q.peer, AskedRoom(q))}
         \cup (IF q.step \in {"produce", "consume"} THEN MediaClaims(q.on) ELSE {})
         \cup (IF q.step = "consume" THEN MediaClaims(q.of) ELSE {})

\* What is under way: the continuations and the requests in the inboxes.
Inboxes == UNION {Range(inbox[w]) : w \in Workers}
Underway == Range(micro) \cup Inboxes

HeldClaims == UNION {MediaClaims(m) : m \in held}
AskedClaims == UNION {RequestClaims(q) : q \in Underway}
Claims == HeldClaims \cup AskedClaims

\* An id is claimed once: it stands for one request, of one peer, in one room,
\* and that peer is still in that room or gone for good.
ClaimsSound ==
    \A c \in Claims : /\ c.peer \in Peers /\ c.id \in 1 .. asked
                      /\ socketOf[c.peer] # None
                      /\ roomOf[c.peer] \in {c.room, None}
ClaimsUnique == \A c, d \in Claims : c.id = d.id => c = d

\* What an object depends on.
MediaShape(m) ==
    /\ m.id # 0
    /\ m.kind = "transport" => m.transport = 0
    /\ m.kind # "consumer" => m.source = 0

\* A request for a producer or a consumer names a transport of its own peer,
\* and a consumer's producer is on that transport's router.
RequestShape(q) ==
    /\ q.step \in {"produce", "consume"} =>
          q.on.owner = q.peer /\ q.on.kind = "transport" /\ MediaShape(q.on)
    /\ q.step = "consume" => q.of.router = q.on.router /\ q.of.kind = "producer" /\ MediaShape(q.of)

\* The producer of a consumer is of the consumer's room.
SourceInRoom(m) ==
    /\ m.source \in 0 .. asked
    /\ \A d \in Claims : d.id = m.source => d.room = m.router.room

Shapes == (\A m \in held : MediaShape(m)) /\ (\A q \in Underway : RequestShape(q))
SourcesInRoom == \A m \in held : SourceInRoom(m)

\* A transport that a member waits for is asked of an open router, and a
\* producer of a member that stays is asked for on a transport it still has.
RoutersWaitedFor == \A q \in Underway : q.step = "transport" /\ q.peer \in sessions => q.router \in routers
TransportsWaitedFor ==
    \A q \in Underway : q.step = "produce" /\ q.peer \in sessions /\ ~Leaving(q.peer) => q.on \in held

\* A producer that a client knows of is in its owner's session, as long as
\* that one stays.
KnownHeld ==
    \A s \in Sockets : \A m \in known[s] :
        /\ m.kind = "producer" /\ socketOf[m.owner] # None
        /\ m.owner \in sessions /\ ~Leaving(m.owner) => m \in held

\* A session with a room is registered: the server never empties the maps.
InRoomRegistered == \A p \in Peers : roomOf[p] # None => p \in sessions

MediaInv ==
    /\ ClaimsSound /\ ClaimsUnique /\ Shapes /\ SourcesInRoom
    /\ RoutersWaitedFor /\ TransportsWaitedFor /\ KnownHeld /\ InRoomRegistered
    /\ open \subseteq held /\ MemberMediaAlive

-----------------------------------------------------------------------------
\* A claim is one of an object in a session or of a request under way.
LEMMA ClaimMade ==
    ASSUME NEW c
    PROVE  c \in Claims <=> \/ \E m \in held : c \in MediaClaims(m)
                            \/ \E q \in Underway : c \in RequestClaims(q)
  <1>1. c \in HeldClaims <=> \E m \in held : c \in MediaClaims(m)
    BY DEF HeldClaims
  <1>2. c \in AskedClaims <=> \E q \in Underway : c \in RequestClaims(q)
    BY DEF AskedClaims
  <1> QED  BY <1>1, <1>2 DEF Claims

\* An object in a session claims its own id and that of its transport.
LEMMA ClaimOfMedia ==
    ASSUME NEW m \in held
    PROVE  /\ m.id # 0 => Claim(m.id, m.owner, m.router.room) \in Claims
           /\ m.transport # 0 => Claim(m.transport, m.owner, m.router.room) \in Claims
           /\ MediaClaims(m) \subseteq Claims
  <1>1. MediaClaims(m) \subseteq Claims
    BY ClaimMade
  <1>2. m.id # 0 => Claim(m.id, m.owner, m.router.room) \in MediaClaims(m)
    BY DEF MediaClaims
  <1>3. m.transport # 0 => Claim(m.transport, m.owner, m.router.room) \in MediaClaims(m)
    BY DEF MediaClaims
  <1> QED  BY <1>1, <1>2, <1>3

\* A request under way claims its own id and those of the objects it names.
LEMMA ClaimOfRequest ==
    ASSUME NEW q \in Underway
    PROVE  RequestClaims(q) \subseteq Claims
  BY ClaimMade

\* Fewer objects and requests, or ones whose claims were there, make no claim.
LEMMA NoNewClaims ==
    ASSUME \A m \in held' : m \in held \/ MediaClaims(m) \subseteq Claims,
           \A q \in Underway' : q \in Underway \/ RequestClaims(q) \subseteq Claims
    PROVE  Claims' \subseteq Claims
  <1> SUFFICES ASSUME NEW c \in Claims' PROVE c \in Claims
    OBVIOUS
  <1>1. (\E m \in held' : c \in MediaClaims(m)) \/ (\E q \in Underway' : c \in RequestClaims(q))
    <2>1. c \in HeldClaims' => \E m \in held' : c \in MediaClaims(m)
      BY DEF HeldClaims
    <2>2. c \in AskedClaims' => \E q \in Underway' : c \in RequestClaims(q)
      BY DEF AskedClaims
    <2> QED  BY <2>1, <2>2 DEF Claims
  <1> QED  BY <1>1, ClaimMade

\* Requests that repeat claims, except for x, add no claim but x.
LEMMA OneNewClaim ==
    ASSUME held' = held, NEW x,
           \A q \in Underway' : q \in Underway \/ RequestClaims(q) \subseteq Claims \cup {x}
    PROVE  Claims' \subseteq Claims \cup {x}
  <1> SUFFICES ASSUME NEW c \in Claims', c # x PROVE c \in Claims
    OBVIOUS
  <1>1. (\E m \in held' : c \in MediaClaims(m)) \/ (\E q \in Underway' : c \in RequestClaims(q))
    <2>1. c \in HeldClaims' => \E m \in held' : c \in MediaClaims(m)
      BY DEF HeldClaims
    <2>2. c \in AskedClaims' => \E q \in Underway' : c \in RequestClaims(q)
      BY DEF AskedClaims
    <2> QED  BY <2>1, <2>2 DEF Claims
  <1> QED  BY <1>1, ClaimMade

\* A worker's inbox holds requests, all of them under way.
LEMMA InboxTyped ==
    ASSUME LoopTypeOK, NEW w \in Workers
    PROVE  /\ inbox[w] \in Seq(Request) /\ Range(inbox[w]) \subseteq Request
           /\ Range(inbox[w]) \subseteq Inboxes
  <1>1. inbox[w] \in Seq(Request)
    BY DEF LoopTypeOK
  <1>2. Range(inbox[w]) \in SUBSET Request
    BY <1>1, RangeOfSeq
  <1> QED  BY <1>1, <1>2 DEF Inboxes

\* Changing one inbox brings in only what is new there.
LEMMA InboxChanged ==
    ASSUME LoopTypeOK, NEW w \in Workers, NEW sq, NEW X,
           inbox' = [inbox EXCEPT ![w] = sq], Range(sq) \subseteq Range(inbox[w]) \cup X
    PROVE  Inboxes' \subseteq Inboxes \cup X
  <1>1. \A v \in Workers : inbox'[v] = IF v = w THEN sq ELSE inbox[v]
    BY DEF LoopTypeOK
  <1>2. ASSUME NEW x \in Inboxes' PROVE x \in Inboxes \cup X
    <2>1. PICK v \in Workers : x \in Range(inbox'[v])
      BY <1>2 DEF Inboxes
    <2>2. x \in Range(inbox[v]) \cup X
      BY <1>1, <2>1
    <2> QED  BY <2>2 DEF Inboxes
  <1> QED  BY <1>2

\* A request that is sent to a worker is under way from then on.
LEMMA RequestAppended ==
    ASSUME LoopTypeOK, NEW w \in Workers, NEW req \in Request,
           inbox' = [inbox EXCEPT ![w] = Append(@, req)]
    PROVE  Inboxes' \subseteq Inboxes \cup {req}
  <1>1. inbox[w] \in Seq(Request)
    BY InboxTyped
  <1>2. Range(Append(inbox[w], req)) = Range(inbox[w]) \cup {req}
    BY <1>1, RangeOfAppend
  <1>3. inbox' = [inbox EXCEPT ![w] = Append(inbox[w], req)]
    OBVIOUS
  <1> QED  BY <1>2, <1>3, InboxChanged

\* The head of an inbox is under way; what replaces the inbox is its tail,
\* followed by ns.
LEMMA HeadAnswered ==
    ASSUME LoopTypeOK, NEW w \in Workers, inbox[w] # <<>>, NEW ns \in Seq(Request),
           inbox' = [inbox EXCEPT ![w] = Tail(@) \o ns]
    PROVE  Head(inbox[w]) \in Inboxes /\ Inboxes' \subseteq Inboxes \cup Range(ns)
  <1>1. inbox[w] \in Seq(Request) /\ Range(inbox[w]) \subseteq Inboxes
    BY InboxTyped
  <1>2. Range(inbox[w]) = {Head(inbox[w])} \cup Range(Tail(inbox[w]))
    BY <1>1, RangeOfTail
  <1>3. Tail(inbox[w]) \in Seq(Request)
    BY <1>1, HeadTailProperties
  <1>4. Range(Tail(inbox[w]) \o ns) = Range(Tail(inbox[w])) \cup Range(ns)
    BY <1>3, RangeConcatenation
  <1>5. inbox' = [inbox EXCEPT ![w] = Tail(inbox[w]) \o ns]
    OBVIOUS
  <1>6. Range(Tail(inbox[w]) \o ns) \subseteq Range(inbox[w]) \cup Range(ns)
    BY <1>2, <1>4
  <1>7. Inboxes' \subseteq Inboxes \cup Range(ns)
    BY <1>5, <1>6, InboxChanged
  <1> QED  BY <1>1, <1>2, <1>7

\* A request that is answered was under way, and nothing new is.
LEMMA HeadDropped ==
    ASSUME LoopTypeOK, NEW w \in Workers, inbox[w] # <<>>, inbox' = [inbox EXCEPT ![w] = Tail(@)]
    PROVE  Head(inbox[w]) \in Inboxes /\ Inboxes' \subseteq Inboxes
  <1>1. inbox[w] \in Seq(Request) /\ Range(inbox[w]) \subseteq Inboxes
    BY InboxTyped
  <1>2. Range(inbox[w]) = {Head(inbox[w])} \cup Range(Tail(inbox[w]))
    BY <1>1, RangeOfTail
  <1>3. inbox' = [inbox EXCEPT ![w] = Tail(inbox[w])]
    OBVIOUS
  <1>4. Range(Tail(inbox[w])) \subseteq Range(inbox[w]) \cup {}
    BY <1>2
  <1>5. Inboxes' \subseteq Inboxes \cup {}
    BY <1>3, <1>4, InboxChanged
  <1> QED  BY <1>1, <1>2, <1>5

-----------------------------------------------------------------------------
(* What the registry does to peers that have connected. *)

\* Every step is a join, a removal or leaves the sessions alone.
LEMMA SessionsStep ==
    ASSUME ServerInv, [Next]_vars
    PROVE  \/ UNCHANGED <<sessions, roomOf, socketOf>>
           \/ \E r \in Rooms, s \in Sockets, p \in Peers : JoinRoom(r, s, p)
           \/ \E p \in Peers : LeavePeer(p)
  <1>1. CASE RunMicro
    <2> DEFINE c == Head(micro)
    <2>1. c \in LeaveStep \cup TransportStep
      BY <1>1, HeadTailProperties DEF RunMicro, ServerInv, LoopTypeOK
    <2>2. CASE c.step = "leave" /\ LeaveTail(c.peer, c.room)
      BY <2>1, <2>2 DEF LeaveStep, TransportStep, LeaveTail
    <2>3. CASE TransportTail(c)
      BY <2>3 DEF TransportTail, regVars
    <2> QED  BY <1>1, <2>2, <2>3 DEF RunMicro
  <1>2. ASSUME NEW s \in Sockets, CloseEvent(s)
        PROVE  UNCHANGED <<sessions, roomOf, socketOf>> \/ \E p \in Peers : LeavePeer(p)
    <2>1. socketToPeer[s] \in Peers \cup {None}
      BY DEF ServerInv, RegistryInv, RegistryTypeOK
    <2> QED  BY <1>2, <2>1 DEF CloseEvent, LeaveBySocket, regVars
  <1>3. ASSUME NEW s \in Sockets, NEW r \in Rooms, NEW p \in Peers, Join(s, r, p) PROVE JoinRoom(r, s, p)
    BY <1>3 DEF Join
  <1>4. ASSUME ~RunMicro, ~ \E s \in Sockets : CloseEvent(s),
               ~ \E s \in Sockets, r \in Rooms, p \in Peers : Join(s, r, p)
        PROVE  UNCHANGED <<sessions, roomOf, socketOf>>
    BY <1>4 DEF Next, vars, regVars, Leave, ClientClose, GetRouterRtpCapabilities,
       CreateWebRtcTransport, AskRouter, Produce, Consume, Reply, RouterCreated, TransportCreated,
       Produced, Consumed, Answer, PostRoom, CreateRoom
  <1> QED  BY <1>1, <1>2, <1>3, <1>4

\* A peer keeps its socket, leaves its room at most, and does not come back to one.
LEMMA PeersStay ==
    ASSUME ServerInv, [Next]_vars, NEW p \in Peers, socketOf[p] # None
    PROVE  /\ socketOf'[p] = socketOf[p]
           /\ roomOf'[p] \in {roomOf[p], None}
           /\ p \in sessions' => p \in sessions
  <1>1. CASE UNCHANGED <<sessions, roomOf, socketOf>>
    BY <1>1
  <1>2. ASSUME NEW r \in Rooms, NEW s \in Sockets, NEW q \in Peers, JoinRoom(r, s, q)
        PROVE  socketOf'[p] = socketOf[p] /\ roomOf'[p] = roomOf[p] /\ (p \in sessions' => p \in sessions)
    BY <1>2 DEF JoinRoom, ServerInv, RegistryInv, RegistryTypeOK
  <1>3. ASSUME NEW q \in Peers, LeavePeer(q)
        PROVE  socketOf'[p] = socketOf[p] /\ roomOf'[p] \in {roomOf[p], None} /\ (p \in sessions' => p \in sessions)
    BY <1>3, PeerRemoved DEF ServerInv
  <1> QED  BY <1>1, <1>2, <1>3, SessionsStep

\* Every step keeps peers in rooms registered.
LEMMA RegisteredStays ==
    ASSUME ServerInv, InRoomRegistered, [Next]_vars
    PROVE  InRoomRegistered'
  <1>1. CASE UNCHANGED <<sessions, roomOf, socketOf>>
    BY <1>1 DEF InRoomRegistered
  <1>2. ASSUME NEW r \in Rooms, NEW s \in Sockets, NEW q \in Peers, JoinRoom(r, s, q)
        PROVE  InRoomRegistered'
    BY <1>2 DEF JoinRoom, ServerInv, RegistryInv, RegistryTypeOK, InRoomRegistered
  <1>3. ASSUME NEW q \in Peers, LeavePeer(q)
        PROVE  InRoomRegistered'
    BY <1>3, RegistryAssumption DEF LeavePeer, RemovePeer, regVars, ServerInv, RegistryInv,
       RegistryTypeOK, InRoomRegistered
  <1> QED  BY <1>1, <1>2, <1>3, SessionsStep

-----------------------------------------------------------------------------
(* What a step may take away. *)

\* What is appended to the queue comes on top of what was in it.
LEMMA QueueGrows ==
    ASSUME NEW S, micro \in Seq(S), NEW cs \in Seq(S), micro' = micro \o cs
    PROVE  Range(micro') = Range(micro) \cup Range(cs)
  BY RangeConcatenation

\* Only the event loop takes continuations out of the queue.
LEMMA MicroKept ==
    ASSUME ServerInv, [Next]_vars, ~RunMicro
    PROVE  Range(micro) \subseteq Range(micro')
  <1>1. \/ micro' = micro \/ micro' = micro \o <<>> \/ \E c : micro' = micro \o <<c>>
    BY DEF Next, Join, Leave, ClientClose, CloseEvent, GetRouterRtpCapabilities, CreateWebRtcTransport,
       AskRouter, Produce, Consume, Reply, RouterCreated, TransportCreated, Produced, Consumed,
       Answer, PostRoom, Delivered, vars, loopVars
  <1>2. micro \in Seq(LeaveStep \cup TransportStep)
    BY DEF ServerInv, LoopTypeOK
  <1>3. CASE micro' = micro \o <<>>
    <2>1. <<>> \in Seq(LeaveStep \cup TransportStep)
      BY EmptySeq
    <2> QED  BY <1>2, <1>3, <2>1, QueueGrows
  <1>4. ASSUME NEW c, micro' = micro \o <<c>> PROVE Range(micro) \subseteq Range(micro')
    <2> DEFINE S == LeaveStep \cup TransportStep \cup {c}
    <2>1. micro \in Seq(S)
      BY <1>2, SeqMonotonic
    <2>2. <<c>> \in Seq(S)
      OBVIOUS
    <2> HIDE DEF S
    <2> QED  BY <1>4, <2>1, <2>2, QueueGrows
  <1> QED  BY <1>1, <1>3, <1>4

\* A peer that is leaving is leaving until it is gone.
LEMMA LeavingStays ==
    ASSUME ServerInv, [Next]_vars, NEW p \in Peers, Leaving(p), p \in sessions'
    PROVE  Leaving(p)'
  <1>1. CASE ~RunMicro
    BY <1>1, MicroKept DEF Leaving, Leaves
  <1>2. CASE RunMicro
    <2> DEFINE c == Head(micro)
    <2>1. micro # <<>> /\ micro' = Tail(micro)
      BY <1>2 DEF RunMicro
    <2>2. Range(micro) = {c} \cup Range(micro')
      BY <2>1, RangeOfTail DEF ServerInv, LoopTypeOK
    <2>3. PICK d \in Leaves : d.peer = p
      BY DEF Leaving
    <2>4. d # c
      <3> SUFFICES ASSUME d = c PROVE FALSE
        OBVIOUS
      <3>1. c.step = "leave" /\ c.peer = p
        BY <2>3 DEF Leaves
      <3>2. LeavePeer(p)
        BY <1>2, <3>1 DEF RunMicro, LeaveTail
      <3> QED  BY <3>2, PeerRemoved DEF ServerInv
    <2> HIDE DEF c
    <2> QED  BY <2>2, <2>3, <2>4 DEF Leaves, Leaving
  <1> QED  BY <1>1, <1>2

\* Nothing leaves a session's maps but in a leave and in a close handler.
LEMMA HeldKept ==
    ASSUME [Next]_vars, ~ \E s \in Sockets : Leave(s) \/ CloseEvent(s)
    PROVE  held \subseteq held'
  BY DEF Next, vars, mediaVars, Join, ClientClose, GetRouterRtpCapabilities, CreateWebRtcTransport,
     AskRouter, Produce, Consume, RunMicro, LeaveTail, TransportTail, CloseMediaAndRouter,
     Reply, RouterCreated, TransportCreated, Produced, Consumed, Hold, PostRoom

\* Nothing closes but in a leave, its tail and a close handler.
LEMMA OpenKept ==
    ASSUME [Next]_vars, ~RunMicro, ~ \E s \in Sockets : Leave(s) \/ CloseEvent(s)
    PROVE  open \subseteq open'
  BY DEF Next, vars, mediaVars, Join, ClientClose, GetRouterRtpCapabilities, CreateWebRtcTransport,
     AskRouter, Produce, Consume, Reply, RouterCreated, TransportCreated, Produced, Consumed, Hold, PostRoom

\* The session that a leave or a close handler is about.
LEMMA LeaveBegun ==
    ASSUME ServerInv, NEW s \in Sockets, Leave(s)
    PROVE  /\ socketToPeer[s] \in Peers /\ CloseMedia(socketToPeer[s])
           /\ Leaving(socketToPeer[s])' /\ UNCHANGED regVars
           /\ Underway' \subseteq Underway \cup {[step |-> "leave", peer |-> socketToPeer[s], room |-> roomOf[socketToPeer[s]]]}
  <1> DEFINE p == socketToPeer[s]
             c == [step |-> "leave", peer |-> p, room |-> roomOf[p]]
  <1>1. /\ CanDeliver(s) /\ HasSession(s) /\ Delivered(s, <<c>>) /\ UNCHANGED <<regVars, inbox>>
        /\ CloseMedia(p)
    BY DEF Leave
  <1>2. p \in Peers /\ roomOf[p] \in Rooms
    BY <1>1, SessionFound DEF ServerInv
  <1>3. <<c>> \in Seq(LeaveStep \cup TransportStep)
    BY <1>2 DEF LeaveStep
  <1>4. c.step = "leave" /\ c.peer = p
    OBVIOUS
  <1>5. Range(<<c>>) = {c}
    BY DEF Range
  <1>6. p' = p
    BY <1>1 DEF regVars
  <1> HIDE DEF c
  <1>7. Range(micro') = Range(micro) \cup {c}
    BY <1>1, <1>3, <1>5, DeliveredRange DEF ServerInv
  <1>8. c \in Leaves'
    BY <1>4, <1>7 DEF Leaves
  <1>9. Leaving(p)'
    BY <1>4, <1>6, <1>8 DEF Leaving
  <1>10. Inboxes' = Inboxes
    BY <1>1 DEF Inboxes
  <1>11. Underway' \subseteq Underway \cup {c}
    BY <1>7, <1>10 DEF Underway
  <1> QED  BY <1>1, <1>2, <1>9, <1>11 DEF c

\* A member that stays loses nothing from its session.
LEMMA HeldLost ==
    ASSUME ServerInv, [Next]_vars, NEW m \in held, m \notin held'
    PROVE  m.owner \notin sessions' \/ Leaving(m.owner)'
  <1>1. ASSUME NEW s \in Sockets, Leave(s) PROVE Leaving(m.owner)'
    <2>1. CloseMedia(socketToPeer[s]) /\ Leaving(socketToPeer[s])' /\ UNCHANGED regVars
      BY <1>1, LeaveBegun
    <2>2. m.owner = socketToPeer[s] /\ socketToPeer' = socketToPeer
      BY <2>1 DEF CloseMedia, HeldBy, regVars
    <2> QED  BY <2>1, <2>2
  <1>2. ASSUME NEW s \in Sockets, CloseEvent(s) PROVE m.owner \notin sessions'
    <2>1. HasSession(s) /\ LeavePeer(socketToPeer[s])
      BY <1>2 DEF CloseEvent, mediaVars, LeaveBySocket, HasSession
    <2>2. m.owner = socketToPeer[s]
      BY <1>2 DEF CloseEvent, mediaVars, CloseMedia, CloseMediaAndRouter, HeldBy
    <2>3. socketToPeer[s] \in Peers
      BY <2>1, SessionFound DEF ServerInv
    <2> QED  BY <2>1, <2>2, <2>3, PeerRemoved DEF ServerInv
  <1> QED  BY <1>1, <1>2, HeldKept

\* closeMedia closes nothing of another session, except consumers.
LEMMA ClosedIsOwn ==
    ASSUME ServerInv, MediaInv, NEW p \in Peers, NEW m \in held, m \in ClosedWith(HeldBy(p)),
           m.kind # "consumer"
    PROVE  m.owner = p
  <1>1. PICK x \in held : x.owner = p /\ x.id \in {m.id, m.transport, m.source}
    BY DEF ClosedWith, HeldBy, Ids
  <1>2. x.id # 0 /\ m.source = 0
    BY DEF MediaInv, Shapes, MediaShape
  <1>3. Claim(x.id, x.owner, x.router.room) \in Claims
    BY <1>2, ClaimOfMedia
  <1>4. Claim(x.id, m.owner, m.router.room) \in Claims
    BY <1>1, <1>2, ClaimOfMedia
  <1>5. Claim(x.id, x.owner, x.router.room) = Claim(x.id, m.owner, m.router.room)
    BY <1>3, <1>4 DEF MediaInv, ClaimsUnique, Claim
  <1> QED  BY <1>1, <1>5 DEF Claim

\* A router that closes is of an empty room, where m's owner is not.
LEMMA ClosedRouterIsOthers ==
    ASSUME ServerInv, ServerInv', MediaInv, [Next]_vars, NEW r \in Rooms, NEW m \in held,
           m.router = routerOf[r], members'[r] = {}
    PROVE  m.owner \notin sessions'
  <1>1. m \in Media /\ m.router \in Router /\ m.owner \in Peers
    BY DEF ServerInv, MediaTypeOK, Media
  <1>2. m.router.room = r
    BY <1>1, RouterAssumption DEF ServerInv, CachedRouterLive
  <1>3. Claim(m.id, m.owner, r) \in Claims
    BY <1>2, ClaimOfMedia DEF MediaInv, Shapes, MediaShape
  <1>4. socketOf[m.owner] # None /\ roomOf[m.owner] \in {r, None}
    BY <1>3 DEF MediaInv, ClaimsSound, Claim
  <1>5. roomOf'[m.owner] \in {r, None}
    BY <1>1, <1>4, PeersStay
  <1>6. m.owner \in sessions' => roomOf'[m.owner] # None
    BY DEF ServerInv, RegistryInv, SessionsWellFormed
  <1>7. m.owner \in sessions' => m.owner \in members'[r]
    BY <1>1, <1>5, <1>6 DEF ServerInv, RegistryInv, MembershipAgrees
  <1> QED  BY <1>7

\* What a member still holds, and is no consumer, stays open.
LEMMA OpenLost ==
    ASSUME ServerInv, ServerInv', MediaInv, [Next]_vars,
           NEW m \in open, m \notin open', m \in held', m.kind # "consumer"
    PROVE  m.owner \notin sessions'
  <1>0. m \in held
    BY DEF MediaInv
  <1>1. ASSUME NEW s \in Sockets, Leave(s) PROVE FALSE
    <2>1. CloseMedia(socketToPeer[s]) /\ socketToPeer[s] \in Peers
      BY <1>1, LeaveBegun
    <2>2. m \in ClosedWith(HeldBy(socketToPeer[s]))
      BY <2>1 DEF CloseMedia
    <2>3. m.owner = socketToPeer[s]
      BY <1>0, <2>1, <2>2, ClosedIsOwn
    <2> QED  BY <1>0, <2>1, <2>3 DEF CloseMedia, HeldBy
  <1>2. ASSUME NEW s \in Sockets, CloseEvent(s) PROVE m.owner \notin sessions'
    <2> DEFINE p == socketToPeer[s]
    <2>1. HasSession(s)
      BY <1>2 DEF CloseEvent, mediaVars
    <2>2. p \in Peers /\ roomOf[p] \in Rooms
      BY <2>1, SessionFound DEF ServerInv
    <2>3. \/ CloseMedia(p)
          \/ CloseMediaAndRouter(HeldBy(p), roomOf[p]) /\ members'[roomOf[p]] = {}
      BY <1>2, <2>1 DEF CloseEvent
    <2>4. m \notin HeldBy(p)
      BY <2>3 DEF CloseMedia, CloseMediaAndRouter
    <2>5. m \notin ClosedWith(HeldBy(p))
      BY <1>0, <2>2, <2>4, ClosedIsOwn DEF HeldBy
    <2>6. members'[roomOf[p]] = {} /\ m.router = routerOf[roomOf[p]]
      BY <2>3, <2>5 DEF CloseMedia, CloseMediaAndRouter
    <2> QED  BY <1>0, <2>2, <2>6, ClosedRouterIsOthers
  <1>3. ASSUME RunMicro PROVE m.owner \notin sessions'
    <2> DEFINE c == Head(micro)
    <2>1. c \in LeaveStep \cup TransportStep
      BY <1>3, HeadTailProperties DEF RunMicro, ServerInv, LoopTypeOK
    <2>2. c.step = "leave" /\ LeaveTail(c.peer, c.room)
      BY <1>3 DEF RunMicro, TransportTail, mediaVars
    <2>3. c.room \in Rooms
      BY <2>1, <2>2 DEF LeaveStep, TransportStep
    <2>4. CloseMediaAndRouter({}, c.room) /\ members'[c.room] = {}
      BY <2>2 DEF LeaveTail, mediaVars
    <2>5. m.router = routerOf[c.room]
      BY <2>4 DEF CloseMediaAndRouter, ClosedWith, Ids
    <2> HIDE DEF c
    <2> QED  BY <1>0, <2>3, <2>4, <2>5, ClosedRouterIsOthers
  <1> QED  BY <1>1, <1>2, <1>3, OpenKept

-----------------------------------------------------------------------------
(* What a step may add. *)

SoundRequest(q) ==
    /\ RequestShape(q)
    /\ q.step = "transport" => q.router \in routers
    /\ q.step = "produce" => q.on \in held
SoundMedia(m) == MediaShape(m) /\ (m.kind # "consumer" /\ m.owner \in sessions => m \in open)

\* New requests and objects are sound, and either they repeat claims that were
\* made or they make one claim with the next id, for a registered peer.
Growth ==
    /\ \A q \in Underway' : q \in Underway \/ SoundRequest(q)'
    /\ \A m \in held' : m \in held \/ (SoundMedia(m)' /\ SourceInRoom(m))
    /\ \/ asked' = asked /\ Claims' \subseteq Claims
       \/ /\ asked' = asked + 1 /\ Unmoved
          /\ \E p \in sessions : Claims' \subseteq Claims \cup {Claim(asked + 1, p, roomOf[p])}

\* A leave names no media.
LEMMA LeaveClaimsNothing ==
    ASSUME NEW q, q.step = "leave"
    PROVE  RequestClaims(q) = {} /\ RequestShape(q)
  BY DEF RequestClaims, RequestShape

\* A step without new requests, other than leaves, and without new objects.
LEMMA QuietGrowth ==
    ASSUME held' \subseteq held, asked' = asked, \A q \in Underway' : q \in Underway \/ q.step = "leave"
    PROVE  Growth
  <1>1. \A q \in Underway' : q \in Underway \/ SoundRequest(q)'
    BY LeaveClaimsNothing DEF SoundRequest
  <1>2. Claims' \subseteq Claims
    BY NoNewClaims, LeaveClaimsNothing
  <1> QED  BY <1>1, <1>2 DEF Growth

\* A request, for itself and for the objects it names.
LEMMA AskGrowth ==
    ASSUME ServerInv, MediaInv, Unmoved, asked' = asked + 1,
           NEW q, Underway' \subseteq Underway \cup {q}, q.peer \in sessions, q.id = asked + 1,
           AskedRoom(q) = roomOf[q.peer], SoundRequest(q),
           q.step \in {"produce", "consume"} => q.on \in held,
           q.step = "consume" => q.of \in held
    PROVE  Growth
  <1>1. UNCHANGED <<routers, held>>
    BY DEF Unmoved, mediaVars
  <1>2. \A x \in Underway' : x \in Underway \/ SoundRequest(x)'
    BY <1>1 DEF SoundRequest
  <1> DEFINE new == Claim(asked + 1, q.peer, roomOf[q.peer])
  <1>3. RequestClaims(q) \subseteq Claims \cup {new}
    BY ClaimOfMedia DEF RequestClaims
  <1> HIDE DEF new
  <1>4. Claims' \subseteq Claims \cup {new}
    BY <1>1, <1>3, OneNewClaim
  <1> QED  BY <1>1, <1>2, <1>4 DEF Growth, new

\* An answer that puts an object into a session, for claims that were made.
LEMMA HoldGrowth ==
    ASSUME NEW m, held' = held \cup {m}, asked' = asked, Underway' \subseteq Underway,
           MediaClaims(m) \subseteq Claims, SoundMedia(m)', SourceInRoom(m)
    PROVE  Growth
  <1>1. Claims' \subseteq Claims
    BY NoNewClaims
  <1> QED  BY <1>1 DEF Growth

-----------------------------------------------------------------------------
\* Joins, leaves, disconnects and POST /rooms ask for no media.
LEMMA QuietSteps ==
    ASSUME ServerInv, MediaInv,
           \/ \E s \in Sockets : ClientClose(s) \/ CloseEvent(s) \/ Leave(s)
           \/ \E s \in Sockets, r \in Rooms, p \in Peers : Join(s, r, p)
           \/ \E r \in Rooms : PostRoom(r)
           \/ UNCHANGED vars
    PROVE  Growth
  <1>1. ASSUME NEW s \in Sockets, Leave(s) PROVE Growth
    <2>1. held' \subseteq held /\ asked' = asked
      BY <1>1 DEF Leave, CloseMedia
    <2>2. \A q \in Underway' : q \in Underway \/ q.step = "leave"
      BY <1>1, LeaveBegun
    <2> QED  BY <2>1, <2>2, QuietGrowth
  <1>2. ASSUME NEW s \in Sockets, NEW r \in Rooms, NEW p \in Peers, Join(s, r, p) PROVE Growth
    <2>1. CanDeliver(s) /\ Delivered(s, <<>>) /\ UNCHANGED <<inbox, held, asked>>
      BY <1>2 DEF Join, mediaVars
    <2>2. Range(micro') = Range(micro) \cup Range(<<>>)
      BY <2>1, DeliveredRange, EmptySeq DEF ServerInv
    <2>3. Underway' = Underway
      BY <2>1, <2>2, RangeOfEmpty DEF Underway, Inboxes
    <2> QED  BY <2>1, <2>3, QuietGrowth
  <1>3. ASSUME \/ \E s \in Sockets : ClientClose(s) \/ CloseEvent(s)
               \/ \E r \in Rooms : PostRoom(r)
               \/ UNCHANGED vars
        PROVE  Growth
    <2>1. UNCHANGED <<micro, inbox, asked>> /\ held' \subseteq held
      BY <1>3 DEF ClientClose, CloseEvent, CloseMedia, CloseMediaAndRouter, PostRoom, vars, loopVars, mediaVars
    <2>2. Underway' = Underway
      BY <2>1 DEF Underway, Inboxes
    <2> QED  BY <2>1, <2>2, QuietGrowth
  <1> QED  BY <1>1, <1>2, <1>3

\* A continuation sends on what was under way already.
LEMMA MicroGrowth ==
    ASSUME ServerInv, MediaInv, RunMicro
    PROVE  Growth
  <1> DEFINE c == Head(micro)
  <1>1. micro # <<>> /\ micro' = Tail(micro) /\ asked' = asked
    BY DEF RunMicro
  <1>2. Range(micro) = {c} \cup Range(micro')
    BY <1>1, RangeOfTail DEF ServerInv, LoopTypeOK
  <1>3. held' \subseteq held
    BY DEF RunMicro, LeaveTail, TransportTail, CloseMediaAndRouter, mediaVars
  <1>4. c \in LeaveStep \cup TransportStep
    BY HeadTailProperties DEF RunMicro, ServerInv, LoopTypeOK
  <1>5. Inboxes' \subseteq Inboxes \cup {c}
    <2>1. CASE inbox' = inbox
      BY <2>1 DEF Inboxes
    <2>2. CASE c.step = "transport" /\ inbox' = [inbox EXCEPT ![c.router.worker] = Append(@, c)]
      <3>1. c \in TransportStep
        BY <1>4, <2>2 DEF LeaveStep, TransportStep
      <3>2. c \in Request /\ c.router.worker \in Workers
        BY <3>1 DEF Request, TransportStep, Router
      <3> HIDE DEF c
      <3> QED  BY <3>2, <2>2, RequestAppended DEF ServerInv
    <2> QED  BY <2>1, <2>2 DEF RunMicro, LeaveTail, TransportTail
  <1>6. Underway' \subseteq Underway
    BY <1>2, <1>5 DEF Underway
  <1> QED  BY <1>1, <1>3, <1>6, QuietGrowth

\* A request goes from the event loop into a worker's inbox.
LEMMA SentToInbox ==
    ASSUME ServerInv, NEW s \in Sockets, NEW w \in Workers, NEW req \in Request,
           CanDeliver(s), Delivered(s, <<>>), inbox' = [inbox EXCEPT ![w] = Append(@, req)]
    PROVE  Underway' \subseteq Underway \cup {req}
  <1>1. Range(micro') = Range(micro) \cup Range(<<>>)
    BY DeliveredRange, EmptySeq DEF ServerInv
  <1>2. Inboxes' \subseteq Inboxes \cup {req}
    BY RequestAppended DEF ServerInv
  <1> QED  BY <1>1, <1>2, RangeOfEmpty DEF Underway

\* A request that has to wait for a router first.
LEMMA RouterAskGrowth ==
    ASSUME ServerInv, MediaInv, NEW s \in Sockets, NEW type \in {"caps", "transport"}, AskRouter(s, type)
    PROVE  Growth
  <1> DEFINE p == socketToPeer[s]
             q == [step |-> "router", peer |-> p, room |-> roomOf[p], id |-> asked + 1, then |-> type]
  <1>1. HasSession(s) /\ CanDeliver(s) /\ AskNextWorker(q) /\ asked' = asked + 1 /\ Delivered(s, <<>>) /\ Unmoved
    BY DEF AskRouter, CanAsk, Unmoved
  <1>2. p \in Peers /\ roomOf[p] \in Rooms /\ p \in sessions
    BY <1>1, SessionFound DEF ServerInv
  <1>3. asked + 1 \in Nat /\ nextWorker \in Workers
    BY DEF ServerInv, LoopTypeOK
  <1>4. q \in Request
    BY <1>2, <1>3 DEF Request, RouterRequest
  <1>5. q.step = "router" /\ q.peer = p /\ q.room = roomOf[p] /\ q.id = asked + 1
    OBVIOUS
  <1> HIDE DEF q
  <1>6. Underway' \subseteq Underway \cup {q}
    BY <1>1, <1>3, <1>4, SentToInbox DEF AskNextWorker
  <1>7. AskedRoom(q) = roomOf[q.peer] /\ SoundRequest(q)
    BY <1>5 DEF AskedRoom, SoundRequest, RequestShape
  <1> QED  BY <1>1, <1>2, <1>5, <1>6, <1>7, AskGrowth

\* webrtc.createTransport, with the room's router or without one.
LEMMA TransportAskGrowth ==
    ASSUME ServerInv, MediaInv, NEW s \in Sockets, CreateWebRtcTransport(s)
    PROVE  Growth
  <1> DEFINE p == socketToPeer[s]
             c == [step |-> "transport", peer |-> p, router |-> routerOf[roomOf[p]], id |-> asked + 1]
  <1>1. CASE AskRouter(s, "transport")
    BY <1>1, RouterAskGrowth
  <1>2. CASE /\ CanAsk(s, "transport") /\ routerOf[roomOf[p]] # None
             /\ Delivered(s, <<c>>) /\ asked' = asked + 1
             /\ UNCHANGED <<regVars, conn, inbox, nextWorker, mediaVars, clientVars>>
    <2>1. p \in Peers /\ roomOf[p] \in Rooms /\ p \in sessions /\ CanDeliver(s) /\ Unmoved
      BY <1>2, SessionFound DEF CanAsk, ServerInv, Unmoved
    <2>2. asked + 1 \in Nat
      BY DEF ServerInv, LoopTypeOK
    <2>3. routerOf[roomOf[p]] \in routers /\ routerOf[roomOf[p]].room = roomOf[p]
      BY <1>2, <2>1 DEF ServerInv, CachedRouterLive
    <2>4. routerOf[roomOf[p]] \in Router
      BY <2>3 DEF ServerInv, MediaTypeOK
    <2>5. <<c>> \in Seq(LeaveStep \cup TransportStep)
      BY <2>1, <2>2, <2>4 DEF TransportStep
    <2>6. Range(<<c>>) = {c}
      BY DEF Range
    <2>7. c.step = "transport" /\ c.peer = p /\ c.router = routerOf[roomOf[p]] /\ c.id = asked + 1
      OBVIOUS
    <2> HIDE DEF c
    <2>8. Range(micro') = Range(micro) \cup {c}
      BY <1>2, <2>1, <2>5, <2>6, DeliveredRange DEF ServerInv
    <2>9. Underway' \subseteq Underway \cup {c}
      BY <1>2, <2>8 DEF Underway, Inboxes
    <2>10. AskedRoom(c) = roomOf[c.peer] /\ SoundRequest(c)
      BY <2>3, <2>7 DEF AskedRoom, SoundRequest, RequestShape
    <2> QED  BY <1>2, <2>1, <2>7, <2>9, <2>10, AskGrowth
  <1> QED  BY <1>1, <1>2 DEF CreateWebRtcTransport

\* What a session holds on a router is on a router of its room.
LEMMA HeldInRoom ==
    ASSUME ServerInv, MediaInv, NEW m \in held, m.owner \in sessions
    PROVE  m.router.room = roomOf[m.owner]
  <1>1. Claim(m.id, m.owner, m.router.room) \in Claims
    BY ClaimOfMedia DEF MediaInv, Shapes, MediaShape
  <1>2. roomOf[m.owner] \in {m.router.room, None}
    BY <1>1 DEF MediaInv, ClaimsSound, Claim
  <1> QED  BY <1>2 DEF ServerInv, RegistryInv, SessionsWellFormed

\* media.produce, on a transport of the client's own session.
LEMMA ProduceGrowth ==
    ASSUME ServerInv, MediaInv, NEW s \in Sockets, NEW t \in held, Produce(s, t)
    PROVE  Growth
  <1> DEFINE p == socketToPeer[s]
             q == [step |-> "produce", peer |-> p, on |-> t, id |-> asked + 1]
  <1>1. /\ HasSession(s) /\ CanDeliver(s) /\ inbox' = [inbox EXCEPT ![t.router.worker] = Append(@, q)]
        /\ asked' = asked + 1 /\ Delivered(s, <<>>) /\ Unmoved /\ t.owner = p /\ t.kind = "transport"
    BY DEF Produce, CanAsk, Unmoved, HeldBy
  <1>2. p \in Peers /\ p \in sessions /\ asked + 1 \in Nat
    BY <1>1, SessionFound DEF ServerInv, LoopTypeOK
  <1>3. t \in Media /\ t.router.worker \in Workers
    BY DEF ServerInv, MediaTypeOK, Media, Router
  <1>4. q \in Request
    BY <1>2, <1>3 DEF Request, ProduceRequest
  <1>5. q.step = "produce" /\ q.peer = p /\ q.on = t /\ q.id = asked + 1
    OBVIOUS
  <1> HIDE DEF q
  <1>6. Underway' \subseteq Underway \cup {q}
    BY <1>1, <1>3, <1>4, SentToInbox
  <1>7. AskedRoom(q) = roomOf[q.peer]
    BY <1>1, <1>2, <1>5, HeldInRoom DEF AskedRoom
  <1>8. SoundRequest(q)
    BY <1>1, <1>5 DEF SoundRequest, RequestShape, MediaInv, Shapes
  <1> QED  BY <1>1, <1>2, <1>5, <1>6, <1>7, <1>8, AskGrowth

\* media.consume, of a producer of the same room, on the same router.
LEMMA ConsumeGrowth ==
    ASSUME ServerInv, MediaInv, NEW s \in Sockets, NEW t \in held, NEW m \in open, Consume(s, t, m)
    PROVE  Growth
  <1> DEFINE p == socketToPeer[s]
             q == [step |-> "consume", peer |-> p, on |-> t, of |-> m, id |-> asked + 1]
  <1>1. /\ HasSession(s) /\ CanDeliver(s) /\ inbox' = [inbox EXCEPT ![t.router.worker] = Append(@, q)]
        /\ asked' = asked + 1 /\ Delivered(s, <<>>) /\ Unmoved /\ t.owner = p /\ t.kind = "transport"
        /\ m.router = t.router /\ m.kind = "producer"
    BY DEF Consume, CanAsk, CanConsume, Unmoved, HeldBy
  <1>2. p \in Peers /\ p \in sessions /\ asked + 1 \in Nat
    BY <1>1, SessionFound DEF ServerInv, LoopTypeOK
  <1>3. t \in Media /\ m \in Media /\ t.router.worker \in Workers
    BY DEF ServerInv, MediaTypeOK, Media, Router
  <1>4. q \in Request
    BY <1>2, <1>3 DEF Request, ConsumeRequest
  <1>5. q.step = "consume" /\ q.peer = p /\ q.on = t /\ q.of = m /\ q.id = asked + 1
    OBVIOUS
  <1> HIDE DEF q
  <1>6. Underway' \subseteq Underway \cup {q}
    BY <1>1, <1>3, <1>4, SentToInbox
  <1>7. AskedRoom(q) = roomOf[q.peer]
    BY <1>1, <1>2, <1>5, HeldInRoom DEF AskedRoom
  <1>8. m \in held
    BY DEF MediaInv
  <1>9. SoundRequest(q)
    BY <1>1, <1>5, <1>8 DEF SoundRequest, RequestShape, MediaInv, Shapes
  <1> QED  BY <1>1, <1>2, <1>5, <1>6, <1>7, <1>8, <1>9, AskGrowth

-----------------------------------------------------------------------------
(* Answers of the workers. *)

\* While workers answer, no continuation waits and nobody is leaving.
LEMMA AnswerMicro ==
    ASSUME NEW w \in Workers, NEW step, Answer(w, step)
    PROVE  /\ Range(micro') = {} /\ Range(micro) = {} /\ asked' = asked
           /\ \A p : ~Leaving(p)
           /\ sessions' = sessions
           /\ inbox[w] # <<>>
  BY RangeOfEmpty DEF Answer, Leaving, Leaves, regVars

\* What an answered request has claimed.
LEMMA AnsweredClaim ==
    ASSUME MediaInv, NEW q \in Underway, q.step # "leave"
    PROVE  Claim(q.id, q.peer, AskedRoom(q)) \in Claims /\ q.id # 0
  <1>1. Claim(q.id, q.peer, AskedRoom(q)) \in RequestClaims(q)
    BY DEF RequestClaims
  <1>2. Claim(q.id, q.peer, AskedRoom(q)) \in Claims
    BY <1>1, ClaimOfRequest
  <1>3. q.id \in 1 .. asked
    BY <1>2 DEF MediaInv, ClaimsSound, Claim
  <1> QED  BY <1>2, <1>3

\* What is no consumer has no source that could be of another room.
LEMMA NoSource ==
    ASSUME ServerInv, MediaInv, NEW m, m.source = 0
    PROVE  SourceInRoom(m)
  <1>1. asked \in Nat
    BY DEF ServerInv, LoopTypeOK
  <1>2. \A d \in Claims : d.id # 0
    BY <1>1 DEF MediaInv, ClaimsSound
  <1> QED  BY <1>1, <1>2 DEF SourceInRoom

\* A worker has made a router: the transport request that waited goes on.
LEMMA RouterCreatedGrowth ==
    ASSUME ServerInv, MediaInv, NEW w \in Workers, RouterCreated(w)
    PROVE  Growth
  <1> DEFINE q == Head(inbox[w])
             k == [id |-> q.id, room |-> q.room, worker |-> w]
             c == [step |-> "transport", peer |-> q.peer, router |-> k, id |-> q.id]
             next == IF q.then = "transport" THEN <<c>> ELSE <<>>
  <1>1. /\ Answer(w, "router") /\ inbox' = [inbox EXCEPT ![w] = Tail(@) \o next]
        /\ routers' = routers \cup {k} /\ held' = held
    BY DEF RouterCreated
  <1>2. q \in Request /\ q.step = "router"
    BY <1>1, AnswerTypes DEF Answer
  <1>3. q \in RouterRequest
    BY <1>2, RequestKinds
  <1>4. k \in Router /\ k.room = q.room
    BY <1>3 DEF RouterRequest, Router
  <1>5. c \in Request
    <2> HIDE DEF k
    <2> QED  BY <1>3, <1>4 DEF Request, TransportStep, RouterRequest
  <1>6. c.step = "transport" /\ c.peer = q.peer /\ c.id = q.id /\ c.router = k
    OBVIOUS
  <1>7. Range(<<c>>) = {c}
    BY DEF Range
  <1> HIDE DEF c, k
  <1>8. next \in Seq(Request) /\ Range(next) \subseteq {c}
    BY <1>5, <1>7, EmptySeq, RangeOfEmpty
  <1> HIDE DEF next
  <1>9. q \in Inboxes /\ Inboxes' \subseteq Inboxes \cup Range(next)
    BY <1>1, <1>8, HeadAnswered, AnswerMicro DEF ServerInv
  <1>10. Underway' \subseteq Underway \cup {c}
    BY <1>1, <1>8, <1>9, AnswerMicro DEF Underway
  <1>11. q \in Underway
    BY <1>9 DEF Underway
  <1> HIDE DEF q
  <1>12. RequestClaims(c) = {Claim(q.id, q.peer, AskedRoom(q))}
    BY <1>2, <1>4, <1>6 DEF RequestClaims, AskedRoom
  <1>13. RequestClaims(c) \subseteq Claims
    BY <1>2, <1>11, <1>12, AnsweredClaim
  <1>14. Claims' \subseteq Claims
    BY <1>1, <1>10, <1>13, NoNewClaims
  <1>15. ASSUME NEW x \in Underway' PROVE x \in Underway \/ SoundRequest(x)'
    <2>1. CASE x = c
      BY <1>1, <1>6, <2>1 DEF SoundRequest, RequestShape
    <2> QED  BY <2>1, <1>10
  <1>16. asked' = asked
    BY <1>1, AnswerMicro
  <1> QED  BY <1>1, <1>14, <1>15, <1>16 DEF Growth

\* A worker has made a transport.
LEMMA TransportCreatedGrowth ==
    ASSUME ServerInv, MediaInv, NEW w \in Workers, TransportCreated(w)
    PROVE  Growth
  <1> DEFINE q == Head(inbox[w])
             m == [kind |-> "transport", id |-> q.id, owner |-> q.peer, router |-> q.router,
                   transport |-> 0, source |-> 0]
  <1>1. /\ Answer(w, "transport") /\ Hold(m, q.router \in routers)
        /\ inbox' = [inbox EXCEPT ![w] = Tail(@)]
    BY DEF TransportCreated
  <1>2. q.step = "transport"
    BY <1>1 DEF Answer
  <1>3. /\ m.kind = "transport" /\ m.id = q.id /\ m.owner = q.peer /\ m.router = q.router
        /\ m.transport = 0 /\ m.source = 0
    OBVIOUS
  <1> HIDE DEF m
  <1>4. q \in Inboxes /\ Inboxes' \subseteq Inboxes
    BY <1>1, HeadDropped, AnswerMicro DEF ServerInv
  <1>5. q \in Underway /\ Underway' \subseteq Underway
    BY <1>1, <1>4, AnswerMicro DEF Underway
  <1> HIDE DEF q
  <1>6. q.id # 0 /\ Claim(q.id, q.peer, AskedRoom(q)) \in Claims
    BY <1>2, <1>5, AnsweredClaim
  <1>7. MediaClaims(m) \subseteq Claims
    BY <1>2, <1>3, <1>6 DEF MediaClaims, AskedRoom
  <1>8. \A x : x = m => SoundMedia(x)'
    <2>1. MediaShape(m)
      BY <1>3, <1>6 DEF MediaShape
    <2>2. m.owner \in sessions' => q.router \in routers
      BY <1>1, <1>2, <1>3, <1>5, AnswerMicro DEF MediaInv, RoutersWaitedFor
    <2>3. m.owner \in sessions' => m \in open'
      BY <1>1, <2>2 DEF Hold
    <2> QED  BY <2>1, <2>3 DEF SoundMedia, MediaShape
  <1>9. SourceInRoom(m)
    BY <1>3, NoSource
  <1>10. asked' = asked /\ held' = held \cup {m}
    BY <1>1, AnswerMicro DEF Hold
  <1> QED  BY <1>5, <1>7, <1>8, <1>9, <1>10, HoldGrowth

\* A worker has made a producer.
LEMMA ProducedGrowth ==
    ASSUME ServerInv, MediaInv, NEW w \in Workers, Produced(w)
    PROVE  Growth
  <1> DEFINE q == Head(inbox[w])
             m == [kind |-> "producer", id |-> q.id, owner |-> q.peer, router |-> q.on.router,
                   transport |-> q.on.id, source |-> 0]
  <1>1. /\ Answer(w, "produce") /\ Hold(m, q.on \in open)
        /\ inbox' = [inbox EXCEPT ![w] = Tail(@)]
    BY DEF Produced
  <1>2. q.step = "produce"
    BY <1>1 DEF Answer
  <1>3. /\ m.kind = "producer" /\ m.id = q.id /\ m.owner = q.peer /\ m.router = q.on.router
        /\ m.transport = q.on.id /\ m.source = 0
    OBVIOUS
  <1> HIDE DEF m
  <1>4. q \in Inboxes /\ Inboxes' \subseteq Inboxes
    BY <1>1, HeadDropped, AnswerMicro DEF ServerInv
  <1>5. q \in Underway /\ Underway' \subseteq Underway
    BY <1>1, <1>4, AnswerMicro DEF Underway
  <1> HIDE DEF q
  <1>6. q.id # 0 /\ Claim(q.id, q.peer, AskedRoom(q)) \in Claims
    BY <1>2, <1>5, AnsweredClaim
  <1>7. q.on.owner = q.peer /\ q.on.kind = "transport" /\ q.on.id # 0
    BY <1>2, <1>5 DEF MediaInv, Shapes, RequestShape, MediaShape
  <1>8. MediaClaims(q.on) \subseteq RequestClaims(q)
    BY <1>2 DEF RequestClaims
  <1>9. Claim(q.on.id, q.peer, q.on.router.room) \in MediaClaims(q.on)
    BY <1>7 DEF MediaClaims
  <1>10. Claim(q.on.id, q.peer, q.on.router.room) \in Claims
    BY <1>5, <1>8, <1>9, ClaimOfRequest
  <1>11. MediaClaims(m) \subseteq Claims
    BY <1>2, <1>3, <1>6, <1>10 DEF MediaClaims, AskedRoom
  <1>12. \A x : x = m => SoundMedia(x)'
    <2>1. MediaShape(m)
      BY <1>3, <1>6 DEF MediaShape
    <2>2. m.owner \in sessions' => q.on \in held
      BY <1>1, <1>2, <1>3, <1>5, AnswerMicro DEF MediaInv, TransportsWaitedFor
    <2>3. m.owner \in sessions' => q.on \in open
      BY <1>1, <1>3, <1>7, <2>2, AnswerMicro DEF MediaInv, MemberMediaAlive
    <2>4. m.owner \in sessions' => m \in open'
      BY <1>1, <2>3 DEF Hold
    <2> QED  BY <2>1, <2>4 DEF SoundMedia, MediaShape
  <1>13. SourceInRoom(m)
    BY <1>3, NoSource
  <1>14. asked' = asked /\ held' = held \cup {m}
    BY <1>1, AnswerMicro DEF Hold
  <1> QED  BY <1>5, <1>11, <1>12, <1>13, <1>14, HoldGrowth

\* A worker has made a consumer.
LEMMA ConsumedGrowth ==
    ASSUME ServerInv, MediaInv, NEW w \in Workers, Consumed(w)
    PROVE  Growth
  <1> DEFINE q == Head(inbox[w])
             m == [kind |-> "consumer", id |-> q.id, owner |-> q.peer, router |-> q.on.router,
                   transport |-> q.on.id, source |-> q.of.id]
  <1>1. /\ Answer(w, "consume") /\ Hold(m, {q.on, q.of} \subseteq open)
        /\ inbox' = [inbox EXCEPT ![w] = Tail(@)]
    BY DEF Consumed
  <1>2. q.step = "consume"
    BY <1>1 DEF Answer
  <1>3. /\ m.kind = "consumer" /\ m.id = q.id /\ m.owner = q.peer /\ m.router = q.on.router
        /\ m.transport = q.on.id /\ m.source = q.of.id
    OBVIOUS
  <1> HIDE DEF m
  <1>4. q \in Inboxes /\ Inboxes' \subseteq Inboxes
    BY <1>1, HeadDropped, AnswerMicro DEF ServerInv
  <1>5. q \in Underway /\ Underway' \subseteq Underway
    BY <1>1, <1>4, AnswerMicro DEF Underway
  <1> HIDE DEF q
  <1>6. q.id # 0 /\ Claim(q.id, q.peer, AskedRoom(q)) \in Claims
    BY <1>2, <1>5, AnsweredClaim
  <1>7. /\ q.on.owner = q.peer /\ q.on.kind = "transport" /\ q.on.id # 0
        /\ q.of.router = q.on.router /\ q.of.id # 0
    BY <1>2, <1>5 DEF MediaInv, Shapes, RequestShape, MediaShape
  <1>8. MediaClaims(q.on) \subseteq RequestClaims(q) /\ MediaClaims(q.of) \subseteq RequestClaims(q)
    BY <1>2 DEF RequestClaims
  <1>9. /\ Claim(q.on.id, q.peer, q.on.router.room) \in MediaClaims(q.on)
        /\ Claim(q.of.id, q.of.owner, q.of.router.room) \in MediaClaims(q.of)
    BY <1>7 DEF MediaClaims
  <1>10. /\ Claim(q.on.id, q.peer, q.on.router.room) \in Claims
         /\ Claim(q.of.id, q.of.owner, q.of.router.room) \in Claims
    BY <1>5, <1>8, <1>9, ClaimOfRequest
  <1>11. MediaClaims(m) \subseteq Claims
    BY <1>2, <1>3, <1>6, <1>10 DEF MediaClaims, AskedRoom
  <1>12. \A x : x = m => SoundMedia(x)'
    BY <1>3, <1>6 DEF SoundMedia, MediaShape
  <1>13. SourceInRoom(m)
    <2>1. q.of.id \in 1 .. asked
      BY <1>10 DEF MediaInv, ClaimsSound, Claim
    <2>2. ASSUME NEW d \in Claims, d.id = q.of.id PROVE d.room = q.on.router.room
      <3>1. d = Claim(q.of.id, q.of.owner, q.of.router.room)
        BY <1>10, <2>2 DEF MediaInv, ClaimsUnique, Claim
      <3> QED  BY <3>1, <1>7 DEF Claim
    <2>3. asked \in Nat
      BY DEF ServerInv, LoopTypeOK
    <2> QED  BY <1>3, <2>1, <2>2, <2>3 DEF SourceInRoom
  <1>14. asked' = asked /\ held' = held \cup {m}
    BY <1>1, AnswerMicro DEF Hold
  <1> QED  BY <1>5, <1>11, <1>12, <1>13, <1>14, HoldGrowth

\* Every step adds only what is sound, and at most one claim.
LEMMA GrowthStep ==
    ASSUME ServerInv, MediaInv, [Next]_vars
    PROVE  Growth
  BY QuietSteps, MicroGrowth, RouterAskGrowth, TransportAskGrowth, ProduceGrowth, ConsumeGrowth,
     RouterCreatedGrowth, TransportCreatedGrowth, ProducedGrowth, ConsumedGrowth
  DEF Next, Reply, GetRouterRtpCapabilities

-----------------------------------------------------------------------------
(* The invariant's parts, from what a step adds and what it takes away. *)

\* Claims stay sound and unique: the next id has not been handed out.
LEMMA ClaimsStep ==
    ASSUME ServerInv, MediaInv, Growth, [Next]_vars
    PROVE  ClaimsSound' /\ ClaimsUnique'
  <1>1. asked \in Nat
    BY DEF ServerInv, LoopTypeOK
  <1>2. ASSUME NEW c \in Claims
        PROVE  /\ c.peer \in Peers /\ c.id \in 1 .. asked
               /\ socketOf'[c.peer] # None /\ roomOf'[c.peer] \in {c.room, None}
    <2>1. c.peer \in Peers /\ c.id \in 1 .. asked /\ socketOf[c.peer] # None /\ roomOf[c.peer] \in {c.room, None}
      BY DEF MediaInv, ClaimsSound
    <2>2. socketOf'[c.peer] = socketOf[c.peer] /\ roomOf'[c.peer] \in {roomOf[c.peer], None}
      BY <2>1, PeersStay
    <2> QED  BY <2>1, <2>2
  <1>3. CASE asked' = asked /\ Claims' \subseteq Claims
    BY <1>2, <1>3 DEF ClaimsSound, ClaimsUnique, MediaInv
  <1>4. ASSUME asked' = asked + 1, Unmoved, NEW p \in sessions,
               Claims' \subseteq Claims \cup {Claim(asked + 1, p, roomOf[p])}
        PROVE  ClaimsSound' /\ ClaimsUnique'
    <2> DEFINE new == Claim(asked + 1, p, roomOf[p])
    <2>1. new.peer = p /\ new.id = asked + 1 /\ new.room = roomOf[p]
      BY DEF Claim
    <2>2. p \in Peers /\ socketOf[p] # None
      BY DEF ServerInv, RegistryInv, RegistryTypeOK, SessionsWellFormed
    <2>3. socketOf' = socketOf /\ roomOf' = roomOf
      BY <1>4 DEF Unmoved, regVars
    <2> HIDE DEF new
    <2>4. Claims' \subseteq Claims \cup {new}
      BY <1>4 DEF new
    <2>5. ClaimsSound'
      <3> SUFFICES ASSUME NEW c \in Claims \cup {new}
                   PROVE  /\ c.peer \in Peers /\ c.id \in 1 .. asked'
                          /\ socketOf'[c.peer] # None /\ roomOf'[c.peer] \in {c.room, None}
        BY <2>4 DEF ClaimsSound
      <3>1. CASE c = new
        BY <3>1, <2>1, <2>2, <2>3, <1>1, <1>4
      <3>2. CASE c \in Claims
        BY <3>2, <1>1, <1>2, <1>4
      <3> QED  BY <3>1, <3>2
    <2>6. ClaimsUnique'
      <3>1. \A c \in Claims : c.id # new.id
        BY <1>1, <1>2, <2>1
      <3> QED  BY <2>4, <3>1 DEF ClaimsUnique, MediaInv
    <2> QED  BY <2>5, <2>6
  <1> QED  BY <1>3, <1>4 DEF Growth

\* Objects and requests keep the shape they were made with.
LEMMA ShapesStep ==
    ASSUME MediaInv, Growth
    PROVE  Shapes'
  <1>1. ASSUME NEW m \in held' PROVE MediaShape(m)
    BY DEF Growth, SoundMedia, MediaShape, MediaInv, Shapes
  <1>2. ASSUME NEW q \in Underway' PROVE RequestShape(q)
    BY DEF Growth, SoundRequest, RequestShape, MediaInv, Shapes
  <1> QED  BY <1>1, <1>2 DEF Shapes, MediaShape, RequestShape

\* A consumer's producer stays one of its room: later ids are not its source.
LEMMA SourcesStep ==
    ASSUME ServerInv, MediaInv, Growth
    PROVE  SourcesInRoom'
  <1>1. asked \in Nat
    BY DEF ServerInv, LoopTypeOK
  <1> SUFFICES ASSUME NEW m \in held'
               PROVE  /\ m.source \in 0 .. asked'
                      /\ \A d \in Claims' : d.id = m.source => d.room = m.router.room
    BY DEF SourcesInRoom, SourceInRoom
  <1>2. SourceInRoom(m)
    BY DEF Growth, MediaInv, SourcesInRoom
  <1>3. CASE asked' = asked /\ Claims' \subseteq Claims
    BY <1>2, <1>3 DEF SourceInRoom
  <1>4. ASSUME asked' = asked + 1, NEW p \in sessions,
               Claims' \subseteq Claims \cup {Claim(asked + 1, p, roomOf[p])}
        PROVE  /\ m.source \in 0 .. asked'
               /\ \A d \in Claims' : d.id = m.source => d.room = m.router.room
    <2>1. m.source \in 0 .. asked /\ m.source # asked + 1
      BY <1>1, <1>2 DEF SourceInRoom
    <2>2. \A d \in Claims' : d \in Claims \/ d.id = asked + 1
      BY <1>4 DEF Claim
    <2> QED  BY <1>1, <1>2, <1>4, <2>1, <2>2 DEF SourceInRoom
  <1> QED  BY <1>3, <1>4 DEF Growth

\* A router that closes is of an empty room.
LEMMA RouterGone ==
    ASSUME ServerInv, [Next]_vars, NEW k \in routers, k \notin routers'
    PROVE  members'[k.room] = {}
  BY LeaveClosesEmptyRoom, DisconnectClosesEmptyRoom, RoutersKept

\* What a request waits for stays, as long as its peer does.
LEMMA WaitingStep ==
    ASSUME ServerInv, ServerInv', MediaInv, Growth, [Next]_vars
    PROVE  RoutersWaitedFor' /\ TransportsWaitedFor'
  <1>1. ASSUME NEW q \in Underway, q.step # "leave"
        PROVE  /\ q.peer \in Peers /\ socketOf[q.peer] # None
               /\ roomOf[q.peer] \in {AskedRoom(q), None}
    <2>1. Claim(q.id, q.peer, AskedRoom(q)) \in Claims
      BY <1>1, AnsweredClaim
    <2> QED  BY <2>1 DEF MediaInv, ClaimsSound, Claim
  <1>2. RoutersWaitedFor'
    <2> SUFFICES ASSUME NEW q \in Underway', q.step = "transport", q.peer \in sessions'
                 PROVE  q.router \in routers'
      BY DEF RoutersWaitedFor
    <2>1. CASE q \notin Underway
      BY <2>1 DEF Growth, SoundRequest
    <2>2. CASE q \in Underway
      <3>1. q.peer \in Peers /\ socketOf[q.peer] # None /\ roomOf[q.peer] \in {q.router.room, None}
        BY <1>1, <2>2 DEF AskedRoom
      <3>2. q.peer \in sessions /\ roomOf'[q.peer] \in {q.router.room, None}
        BY <3>1, PeersStay
      <3>3. q.router \in routers
        BY <2>2, <3>2 DEF MediaInv, RoutersWaitedFor
      <3>4. q.router.room \in Rooms
        BY <3>3 DEF ServerInv, MediaTypeOK, Router
      <3>5. roomOf'[q.peer] = q.router.room
        BY <3>2 DEF ServerInv, RegistryInv, SessionsWellFormed
      <3>6. q.peer \in members'[q.router.room]
        BY <3>1, <3>4, <3>5 DEF ServerInv, RegistryInv, MembershipAgrees
      <3> QED  BY <3>3, <3>6, RouterGone
    <2> QED  BY <2>1, <2>2
  <1>3. TransportsWaitedFor'
    <2> SUFFICES ASSUME NEW q \in Underway', q.step = "produce", q.peer \in sessions',
                        ~ (\E c \in Leaves' : c.peer = q.peer)
                 PROVE  q.on \in held'
      BY DEF TransportsWaitedFor, Leaving
    <2>1. CASE q \notin Underway
      BY <2>1 DEF Growth, SoundRequest
    <2>2. CASE q \in Underway
      <3>1. q.peer \in Peers /\ socketOf[q.peer] # None
        BY <1>1, <2>2
      <3>2. q.peer \in sessions
        BY <3>1, PeersStay
      <3>3. ~Leaving(q.peer)
        BY <3>1, LeavingStays DEF Leaving
      <3>4. q.on \in held /\ q.on.owner = q.peer
        BY <2>2, <3>2, <3>3 DEF MediaInv, TransportsWaitedFor, Shapes, RequestShape
      <3> QED  BY <3>4, HeldLost DEF Leaving
    <2> QED  BY <2>1, <2>2
  <1> QED  BY <1>2, <1>3

\* A client hears of a producer when it enters its owner's session.
LEMMA KnownGrows ==
    ASSUME ServerInv, MediaInv, [Next]_vars, NEW s \in Sockets, NEW m \in known'[s], m \notin known[s]
    PROVE  /\ m.kind = "producer" /\ m \in held' /\ socketOf[m.owner] # None /\ m.owner \in Peers
           /\ \E w \in Workers : Produced(w)
  <1>1. PICK w \in Workers : Produced(w)
    BY DEF Next, vars, clientVars, ServerInv, MediaTypeOK, Join, Leave, ClientClose, CloseEvent,
       RunMicro, LeaveTail, TransportTail, GetRouterRtpCapabilities, CreateWebRtcTransport, AskRouter,
       Produce, Consume, Reply, RouterCreated, TransportCreated, Consumed, PostRoom
  <1> DEFINE q == Head(inbox[w])
             n == [kind |-> "producer", id |-> q.id, owner |-> q.peer, router |-> q.on.router,
                   transport |-> q.on.id, source |-> 0]
             audience == IF roomOf[q.peer] = None THEN {} ELSE Listeners(members[roomOf[q.peer]] \ {q.peer})
  <1>2. /\ Answer(w, "produce") /\ held' = held \cup {n} /\ inbox' = [inbox EXCEPT ![w] = Tail(@)]
        /\ known' = [x \in Sockets |-> IF x \in audience THEN known[x] \cup {n} ELSE known[x]]
    BY <1>1 DEF Produced, Hold
  <1>3. n.kind = "producer" /\ n.owner = q.peer
    OBVIOUS
  <1> HIDE DEF n, audience
  <1>4. m = n
    BY <1>2
  <1>5. q \in Inboxes /\ q.step = "produce"
    BY <1>2, HeadDropped, AnswerMicro DEF ServerInv, Answer
  <1>6. Claim(q.id, q.peer, AskedRoom(q)) \in Claims
    BY <1>5, AnsweredClaim DEF Underway
  <1>7. socketOf[q.peer] # None /\ q.peer \in Peers
    BY <1>6 DEF MediaInv, ClaimsSound, Claim
  <1> QED  BY <1>1, <1>2, <1>3, <1>4, <1>7

\* Producers that clients know of stay in the sessions of their owners.
LEMMA KnownStep ==
    ASSUME ServerInv, MediaInv, [Next]_vars
    PROVE  KnownHeld'
  <1> SUFFICES ASSUME NEW s \in Sockets, NEW m \in known'[s]
               PROVE  /\ m.kind = "producer" /\ socketOf'[m.owner] # None
                      /\ m.owner \in sessions' /\ ~(\E c \in Leaves' : c.peer = m.owner) => m \in held'
    BY DEF KnownHeld, Leaving
  <1>1. CASE m \notin known[s]
    BY <1>1, KnownGrows, PeersStay
  <1>2. CASE m \in known[s]
    <2>1. m.owner \in Peers
      BY <1>2 DEF ServerInv, MediaTypeOK, Media
    <2>2. m.kind = "producer" /\ socketOf[m.owner] # None
          /\ (m.owner \in sessions /\ ~Leaving(m.owner) => m \in held)
      BY <1>2 DEF MediaInv, KnownHeld
    <2>3. socketOf'[m.owner] # None /\ (m.owner \in sessions' => m.owner \in sessions)
      BY <2>1, <2>2, PeersStay
    <2>4. m.owner \in sessions' /\ ~(\E c \in Leaves' : c.peer = m.owner) => m \in held
      BY <2>1, <2>2, <2>3, LeavingStays DEF Leaving
    <2> QED  BY <2>2, <2>3, <2>4, HeldLost DEF Leaving
  <1> QED  BY <1>1, <1>2

\* Every open object is in a session, or goes when the session does.
LEMMA OpenHeldStep ==
    ASSUME MediaInv, [Next]_vars
    PROVE  open' \subseteq held'
  <1>1. open \subseteq held
    BY DEF MediaInv
  <1>2. ASSUME NEW ms PROVE \A m \in open \ ClosedWith(ms) : m \notin ms
    BY DEF ClosedWith, Ids
  <1>3. ASSUME NEW ms, NEW r, CloseMediaAndRouter(ms, r) PROVE open' \subseteq held'
    BY <1>1, <1>2, <1>3 DEF CloseMediaAndRouter
  <1>4. ASSUME NEW p, CloseMedia(p) PROVE open' \subseteq held'
    BY <1>1, <1>2, <1>4 DEF CloseMedia
  <1>5. CASE \E m, alive : Hold(m, alive)
    BY <1>1, <1>5 DEF Hold
  <1>6. CASE UNCHANGED <<open, held>>
    BY <1>1, <1>6
  <1>7. \/ \E ms, r : CloseMediaAndRouter(ms, r)
        \/ \E p : CloseMedia(p)
        \/ \E m, alive : Hold(m, alive)
        \/ UNCHANGED <<open, held>>
    BY DEF Next, vars, mediaVars, Join, Leave, ClientClose, CloseEvent, RunMicro, LeaveTail, TransportTail,
       GetRouterRtpCapabilities, CreateWebRtcTransport, AskRouter, Produce, Consume,
       Reply, RouterCreated, TransportCreated, Produced, Consumed, PostRoom
  <1> QED  BY <1>3, <1>4, <1>5, <1>6, <1>7

\* What a member holds stays open: whatever closes is the leaver's, or of an
\* empty room's router.
LEMMA AliveStep ==
    ASSUME ServerInv, ServerInv', MediaInv, Growth, [Next]_vars
    PROVE  MemberMediaAlive'
  <1> SUFFICES ASSUME NEW m \in held', m.owner \in sessions', m.kind # "consumer"
               PROVE  m \in open'
    BY DEF MemberMediaAlive
  <1>1. CASE m \notin held
    BY <1>1 DEF Growth, SoundMedia
  <1>2. CASE m \in held
    <2>1. Claim(m.id, m.owner, m.router.room) \in Claims
      BY <1>2, ClaimOfMedia DEF MediaInv, Shapes, MediaShape
    <2>2. m.owner \in Peers /\ socketOf[m.owner] # None
      BY <2>1 DEF MediaInv, ClaimsSound, Claim
    <2>3. m.owner \in sessions
      BY <2>2, PeersStay
    <2>4. m \in open
      BY <1>2, <2>3 DEF MediaInv, MemberMediaAlive
    <2> QED  BY <2>4, OpenLost
  <1> QED  BY <1>1, <1>2

\* There is no media at the beginning.
LEMMA MediaInit == Init => MediaInv
  <1> SUFFICES ASSUME Init PROVE MediaInv
    OBVIOUS
  <1>1. held = {} /\ open = {} /\ micro = <<>> /\ \A w \in Workers : inbox[w] = <<>>
    BY DEF Init
  <1>2. Underway = {}
    BY <1>1, RangeOfEmpty DEF Underway, Inboxes
  <1>3. Claims = {}
    <2>1. \A c : c \notin Claims
      BY <1>1, <1>2, ClaimMade
    <2> QED  BY <2>1
  <1>4. ClaimsSound /\ ClaimsUnique
    BY <1>3 DEF ClaimsSound, ClaimsUnique
  <1>5. Shapes /\ SourcesInRoom /\ RoutersWaitedFor /\ TransportsWaitedFor /\ MemberMediaAlive
    BY <1>1, <1>2 DEF Shapes, SourcesInRoom, RoutersWaitedFor, TransportsWaitedFor, MemberMediaAlive
  <1>6. KnownHeld
    BY DEF Init, KnownHeld
  <1>7. InRoomRegistered
    BY DEF Init, RegistryInit, InRoomRegistered
  <1> QED  BY <1>1, <1>4, <1>5, <1>6, <1>7 DEF MediaInv

\* Every step keeps the invariant.
LEMMA MediaStep ==
    ASSUME ServerInv, ServerInv', MediaInv, [Next]_vars
    PROVE  MediaInv'
  <1>1. Growth
    BY GrowthStep
  <1>2. InRoomRegistered'
    BY RegisteredStays DEF MediaInv
  <1> QED  BY <1>1, <1>2, ClaimsStep, ShapesStep, SourcesStep, WaitingStep, KnownStep, OpenHeldStep,
              AliveStep DEF MediaInv

\* The inductive invariant of the media: ids are handed out once, what requests
\* wait for is there while their peers are, and what members hold is open.
THEOREM MediaInvariance == Spec => []MediaInv
<1>1. ServerInv /\ ServerInv' /\ MediaInv /\ [Next]_vars => MediaInv'
  BY MediaStep
<1> QED BY <1>1, MediaInit, ServerInvariance, PTL DEF Spec

\* The transports and producers of a peer in a room are open, whoever else
\* leaves, whatever answer is late and however many routers its room got,
\* with disciplined clients and without.
THEOREM MemberMediaStaysOpen == Spec => []MemberMediaAlive
<1>1. MediaInv => MemberMediaAlive
  BY DEF MediaInv
<1> QED BY <1>1, MediaInvariance, PTL

\* A consumer in a room receives from a producer of the same room only: media
\* never crosses rooms, with disciplined clients and without.
THEOREM RoomsAreIsolated == Spec => []RoomIsolation
<1>1. ServerInv /\ MediaInv => RoomIsolation
  <2> SUFFICES ASSUME ServerInv, MediaInv, NEW c \in open, NEW m \in open, c.source = m.id,
                      c.owner \in sessions, m.owner \in sessions
               PROVE  roomOf[c.owner] = roomOf[m.owner]
    BY DEF RoomIsolation
  <2>1. c \in held /\ m \in held
    BY DEF MediaInv
  <2>2. c.router.room = roomOf[c.owner] /\ m.router.room = roomOf[m.owner]
    BY <2>1, HeldInRoom
  <2>3. Claim(m.id, m.owner, m.router.room) \in Claims
    BY <2>1, ClaimOfMedia DEF MediaInv, Shapes, MediaShape
  <2>4. m.router.room = c.router.room
    BY <2>1, <2>3 DEF MediaInv, SourcesInRoom, SourceInRoom, Claim
  <2> QED  BY <2>2, <2>4
<1> QED BY <1>1, ServerInvariance, MediaInvariance, PTL

\* Between events, every producer that a client was told of, by a peer it still
\* believes in its room, is open on the server and can be consumed.
THEOREM KnownProducersStayOpen ==
    ASSUME Disciplined
    PROVE  Spec => []KnownProducersLive
<1>1. ServerInv /\ RosterInv /\ MediaInv => KnownProducersLive
  <2> SUFFICES ASSUME ServerInv, RosterInv, MediaInv, micro = <<>>, NEW s \in Sockets, conn[s] = "open",
                      NEW m \in known[s], m.owner \in roster[s]
               PROVE  m \in open
    BY DEF KnownProducersLive
  <2>1. HasSession(s) /\ roster[s] = members[roomOf[socketToPeer[s]]]
    BY DEF RosterInv, RosterExact
  <2>2. roomOf[socketToPeer[s]] \in Rooms
    BY <2>1, SessionFound DEF ServerInv
  <2>3. m.owner \in sessions
    BY <2>1, <2>2 DEF ServerInv, RegistryInv, RegistryTypeOK, MembershipAgrees
  <2>4. ~Leaving(m.owner)
    BY RangeOfEmpty DEF Leaving, Leaves
  <2>5. m \in held /\ m.kind = "producer"
    BY <2>3, <2>4 DEF MediaInv, KnownHeld
  <2> QED  BY <2>3, <2>5 DEF MediaInv, MemberMediaAlive
<1> QED BY <1>1, ServerInvariance, RosterInvariance, MediaInvariance, PTL

\* media.newProducer reaches only clients that have its owner in their rosters,
\* and never for a producer that was closed before it was answered for.
THEOREM AnnouncedOnlyByMembers ==
    ASSUME Disciplined
    PROVE  Spec => AnnouncedByMembers
<1>1. ASSUME ServerInv, ServerInv', RosterInv, MediaInv, [Next]_vars,
             NEW s \in Sockets, NEW m \in known'[s], m \notin known[s]
      PROVE  m.owner \in roster[s] /\ m \in open'
  <2>1. m.kind = "producer" /\ m \in held' /\ m.owner \in Peers
    BY <1>1, KnownGrows
  <2>2. PICK w \in Workers : Produced(w)
    BY <1>1, KnownGrows
  <2> DEFINE q == Head(inbox[w])
             n == [kind |-> "producer", id |-> q.id, owner |-> q.peer, router |-> q.on.router,
                   transport |-> q.on.id, source |-> 0]
             r == roomOf[q.peer]
             audience == IF r = None THEN {} ELSE Listeners(members[r] \ {q.peer})
  <2>3. /\ Answer(w, "produce")
        /\ known' = [x \in Sockets |-> IF x \in audience THEN known[x] \cup {n} ELSE known[x]]
    BY <2>2 DEF Produced
  <2>4. n.owner = q.peer
    OBVIOUS
  <2> HIDE DEF n
  <2>5. m = n /\ s \in audience
    BY <1>1, <2>3
  <2>6. m.owner = q.peer /\ r # None /\ s \in Listeners(members[r] \ {q.peer})
    BY <2>4, <2>5
  <2> HIDE DEF q
  <2>7. r \in Rooms /\ q.peer \in sessions
    BY <1>1, <2>1, <2>6 DEF MediaInv, InRoomRegistered, ServerInv, RegistryInv, RegistryTypeOK
  <2>8. q.peer \in members[r]
    BY <1>1, <2>1, <2>6, <2>7 DEF ServerInv, RegistryInv, MembershipAgrees
  <2>9. PICK x \in members[r] : socketOf[x] = s
    BY <2>6 DEF Listeners
  <2>10. conn[s] = "open" /\ roster[s] # {}
    BY <2>6 DEF Listeners
  <2>11. x \in sessions /\ roomOf[x] = r /\ x \in Peers
    BY <1>1, <2>7, <2>9 DEF ServerInv, RegistryInv, RegistryTypeOK, MembershipAgrees
  <2>12. ~Leaving(x)
    BY <2>3, AnswerMicro
  <2>13. socketToPeer[s] = x
    BY <1>1, <2>9, <2>11, <2>12 DEF RosterInv, CurrentOrLeaving
  <2>14. roster[s] = members[r]
    BY <1>1, <2>10, <2>11, <2>13 DEF RosterInv, RosterExact
  <2>15. MemberMediaAlive'
    BY <1>1, AliveStep, GrowthStep
  <2>16. m \in open'
    BY <1>1, <2>1, <2>3, <2>6, <2>7, <2>15, AnswerMicro DEF MemberMediaAlive
  <2> QED  BY <2>6, <2>8, <2>14, <2>16
<1>2. ServerInv /\ ServerInv' /\ RosterInv /\ MediaInv /\ [Next]_vars =>
        [\A s \in Sockets : \A m \in known'[s] \ known[s] : m.owner \in roster[s] /\ m \in open']_vars
  BY <1>1
<1> QED BY <1>2, ServerInvariance, RosterInvariance, MediaInvariance, PTL DEF Spec, AnnouncedByMembers
=============================================================================
