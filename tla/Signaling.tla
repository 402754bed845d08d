------------------------------ MODULE Signaling ------------------------------
(***************************************************************************)
(* The signalling server: the WebSocket handlers (server/websocket), the   *)
(* dispatcher (signaling), the SFU service and the router manager (media), *)
(* composed with the room registry, on the event loop of Node.             *)
(*                                                                         *)
(* One step is one run of JavaScript between two awaits.  ws delivers the  *)
(* frames of one TCP chunk back to back, before any microtask: while the   *)
(* chunk of socket "turn" is being delivered, only that socket may send.   *)
(* "micro" is the queue of continuations that the handlers left behind;    *)
(* it drains before the next event.  A request to a mediasoup worker is    *)
(* appended to that worker's inbox, and its answer is a later event.       *)
(***************************************************************************)
EXTENDS RoomRegistry, Sequences, Integers

CONSTANTS NumWorkers,    \* env.mediasoupWorkerCount
          MaxRequests,   \* bound: media requests that clients send in a behaviour
          MaxMicro,      \* bound: continuations one chunk can leave behind
          Requests,      \* the kinds of request, other than join and leave, that clients send
          Disciplined    \* do clients join only when out of a room, and leave only when in one

RequestTypes == {"room", "caps", "transport", "produce", "consume"}

ASSUME SignalingAssumption ==
    /\ NumWorkers \in Nat \ {0}
    /\ MaxRequests \in Nat
    /\ MaxMicro \in Nat \ {0}
    /\ Requests \subseteq RequestTypes
    /\ Disciplined \in BOOLEAN

VARIABLES conn,         \* the state of each socket, as the server sees it
          turn,         \* the socket whose chunk is being delivered, or None
          micro,        \* continuations waiting in the microtask queue
          inbox,        \* worker -> requests it has not answered yet
          nextWorker,   \* WorkerPool.nextWorkerIndex
          routers,      \* the routers that are open in the workers
          routerOf,     \* RouterManager.routers; None for a missing key
          open,         \* transports, producers, consumers open in the workers
          held,         \* those in the three maps of some PeerSession
          roster,       \* who the client believes to be in its room, itself included
          known,        \* producers announced to the client since it joined
          asked         \* media requests sent so far: the source of fresh ids

loopVars == <<conn, turn, micro, inbox, nextWorker, asked>>
mediaVars == <<routers, routerOf, open, held>>
clientVars == <<roster, known>>
vars == <<regVars, loopVars, mediaVars, clientVars>>

Workers == 0 .. NumWorkers - 1

Router == [id : Nat, room : Rooms, worker : Workers]
ASSUME RouterAssumption == None \notin Router

\* transport is the id of the transport a producer or consumer is on, source
\* the id of the producer a consumer reads; 0 where there is none.
Media == [kind : {"transport", "producer", "consumer"}, id : Nat, owner : Peers,
          router : Router, transport : Nat, source : Nat]

LeaveStep == [step : {"leave"}, peer : Peers, room : Rooms]
TransportStep == [step : {"transport"}, peer : Peers, router : Router, id : Nat]
RouterRequest == [step : {"router"}, peer : Peers, room : Rooms, id : Nat, then : {"caps", "transport"}]
ProduceRequest == [step : {"produce"}, peer : Peers, on : Media, id : Nat]
ConsumeRequest == [step : {"consume"}, peer : Peers, on : Media, of : Media, id : Nat]
Request == RouterRequest \cup TransportStep \cup ProduceRequest \cup ConsumeRequest

SignalingTypeOK ==
    /\ RegistryTypeOK
    /\ conn \in [Sockets -> {"open", "closing", "closed"}]
    /\ turn \in Sockets \cup {None}
    /\ micro \in Seq(LeaveStep \cup TransportStep)
    /\ inbox \in [Workers -> Seq(Request)]
    /\ nextWorker \in Workers
    /\ routers \subseteq Router
    /\ routerOf \in [Rooms -> Router \cup {None}]
    /\ open \subseteq Media
    /\ held \subseteq Media
    /\ roster \in [Sockets -> SUBSET Peers]
    /\ known \in [Sockets -> SUBSET Media]
    /\ asked \in Nat

Init ==
    /\ RegistryInit
    /\ conn = [s \in Sockets |-> "open"]
    /\ turn = None
    /\ micro = <<>>
    /\ inbox = [w \in Workers |-> <<>>]
    /\ nextWorker = 0
    /\ routers = {}
    /\ routerOf = [r \in Rooms |-> None]
    /\ open = {}
    /\ held = {}
    /\ roster = [s \in Sockets |-> {}]
    /\ known = [s \in Sockets |-> {}]
    /\ asked = 0

-----------------------------------------------------------------------------
(* Media. *)

Ids(ms) == {m.id : m \in ms}

\* What the maps of a session hold.
HeldBy(p) == {m \in held : m.owner = p}

\* What closes with a set of closed objects: themselves, what is on a closed
\* transport, and the consumers of a closed producer.
ClosedWith(ms) == {m \in open : {m.id, m.transport, m.source} \cap Ids(ms) # {}}

\* PeerSession.closeMedia
CloseMedia(p) == /\ open' = open \ ClosedWith(HeldBy(p))
                 /\ held' = held \ HeldBy(p)

\* Mutant: the closed router stays in the map.
CloseMediaKeepRouterEntry(ms, r) ==
    /\ open' = {m \in open \ ClosedWith(ms) : m.router # routerOf[r]}
    /\ held' = held \ ms
    /\ routers' = routers \ {routerOf[r]}
    /\ UNCHANGED routerOf

\* RouterManager.closeRouter, with closeMedia(p) before it in the same step
\* when ms = HeldBy(p) and nothing before it when ms = {}.
CloseMediaAndRouter(ms, r) ==
    /\ open' = {m \in open \ ClosedWith(ms) : m.router # routerOf[r]}
    /\ held' = held \ ms
    /\ routers' = routers \ {routerOf[r]}
    /\ routerOf' = [routerOf EXCEPT ![r] = None]

-----------------------------------------------------------------------------
(* Messages to clients.  RoomService.broadcast looks up the sessions of the *)
(* members, and PeerSession.send drops what is for a socket that is not     *)
(* open.  A client that is in no room ignores room events.                  *)

Listeners(ps) == {s \in Sockets : conn[s] = "open" /\ roster[s] # {} /\ \E q \in ps : socketOf[q] = s}

TellJoined(s, p, ps) ==
    roster' = [q \in Sockets |-> IF q = s THEN ps
                                 ELSE IF q \in Listeners(ps \ {p}) THEN roster[q] \cup {p}
                                 ELSE roster[q]]

\* Mutant: the close handler and the leave handler tell nobody.
TellLeftNobody(p, ps) == UNCHANGED roster

TellLeft(p, ps) ==
    roster' = [q \in Sockets |-> IF q \in Listeners(ps) THEN roster[q] \ {p} ELSE roster[q]]

-----------------------------------------------------------------------------
(* The event loop. *)

\* A frame of socket s reaches the dispatcher: it opens a chunk, or follows
\* other frames of its own chunk that left continuations behind.
CanDeliver(s) == /\ conn[s] = "open"
                 /\ micro = <<>> \/ turn = s
                 /\ Len(micro) < MaxMicro

\* The frame's handler leaves the continuations cs behind.
Delivered(s, cs) == /\ micro' = micro \o cs
                    /\ turn' = IF micro \o cs = <<>> THEN None ELSE s

\* WorkerPool.getNextWorker, and the request that follows it.
AskNextWorker(req) ==
    /\ inbox' = [inbox EXCEPT ![nextWorker] = Append(@, req)]
    /\ nextWorker' = (nextWorker + 1) % NumWorkers

-----------------------------------------------------------------------------
(* room.join and room.leave. *)

\* case "room.join": wholly synchronous.
Join(s, r, p) ==
    /\ CanDeliver(s)
    /\ Disciplined => roster[s] = {}
    /\ JoinRoom(r, s, p)
    /\ TellJoined(s, p, members'[r])
    /\ known' = [known EXCEPT ![s] = {}]
    /\ Delivered(s, <<>>)
    /\ UNCHANGED <<conn, inbox, nextWorker, asked, mediaVars>>

\* The session that getSessionBySocket finds, when it finds one with a room.
HasSession(s) == socketToPeer[s] # None /\ Registered(socketToPeer[s])

\* case "room.leave" up to its first await.
Leave(s) ==
    LET p == socketToPeer[s] IN
    /\ CanDeliver(s)
    /\ Disciplined => roster[s] # {}
    /\ HasSession(s)
    /\ CloseMedia(p)
    /\ Delivered(s, <<[step |-> "leave", peer |-> p, room |-> roomOf[p]]>>)
    /\ roster' = [roster EXCEPT ![s] = {}]
    /\ known' = [known EXCEPT ![s] = {}]
    /\ UNCHANGED <<regVars, conn, inbox, nextWorker, asked, routers, routerOf>>

\* Mutant: the room to tell is read from the session after leavePeer.
LeaveTailReadsRoomLate(p, r) ==
    /\ LeavePeer(p)
    /\ \/ /\ members'[r] = {}
          /\ CloseMediaAndRouter({}, r)
          /\ UNCHANGED roster
       \/ /\ members'[r] # {}
          /\ TellLeft(p, IF roomOf'[p] = None THEN {} ELSE members'[roomOf'[p]])
          /\ UNCHANGED mediaVars
    /\ UNCHANGED <<inbox, known>>

\* Mutant: the tail removes whom the socket maps to by now.
LeaveTailBySocket(p, r) ==
    /\ LeaveBySocket(socketOf[p])
    /\ \/ /\ members'[r] = {}
          /\ CloseMediaAndRouter({}, r)
          /\ UNCHANGED roster
       \/ /\ members'[r] # {}
          /\ TellLeft(p, members'[r])
          /\ UNCHANGED mediaVars
    /\ UNCHANGED <<inbox, known>>

\* Mutant: the router goes with every leaving peer.
LeaveTailClosesRouter(p, r) ==
    /\ LeavePeer(p)
    /\ CloseMediaAndRouter({}, r)
    /\ TellLeft(p, members'[r])
    /\ UNCHANGED <<inbox, known>>

\* case "room.leave" after its first await: the peer goes; an emptied room
\* loses its router, otherwise the others are told.
LeaveTail(p, r) ==
    /\ LeavePeer(p)
    /\ \/ /\ members'[r] = {}
          /\ CloseMediaAndRouter({}, r)
          /\ UNCHANGED roster
       \/ /\ members'[r] # {}
          /\ TellLeft(p, members'[r])
          /\ UNCHANGED mediaVars
    /\ UNCHANGED <<inbox, known>>

-----------------------------------------------------------------------------
(* Media requests.  Requests that fail a check are answered with an error  *)
(* and change nothing; they are left out.                                  *)

CanAsk(s, type) == /\ type \in Requests
                   /\ CanDeliver(s)
                   /\ asked < MaxRequests
                   /\ HasSession(s)

\* RouterManager.getOrCreateRouter when the map has no router for the room:
\* a second caller does not see that the first one is waiting for a worker.
AskRouter(s, type) ==
    LET p == socketToPeer[s] IN
    /\ CanAsk(s, type)
    /\ routerOf[roomOf[p]] = None
    /\ AskNextWorker([step |-> "router", peer |-> p, room |-> roomOf[p], id |-> asked + 1, then |-> type])
    /\ asked' = asked + 1
    /\ Delivered(s, <<>>)
    /\ UNCHANGED <<regVars, conn, mediaVars, clientVars>>

\* case "media.getRouterRtpCapabilities"; with a router at hand it only replies.
GetRouterRtpCapabilities(s) == AskRouter(s, "caps")

\* Mutant: any cached router will do.
CreateWebRtcTransportAnywhere(s) ==
    LET p == socketToPeer[s] IN
    \/ AskRouter(s, "transport")
    \/ /\ CanAsk(s, "transport")
       /\ \E r \in Rooms :
            /\ routerOf[r] # None
            /\ Delivered(s, <<[step |-> "transport", peer |-> p, router |-> routerOf[r], id |-> asked + 1]>>)
       /\ asked' = asked + 1
       /\ UNCHANGED <<regVars, conn, inbox, nextWorker, mediaVars, clientVars>>

\* case "media.createWebRtcTransport": with a router at hand the request to
\* the worker goes out after an await.
CreateWebRtcTransport(s) ==
    LET p == socketToPeer[s] IN
    \/ AskRouter(s, "transport")
    \/ /\ CanAsk(s, "transport")
       /\ routerOf[roomOf[p]] # None
       /\ Delivered(s, <<[step |-> "transport", peer |-> p, router |-> routerOf[roomOf[p]], id |-> asked + 1]>>)
       /\ asked' = asked + 1
       /\ UNCHANGED <<regVars, conn, inbox, nextWorker, mediaVars, clientVars>>

\* router.createWebRtcTransport; a router that was closed meanwhile refuses.
TransportTail(c) ==
    /\ inbox' = IF c.router \in routers
                THEN [inbox EXCEPT ![c.router.worker] = Append(@, c)] ELSE inbox
    /\ UNCHANGED <<regVars, mediaVars, clientVars>>

\* case "media.produce" up to the worker's answer.
Produce(s, t) ==
    LET p == socketToPeer[s] IN
    /\ CanAsk(s, "produce")
    /\ t \in HeldBy(p) \cap open
    /\ t.kind = "transport"
    /\ inbox' = [inbox EXCEPT ![t.router.worker] =
                   Append(@, [step |-> "produce", peer |-> p, on |-> t, id |-> asked + 1])]
    /\ asked' = asked + 1
    /\ Delivered(s, <<>>)
    /\ UNCHANGED <<regVars, conn, nextWorker, mediaVars, clientVars>>

\* router.canConsume: the producer is on the room's current router, and the
\* worker refuses a transport of another router.
CanConsume(r, t, m) == /\ m.kind = "producer"
                       /\ routerOf[r] = m.router
                       /\ t.router = m.router

\* case "media.consume" up to the worker's answer.
Consume(s, t, m) ==
    LET p == socketToPeer[s] IN
    /\ CanAsk(s, "consume")
    /\ CanConsume(roomOf[p], t, m)
    /\ m \in open
    /\ t \in HeldBy(p) \cap open
    /\ t.kind = "transport"
    /\ inbox' = [inbox EXCEPT ![t.router.worker] =
                   Append(@, [step |-> "consume", peer |-> p, on |-> t, of |-> m, id |-> asked + 1])]
    /\ asked' = asked + 1
    /\ Delivered(s, <<>>)
    /\ UNCHANGED <<regVars, conn, nextWorker, mediaVars, clientVars>>

-----------------------------------------------------------------------------
(* Continuations and answers. *)

RunMicro ==
    /\ micro # <<>>
    /\ LET c == Head(micro) IN
       \/ c.step = "leave" /\ LeaveTail(c.peer, c.room)
       \/ c.step = "transport" /\ TransportTail(c)
    /\ micro' = Tail(micro)
    /\ turn' = None
    /\ UNCHANGED <<conn, nextWorker, asked>>

\* The head of worker w's inbox is answered with no other event in between.
Answer(w, step) == /\ micro = <<>>
                   /\ inbox[w] # <<>>
                   /\ Head(inbox[w]).step = step
                   /\ UNCHANGED <<regVars, conn, turn, micro, nextWorker, asked>>

\* Mutant: the second of two racing routers is dropped, and its caller with it.
RouterCreatedFirstWins(w) ==
    LET q == Head(inbox[w])
        k == [id |-> q.id, room |-> q.room, worker |-> w]
        next == IF q.then = "transport"
                THEN <<[step |-> "transport", peer |-> q.peer, router |-> k, id |-> q.id]>> ELSE <<>>
        first == routerOf[q.room] = None
    IN /\ Answer(w, "router")
       /\ inbox' = [inbox EXCEPT ![w] = Tail(@) \o (IF first THEN next ELSE <<>>)]
       /\ routers' = IF first THEN routers \cup {k} ELSE routers
       /\ routerOf' = IF first THEN [routerOf EXCEPT ![q.room] = k] ELSE routerOf
       /\ UNCHANGED <<open, held, clientVars>>

\* worker.createRouter answers: the router replaces whatever the map holds,
\* and a createWebRtcTransport that waited for it goes on.
RouterCreated(w) ==
    LET q == Head(inbox[w])
        k == [id |-> q.id, room |-> q.room, worker |-> w]
        next == IF q.then = "transport"
                THEN <<[step |-> "transport", peer |-> q.peer, router |-> k, id |-> q.id]>> ELSE <<>>
    IN /\ Answer(w, "router")
       /\ inbox' = [inbox EXCEPT ![w] = Tail(@) \o next]
       /\ routers' = routers \cup {k}
       /\ routerOf' = [routerOf EXCEPT ![q.room] = k]
       /\ UNCHANGED <<open, held, clientVars>>

\* A new object enters its session's map whatever became of the session, and
\* is open in the worker if what it depends on is.
Hold(m, alive) == /\ held' = held \cup {m}
                  /\ open' = IF alive THEN open \cup {m} ELSE open

TransportCreated(w) ==
    LET q == Head(inbox[w])
        m == [kind |-> "transport", id |-> q.id, owner |-> q.peer, router |-> q.router,
              transport |-> 0, source |-> 0]
    IN /\ Answer(w, "transport")
       /\ Hold(m, q.router \in routers)
       /\ inbox' = [inbox EXCEPT ![w] = Tail(@)]
       /\ UNCHANGED <<routers, routerOf, clientVars>>

\* Mutant: the room to tell is the one the request was made in.
ProducedTellsOldRoom(w) ==
    LET q == Head(inbox[w])
        m == [kind |-> "producer", id |-> q.id, owner |-> q.peer, router |-> q.on.router,
              transport |-> q.on.id, source |-> 0]
        audience == Listeners(members[q.on.router.room] \ {q.peer})
    IN /\ Answer(w, "produce")
       /\ Hold(m, q.on \in open)
       /\ known' = [s \in Sockets |-> IF s \in audience THEN known[s] \cup {m} ELSE known[s]]
       /\ inbox' = [inbox EXCEPT ![w] = Tail(@)]
       /\ UNCHANGED <<routers, routerOf, roster>>

\* The answer of produce, with the announcement to the rest of the room: a
\* session that has left has no roomId and nobody hears of its producer.
Produced(w) ==
    LET q == Head(inbox[w])
        m == [kind |-> "producer", id |-> q.id, owner |-> q.peer, router |-> q.on.router,
              transport |-> q.on.id, source |-> 0]
        r == roomOf[q.peer]
        audience == IF r = None THEN {} ELSE Listeners(members[r] \ {q.peer})
    IN /\ Answer(w, "produce")
       /\ Hold(m, q.on \in open)
       /\ known' = [s \in Sockets |-> IF s \in audience THEN known[s] \cup {m} ELSE known[s]]
       /\ inbox' = [inbox EXCEPT ![w] = Tail(@)]
       /\ UNCHANGED <<routers, routerOf, roster>>

Consumed(w) ==
    LET q == Head(inbox[w])
        m == [kind |-> "consumer", id |-> q.id, owner |-> q.peer, router |-> q.on.router,
              transport |-> q.on.id, source |-> q.of.id]
    IN /\ Answer(w, "consume")
       /\ Hold(m, {q.on, q.of} \subseteq open)
       /\ inbox' = [inbox EXCEPT ![w] = Tail(@)]
       /\ UNCHANGED <<routers, routerOf, clientVars>>

Reply(w) == RouterCreated(w) \/ TransportCreated(w) \/ Produced(w) \/ Consumed(w)

-----------------------------------------------------------------------------
(* Connections. *)

\* The client closes, or the connection breaks: sends are dropped from now
\* on, and the close event is still to come.
ClientClose(s) ==
    /\ conn[s] = "open"
    /\ micro = <<>> \/ turn = s
    /\ conn' = [conn EXCEPT ![s] = "closing"]
    /\ roster' = [roster EXCEPT ![s] = {}]
    /\ known' = [known EXCEPT ![s] = {}]
    /\ UNCHANGED <<regVars, turn, micro, inbox, nextWorker, asked, mediaVars>>

\* Mutant: the close handler closes the media and forgets the membership.
CloseEventKeepsMember(s) ==
    /\ conn[s] = "closing"
    /\ micro = <<>>
    /\ conn' = [conn EXCEPT ![s] = "closed"]
    /\ \/ HasSession(s) /\ CloseMedia(socketToPeer[s]) /\ UNCHANGED <<routers, routerOf>>
       \/ ~HasSession(s) /\ UNCHANGED mediaVars
    /\ UNCHANGED <<regVars, turn, micro, inbox, nextWorker, asked, clientVars>>

\* socket.on("close"): the session that the socket maps to now is closed and
\* removed, and so is the router of the room it emptied.
CloseEvent(s) ==
    LET p == socketToPeer[s] IN
    /\ conn[s] = "closing"
    /\ micro = <<>>
    /\ conn' = [conn EXCEPT ![s] = "closed"]
    /\ LeaveBySocket(s)
    /\ \/ /\ ~HasSession(s)
          /\ UNCHANGED <<mediaVars, roster>>
       \/ /\ HasSession(s)
          /\ members'[roomOf[p]] = {}
          /\ CloseMediaAndRouter(HeldBy(p), roomOf[p])
          /\ UNCHANGED roster
       \/ /\ HasSession(s)
          /\ members'[roomOf[p]] # {}
          /\ CloseMedia(p)
          /\ TellLeft(p, members'[roomOf[p]])
          /\ UNCHANGED <<routers, routerOf>>
    /\ UNCHANGED <<turn, micro, inbox, nextWorker, asked, known>>

\* POST /rooms
PostRoom(r) == /\ "room" \in Requests
               /\ micro = <<>>
               /\ CreateRoom(r)
               /\ UNCHANGED <<loopVars, mediaVars, clientVars>>

Next ==
    \/ \E s \in Sockets, r \in Rooms, p \in Peers : Join(s, r, p)
    \/ \E s \in Sockets : Leave(s) \/ ClientClose(s) \/ CloseEvent(s)
    \/ \E s \in Sockets : GetRouterRtpCapabilities(s) \/ CreateWebRtcTransport(s)
    \/ \E s \in Sockets : \E t \in held : Produce(s, t)
    \/ \E s \in Sockets : \E t \in held, m \in open : Consume(s, t, m)
    \/ RunMicro
    \/ \E w \in Workers : Reply(w)
    \/ \E r \in Rooms : PostRoom(r)

Spec == Init /\ [][Next]_vars

\* The event loop drains its microtasks, the workers answer, and libuv visits
\* every handle that is ready, however busy the others are.
Fairness == /\ WF_vars(RunMicro)
            /\ \A w \in Workers : SF_vars(Reply(w))
            /\ \A s \in Sockets : SF_vars(CloseEvent(s))

FairSpec == Spec /\ Fairness

-----------------------------------------------------------------------------
(* Rooms, as clients and the close handler see them. *)

\* A client that is in a room, knows exactly the peers that the server holds
\* in it: room.joined, room.peerJoined and room.peerLeft never miss or
\* overtake one another.
RosterAgreement ==
    \A s \in Sockets : conn[s] = "open" /\ roster[s] # {} =>
        HasSession(s) /\ roster[s] = members[roomOf[socketToPeer[s]]]

\* No peer outlives its connection: once the close handler of a socket has
\* run, no session of that socket is left in any room.
NoGhosts == \A p \in sessions : conn[socketOf[p]] # "closed"

\* A socket never has two members in rooms between events.
OneMemberPerSocket ==
    micro = <<>> => \A p, q \in sessions : socketOf[p] = socketOf[q] => p = q

-----------------------------------------------------------------------------
(* Media. *)

\* The cached router of a room is open, and is a router of that room: closing
\* one room's router never leaves a closed one behind for the next joiner.
CachedRouterLive == \A r \in Rooms : routerOf[r] # None => routerOf[r] \in routers /\ routerOf[r].room = r

\* The transports and producers of a peer that is in a room are open: no
\* other peer's departure, late answer or second router ever closes them.
MemberMediaAlive ==
    \A m \in held : m.owner \in sessions /\ m.kind # "consumer" => m \in open

\* No peer receives media from another room.
RoomIsolation ==
    \A c, m \in open : c.source = m.id /\ {c.owner, m.owner} \subseteq sessions =>
        roomOf[c.owner] = roomOf[m.owner]

\* Between events, a producer that a client was told of by a peer it still
\* believes to be in the room is really there.
KnownProducersLive ==
    micro = <<>> => \A s \in Sockets : conn[s] = "open" =>
        \A m \in known[s] : m.owner \in roster[s] => m \in open

\* A producer is announced only while its owner is in the listener's room and
\* the producer is open: an answer that comes after the owner has left, or for
\* a transport that was closed meanwhile, is announced to nobody.
AnnouncedByMembers ==
    [][\A s \in Sockets : \A m \in known'[s] \ known[s] :
          m.owner \in roster[s] /\ m \in open']_vars

\* A router closes only when nobody is left in its room.
RoutersOutliveMembers ==
    [][\A k \in routers \ routers' : members'[k.room] = {}]_vars

-----------------------------------------------------------------------------
(* Expectations of the tests that do not survive every interleaving. *)

\* router-manager.test.ts: "creates and caches routers per room".
OneRouterPerRoom == \A k, l \in routers : k.room = l.room => k = l

\* signaling.test.ts: "cleans up room media when the last peer disconnects".
NoRouterWithoutRoom ==
    micro = <<>> => \A k \in routers : k.room \in rooms

-----------------------------------------------------------------------------
\* Peer p waits for the transport with id n.
Waiting(p, n) ==
    LET waits(c) == /\ c.peer = p
                    /\ c.id = n
                    /\ c.step = "router" => c.then = "transport"
    IN \/ \E i \in DOMAIN micro : micro[i].step = "transport" /\ waits(micro[i])
       \/ \E w \in Workers : \E i \in DOMAIN inbox[w] :
             inbox[w][i].step \in {"router", "transport"} /\ waits(inbox[w][i])

\* A peer that asked for a transport and stays gets it, whichever of two
\* concurrently created routers it ends up on and whoever else leaves.
WaitingPeersServed ==
    \A p \in Peers, n \in 1 .. MaxRequests :
        Waiting(p, n) ~> p \notin sessions \/ n \in Ids(HeldBy(p))

\* A connection that goes away takes its peers out of their rooms.
DisconnectedPeersLeave ==
    \A s \in Sockets : conn[s] = "closing" ~> \A p \in sessions : socketOf[p] # s
=============================================================================
