-------------------------- MODULE SignalingProofs --------------------------
(***************************************************************************)
(* Proofs about Signaling, for any number of sockets, rooms, peers and     *)
(* workers and for disciplined and undisciplined clients alike.            *)
(*                                                                         *)
(* Every step of the server is one call of the registry or none, so the    *)
(* registry's theorems hold of the server; on top of them come the types   *)
(* of the event loop's queues and the two facts about cached routers.  The *)
(* second part is about rosters and members, for disciplined clients.      *)
(***************************************************************************)
EXTENDS Signaling, RoomRegistryProofs, SequenceTheorems

\* The part of the type invariant that is about the loop, the media and the
\* clients.
LoopTypeOK ==
    /\ conn \in [Sockets -> {"open", "closing", "closed"}]
    /\ turn \in Sockets \cup {None}
    /\ micro \in Seq(LeaveStep \cup TransportStep)
    /\ inbox \in [Workers -> Seq(Request)]
    /\ nextWorker \in Workers
    /\ asked \in Nat
MediaTypeOK ==
    /\ routers \subseteq Router
    /\ routerOf \in [Rooms -> Router \cup {None}]
    /\ open \subseteq Media
    /\ held \subseteq Media
    /\ roster \in [Sockets -> SUBSET Peers]
    /\ known \in [Sockets -> SUBSET Media]

ServerInv == RegistryInv /\ LoopTypeOK /\ MediaTypeOK /\ CachedRouterLive

LEMMA TypesSplit == SignalingTypeOK <=> RegistryTypeOK /\ LoopTypeOK /\ MediaTypeOK
  BY DEF SignalingTypeOK, LoopTypeOK, MediaTypeOK

-----------------------------------------------------------------------------
(* The queues. *)

\* A session that a request finds is a peer in a room.
LEMMA SessionFound ==
    ASSUME RegistryInv, NEW s \in Sockets, HasSession(s)
    PROVE  /\ socketToPeer[s] \in Peers
           /\ roomOf[socketToPeer[s]] \in Rooms
           /\ socketToPeer[s] \in sessions
  BY RegistryAssumption DEF RegistryInv, RegistryTypeOK, HasSession, Registered

\* Delivering a frame leaves typed continuations behind.
LEMMA DeliveredTypes ==
    ASSUME LoopTypeOK, NEW s \in Sockets, NEW cs \in Seq(LeaveStep \cup TransportStep), Delivered(s, cs)
    PROVE  micro' \in Seq(LeaveStep \cup TransportStep) /\ turn' \in Sockets \cup {None}
  <1>1. micro \o cs \in Seq(LeaveStep \cup TransportStep)
    BY ConcatProperties DEF LoopTypeOK
  <1> QED  BY <1>1 DEF Delivered

\* A request that is put into some worker's inbox.
LEMMA InboxTypes ==
    ASSUME LoopTypeOK, NEW w \in Workers, NEW req \in Request,
           inbox' = [inbox EXCEPT ![w] = Append(@, req)]
    PROVE  inbox' \in [Workers -> Seq(Request)]
  <1>1. Append(inbox[w], req) \in Seq(Request)
    BY AppendProperties DEF LoopTypeOK
  <1> QED  BY <1>1 DEF LoopTypeOK

LEMMA AskNextWorkerTypes ==
    ASSUME LoopTypeOK, NEW req \in Request, AskNextWorker(req)
    PROVE  inbox' \in [Workers -> Seq(Request)] /\ nextWorker' \in Workers
  <1>1. nextWorker \in Workers
    BY DEF LoopTypeOK
  <1>2. inbox' \in [Workers -> Seq(Request)]
    BY <1>1, InboxTypes DEF AskNextWorker
  <1>3. (nextWorker + 1) % NumWorkers \in 0 .. NumWorkers - 1
    BY <1>1, SignalingAssumption DEF Workers
  <1> QED  BY <1>2, <1>3 DEF AskNextWorker, Workers

\* The head of a non-empty inbox is a request, and the rest stays typed.
LEMMA InboxHead ==
    ASSUME LoopTypeOK, NEW w \in Workers, inbox[w] # <<>>
    PROVE  Head(inbox[w]) \in Request /\ Tail(inbox[w]) \in Seq(Request)
  BY HeadTailProperties DEF LoopTypeOK

\* A request is known by its step.
LEMMA RequestKinds ==
    ASSUME NEW q \in Request
    PROVE  /\ q.step = "router" => q \in RouterRequest
           /\ q.step = "transport" => q \in TransportStep
           /\ q.step = "produce" => q \in ProduceRequest
           /\ q.step = "consume" => q \in ConsumeRequest
  BY DEF Request, RouterRequest, TransportStep, ProduceRequest, ConsumeRequest

-----------------------------------------------------------------------------
(* Closing. *)

MediaSets == routers \subseteq Router /\ open \subseteq Media /\ held \subseteq Media
RouterMap == routerOf \in [Rooms -> Router \cup {None}]

LEMMA CloseMediaTypes ==
    ASSUME MediaTypeOK, CachedRouterLive, NEW p \in Peers, CloseMedia(p), UNCHANGED <<routers, routerOf>>
    PROVE  MediaSets' /\ RouterMap' /\ CachedRouterLive'
  BY DEF MediaTypeOK, MediaSets, RouterMap, CachedRouterLive, CloseMedia, ClosedWith, HeldBy

\* Closing the router of one room leaves every other room's router open: the
\* cached router of a room is a router of that room.
LEMMA CloseRouterTypes ==
    ASSUME MediaTypeOK, CachedRouterLive, NEW r \in Rooms, NEW ms, CloseMediaAndRouter(ms, r)
    PROVE  MediaSets' /\ RouterMap' /\ CachedRouterLive'
  <1>1. MediaSets' /\ RouterMap'
    BY DEF MediaTypeOK, MediaSets, RouterMap, CloseMediaAndRouter
  <1>2. CachedRouterLive'
    <2> SUFFICES ASSUME NEW q \in Rooms, routerOf'[q] # None
                 PROVE  routerOf'[q] \in routers' /\ routerOf'[q].room = q
      BY DEF CachedRouterLive
    <2>1. q # r /\ routerOf'[q] = routerOf[q]
      BY DEF CloseMediaAndRouter, MediaTypeOK
    <2>2. routerOf[q] \in routers /\ routerOf[q].room = q
      BY <2>1 DEF CachedRouterLive
    <2>3. routerOf[q] # routerOf[r]
      <3>1. CASE routerOf[r] = None
        BY <3>1, <2>1
      <3>2. CASE routerOf[r] # None
        <4>1. routerOf[r].room = r
          BY <3>2 DEF CachedRouterLive
        <4> QED  BY <4>1, <2>1, <2>2
      <3> QED  BY <3>1, <3>2
    <2> QED  BY <2>1, <2>2, <2>3 DEF CloseMediaAndRouter
  <1> QED  BY <1>1, <1>2

\* Messages to clients.
LEMMA RosterTypes ==
    ASSUME MediaTypeOK
    PROVE  /\ \A s \in Sockets, p \in Peers, ps \in SUBSET Peers :
                 TellJoined(s, p, ps) => roster' \in [Sockets -> SUBSET Peers]
           /\ \A ps : \A p \in Peers : TellLeft(p, ps) => roster' \in [Sockets -> SUBSET Peers]
  BY DEF MediaTypeOK, TellJoined, TellLeft

-----------------------------------------------------------------------------
(* Rooms. *)

LEMMA JoinStep ==
    ASSUME ServerInv, NEW s \in Sockets, NEW r \in Rooms, NEW p \in Peers, Join(s, r, p)
    PROVE  [RegistryNext]_regVars /\ LoopTypeOK' /\ MediaTypeOK' /\ CachedRouterLive'
  <1>1. JoinRoom(r, s, p) /\ Delivered(s, <<>>) /\ TellJoined(s, p, members'[r])
        /\ known' = [known EXCEPT ![s] = {}]
        /\ UNCHANGED <<conn, inbox, nextWorker, asked, routers, routerOf, open, held>>
    BY DEF Join, mediaVars
  <1>2. [RegistryNext]_regVars
    BY <1>1 DEF RegistryNext
  <1>3. micro' \in Seq(LeaveStep \cup TransportStep) /\ turn' \in Sockets \cup {None}
    BY <1>1, DeliveredTypes, EmptySeq DEF ServerInv
  <1>4. members'[r] \in SUBSET Peers
    BY <1>1 DEF JoinRoom, ServerInv, RegistryInv, RegistryTypeOK
  <1>5. roster' \in [Sockets -> SUBSET Peers]
    BY <1>1, <1>4, RosterTypes DEF ServerInv
  <1>6. LoopTypeOK'
    BY <1>1, <1>3 DEF ServerInv, LoopTypeOK
  <1>7. MediaTypeOK'
    BY <1>1, <1>5 DEF ServerInv, MediaTypeOK
  <1>8. CachedRouterLive'
    BY <1>1 DEF ServerInv, CachedRouterLive
  <1> QED  BY <1>2, <1>6, <1>7, <1>8

LEMMA LeaveStarts ==
    ASSUME ServerInv, NEW s \in Sockets, Leave(s)
    PROVE  [RegistryNext]_regVars /\ LoopTypeOK' /\ MediaTypeOK' /\ CachedRouterLive'
  <1> DEFINE p == socketToPeer[s]
             c == [step |-> "leave", peer |-> p, room |-> roomOf[p]]
  <1>1. HasSession(s) /\ CloseMedia(p) /\ Delivered(s, <<c>>)
        /\ roster' = [roster EXCEPT ![s] = {}] /\ known' = [known EXCEPT ![s] = {}]
        /\ UNCHANGED <<regVars, conn, inbox, nextWorker, asked, routers, routerOf>>
    BY DEF Leave
  <1>2. p \in Peers /\ roomOf[p] \in Rooms
    BY <1>1, SessionFound DEF ServerInv
  <1>3. <<c>> \in Seq(LeaveStep \cup TransportStep)
    BY <1>2 DEF LeaveStep
  <1>4. micro' \in Seq(LeaveStep \cup TransportStep) /\ turn' \in Sockets \cup {None}
    <2> HIDE DEF c
    <2> QED  BY <1>1, <1>3, DeliveredTypes DEF ServerInv
  <1>5. MediaSets' /\ RouterMap' /\ CachedRouterLive'
    <2> HIDE DEF p
    <2> QED  BY <1>1, <1>2, CloseMediaTypes DEF ServerInv
  <1>6. LoopTypeOK'
    BY <1>1, <1>4 DEF ServerInv, LoopTypeOK
  <1>7. MediaTypeOK'
    BY <1>1, <1>5 DEF ServerInv, MediaTypeOK, MediaSets, RouterMap
  <1> QED  BY <1>1, <1>5, <1>6, <1>7

\* The tail of a leave: the peer goes, and with the last one the router.
LEMMA LeaveEnds ==
    ASSUME ServerInv, NEW p \in Peers, NEW r \in Rooms, LeaveTail(p, r)
    PROVE  [RegistryNext]_regVars /\ inbox' = inbox /\ MediaTypeOK' /\ CachedRouterLive'
  <1>1. LeavePeer(p) /\ UNCHANGED <<inbox, known>>
    BY DEF LeaveTail
  <1>2. [RegistryNext]_regVars
    BY <1>1 DEF RegistryNext
  <1>3. CASE CloseMediaAndRouter({}, r) /\ UNCHANGED roster
    <2>1. MediaSets' /\ RouterMap' /\ CachedRouterLive'
      BY <1>3, CloseRouterTypes DEF ServerInv
    <2> QED  BY <2>1, <1>1, <1>2, <1>3 DEF ServerInv, MediaTypeOK, MediaSets, RouterMap
  <1>4. CASE TellLeft(p, members'[r]) /\ UNCHANGED mediaVars
    <2>1. roster' \in [Sockets -> SUBSET Peers]
      BY <1>4, RosterTypes DEF ServerInv
    <2>2. MediaTypeOK' /\ CachedRouterLive'
      BY <2>1, <1>1, <1>4 DEF ServerInv, MediaTypeOK, CachedRouterLive, mediaVars
    <2> QED  BY <2>2, <1>1, <1>2
  <1> QED  BY <1>3, <1>4 DEF LeaveTail

-----------------------------------------------------------------------------
(* Media requests.  They touch the loop and nothing else. *)

Unmoved == UNCHANGED <<regVars, conn, mediaVars, clientVars>>

LEMMA UnmovedKeeps ==
    ASSUME ServerInv, Unmoved
    PROVE  [RegistryNext]_regVars /\ MediaTypeOK' /\ CachedRouterLive'
  BY DEF ServerInv, Unmoved, MediaTypeOK, CachedRouterLive, mediaVars, clientVars

LEMMA AskRouterStep ==
    ASSUME ServerInv, NEW s \in Sockets, NEW type \in {"caps", "transport"}, AskRouter(s, type)
    PROVE  Unmoved /\ LoopTypeOK'
  <1> DEFINE p == socketToPeer[s]
             q == [step |-> "router", peer |-> p, room |-> roomOf[p], id |-> asked + 1, then |-> type]
  <1>1. HasSession(s) /\ AskNextWorker(q) /\ asked' = asked + 1 /\ Delivered(s, <<>>) /\ Unmoved
    BY DEF AskRouter, CanAsk, Unmoved
  <1>2. p \in Peers /\ roomOf[p] \in Rooms
    BY <1>1, SessionFound DEF ServerInv
  <1>3. asked \in Nat /\ asked' \in Nat
    BY <1>1 DEF ServerInv, LoopTypeOK
  <1>4. q \in Request
    BY <1>2, <1>3 DEF Request, RouterRequest
  <1>5. inbox' \in [Workers -> Seq(Request)] /\ nextWorker' \in Workers
    <2> HIDE DEF q
    <2> QED  BY <1>1, <1>4, AskNextWorkerTypes DEF ServerInv
  <1>6. micro' \in Seq(LeaveStep \cup TransportStep) /\ turn' \in Sockets \cup {None}
    BY <1>1, DeliveredTypes, EmptySeq DEF ServerInv
  <1> QED  BY <1>1, <1>3, <1>5, <1>6 DEF ServerInv, LoopTypeOK, Unmoved

LEMMA CreateTransportStep ==
    ASSUME ServerInv, NEW s \in Sockets, CreateWebRtcTransport(s)
    PROVE  Unmoved /\ LoopTypeOK'
  <1> DEFINE p == socketToPeer[s]
             c == [step |-> "transport", peer |-> p, router |-> routerOf[roomOf[p]], id |-> asked + 1]
  <1>1. CASE AskRouter(s, "transport")
    BY <1>1, AskRouterStep
  <1>2. CASE /\ CanAsk(s, "transport") /\ routerOf[roomOf[p]] # None
             /\ Delivered(s, <<c>>) /\ asked' = asked + 1
             /\ UNCHANGED <<regVars, conn, inbox, nextWorker, mediaVars, clientVars>>
    <2>1. p \in Peers /\ roomOf[p] \in Rooms
      BY <1>2, SessionFound DEF CanAsk, ServerInv
    <2>2. asked \in Nat /\ asked' \in Nat /\ asked + 1 \in Nat
      BY <1>2 DEF ServerInv, LoopTypeOK
    <2>3. routerOf[roomOf[p]] \in Router
      <3> HIDE DEF p
      <3> QED  BY <1>2, <2>1 DEF ServerInv, MediaTypeOK
    <2>4. <<c>> \in Seq(LeaveStep \cup TransportStep)
      BY <2>1, <2>2, <2>3 DEF TransportStep
    <2>5. micro' \in Seq(LeaveStep \cup TransportStep) /\ turn' \in Sockets \cup {None}
      <3> HIDE DEF c
      <3> QED  BY <1>2, <2>4, DeliveredTypes DEF ServerInv
    <2> QED  BY <1>2, <2>2, <2>5 DEF ServerInv, LoopTypeOK, Unmoved
  <1> QED  BY <1>1, <1>2 DEF CreateWebRtcTransport

LEMMA ProduceStep ==
    ASSUME ServerInv, NEW s \in Sockets, NEW t \in held, Produce(s, t)
    PROVE  Unmoved /\ LoopTypeOK'
  <1> DEFINE p == socketToPeer[s]
             q == [step |-> "produce", peer |-> p, on |-> t, id |-> asked + 1]
             w == t.router.worker
  <1>1. /\ HasSession(s) /\ inbox' = [inbox EXCEPT ![w] = Append(@, q)]
        /\ asked' = asked + 1 /\ Delivered(s, <<>>) /\ Unmoved /\ nextWorker' = nextWorker
    BY DEF Produce, CanAsk, Unmoved
  <1>2. p \in Peers /\ asked \in Nat /\ asked' \in Nat
    BY <1>1, SessionFound DEF ServerInv, LoopTypeOK
  <1>3. t \in Media /\ w \in Workers
    BY DEF ServerInv, MediaTypeOK, Media, Router
  <1>4. q \in Request
    BY <1>2, <1>3 DEF Request, ProduceRequest
  <1>5. inbox' \in [Workers -> Seq(Request)]
    <2> HIDE DEF q, w
    <2> QED  BY <1>1, <1>3, <1>4, InboxTypes DEF ServerInv
  <1>6. micro' \in Seq(LeaveStep \cup TransportStep) /\ turn' \in Sockets \cup {None}
    BY <1>1, DeliveredTypes, EmptySeq DEF ServerInv
  <1> QED  BY <1>1, <1>2, <1>5, <1>6 DEF ServerInv, LoopTypeOK, Unmoved

LEMMA ConsumeStep ==
    ASSUME ServerInv, NEW s \in Sockets, NEW t \in held, NEW m \in open, Consume(s, t, m)
    PROVE  Unmoved /\ LoopTypeOK'
  <1> DEFINE p == socketToPeer[s]
             q == [step |-> "consume", peer |-> p, on |-> t, of |-> m, id |-> asked + 1]
             w == t.router.worker
  <1>1. /\ HasSession(s) /\ inbox' = [inbox EXCEPT ![w] = Append(@, q)]
        /\ asked' = asked + 1 /\ Delivered(s, <<>>) /\ Unmoved /\ nextWorker' = nextWorker
    BY DEF Consume, CanAsk, Unmoved
  <1>2. p \in Peers /\ asked \in Nat /\ asked' \in Nat
    BY <1>1, SessionFound DEF ServerInv, LoopTypeOK
  <1>3. t \in Media /\ m \in Media /\ w \in Workers
    BY DEF ServerInv, MediaTypeOK, Media, Router
  <1>4. q \in Request
    BY <1>2, <1>3 DEF Request, ConsumeRequest
  <1>5. inbox' \in [Workers -> Seq(Request)]
    <2> HIDE DEF q, w
    <2> QED  BY <1>1, <1>3, <1>4, InboxTypes DEF ServerInv
  <1>6. micro' \in Seq(LeaveStep \cup TransportStep) /\ turn' \in Sockets \cup {None}
    BY <1>1, DeliveredTypes, EmptySeq DEF ServerInv
  <1> QED  BY <1>1, <1>2, <1>5, <1>6 DEF ServerInv, LoopTypeOK, Unmoved

-----------------------------------------------------------------------------
(* Continuations. *)

LEMMA RunMicroStep ==
    ASSUME ServerInv, RunMicro
    PROVE  [RegistryNext]_regVars /\ LoopTypeOK' /\ MediaTypeOK' /\ CachedRouterLive'
  <1> DEFINE c == Head(micro)
  <1>1. /\ c \in LeaveStep \cup TransportStep
        /\ Tail(micro) \in Seq(LeaveStep \cup TransportStep)
    BY HeadTailProperties DEF RunMicro, ServerInv, LoopTypeOK
  <1>2. micro' = Tail(micro) /\ turn' = None /\ UNCHANGED <<conn, nextWorker, asked>>
    BY DEF RunMicro
  <1>3. CASE c.step = "leave" /\ LeaveTail(c.peer, c.room)
    <2>1. c.peer \in Peers /\ c.room \in Rooms
      BY <1>1, <1>3 DEF LeaveStep, TransportStep
    <2>2. [RegistryNext]_regVars /\ inbox' = inbox /\ MediaTypeOK' /\ CachedRouterLive'
      BY <1>3, <2>1, LeaveEnds
    <2> QED  BY <1>1, <1>2, <2>2 DEF ServerInv, LoopTypeOK
  <1>4. CASE c.step = "transport" /\ TransportTail(c)
    <2>1. c \in TransportStep
      BY <1>1, <1>4 DEF LeaveStep, TransportStep
    <2>2. c \in Request /\ c.router.worker \in Workers
      BY <2>1 DEF Request, TransportStep, Router
    <2>3. inbox' \in [Workers -> Seq(Request)]
      <3>1. CASE inbox' = inbox
        BY <3>1 DEF ServerInv, LoopTypeOK
      <3>2. CASE inbox' = [inbox EXCEPT ![c.router.worker] = Append(@, c)]
        BY <3>2, <2>2, InboxTypes DEF ServerInv
      <3> QED  BY <3>1, <3>2, <1>4 DEF TransportTail
    <2>4. [RegistryNext]_regVars /\ MediaTypeOK' /\ CachedRouterLive'
      BY <1>4 DEF TransportTail, ServerInv, MediaTypeOK, CachedRouterLive, mediaVars, clientVars
    <2> QED  BY <1>1, <1>2, <2>3, <2>4 DEF ServerInv, LoopTypeOK
  <1> QED  BY <1>3, <1>4 DEF RunMicro

-----------------------------------------------------------------------------
(* Answers.  They touch the media and the inbox they come from. *)

Answered == UNCHANGED <<regVars, conn, turn, micro, nextWorker, asked>>

LEMMA AnswerKeeps ==
    ASSUME ServerInv, Answered, inbox' \in [Workers -> Seq(Request)], MediaTypeOK', CachedRouterLive'
    PROVE  [RegistryNext]_regVars /\ LoopTypeOK' /\ MediaTypeOK' /\ CachedRouterLive'
  BY DEF ServerInv, Answered, LoopTypeOK

\* The answered request leaves its inbox.
LEMMA AnswerTypes ==
    ASSUME ServerInv, NEW w \in Workers, NEW step, Answer(w, step)
    PROVE  /\ Head(inbox[w]) \in Request
           /\ Tail(inbox[w]) \in Seq(Request)
           /\ [inbox EXCEPT ![w] = Tail(@)] \in [Workers -> Seq(Request)]
           /\ Answered
  <1>1. Head(inbox[w]) \in Request /\ Tail(inbox[w]) \in Seq(Request)
    BY InboxHead DEF Answer, ServerInv
  <1> QED  BY <1>1 DEF ServerInv, LoopTypeOK, Answer, Answered

LEMMA RouterCreatedStep ==
    ASSUME ServerInv, NEW w \in Workers, RouterCreated(w)
    PROVE  [RegistryNext]_regVars /\ LoopTypeOK' /\ MediaTypeOK' /\ CachedRouterLive'
  <1> DEFINE q == Head(inbox[w])
             k == [id |-> q.id, room |-> q.room, worker |-> w]
             c == [step |-> "transport", peer |-> q.peer, router |-> k, id |-> q.id]
             next == IF q.then = "transport" THEN <<c>> ELSE <<>>
  <1>1. /\ Answer(w, "router") /\ inbox' = [inbox EXCEPT ![w] = Tail(@) \o next]
        /\ routers' = routers \cup {k} /\ routerOf' = [routerOf EXCEPT ![q.room] = k]
        /\ UNCHANGED <<open, held, roster, known>>
    BY DEF RouterCreated, clientVars
  <1>2. q \in Request /\ Tail(inbox[w]) \in Seq(Request) /\ Answered
    BY <1>1, AnswerTypes
  <1>3. q \in RouterRequest
    BY <1>1, <1>2, RequestKinds DEF Answer
  <1>4. q.peer \in Peers /\ q.room \in Rooms /\ k \in Router
    BY <1>3 DEF RouterRequest, Router
  <1>5. c \in Request
    <2> HIDE DEF k
    <2> QED  BY <1>3, <1>4 DEF Request, TransportStep, RouterRequest
  <1>6. inbox' \in [Workers -> Seq(Request)]
    <2>1. next \in Seq(Request)
      <3> HIDE DEF c
      <3> QED  BY <1>5, EmptySeq
    <2>2. Tail(inbox[w]) \o next \in Seq(Request)
      <3> HIDE DEF next
      <3> QED  BY <1>2, <2>1, ConcatProperties
    <2> QED  BY <1>1, <2>2 DEF ServerInv, LoopTypeOK
  <1>7. k.room = q.room
    OBVIOUS
  <1>8. MediaTypeOK' /\ CachedRouterLive'
    <2> HIDE DEF k, q
    <2> QED  BY <1>1, <1>4, <1>7 DEF ServerInv, MediaTypeOK, CachedRouterLive
  <1> QED  BY <1>2, <1>6, <1>8, AnswerKeeps

\* A new transport, producer or consumer closes no router.
LEMMA HoldKeeps ==
    ASSUME ServerInv, NEW m \in Media, NEW alive, Hold(m, alive),
           UNCHANGED <<routers, routerOf, roster>>, known' \in [Sockets -> SUBSET Media]
    PROVE  MediaTypeOK' /\ CachedRouterLive'
  BY DEF ServerInv, MediaTypeOK, CachedRouterLive, Hold

LEMMA TransportCreatedStep ==
    ASSUME ServerInv, NEW w \in Workers, TransportCreated(w)
    PROVE  [RegistryNext]_regVars /\ LoopTypeOK' /\ MediaTypeOK' /\ CachedRouterLive'
  <1> DEFINE q == Head(inbox[w])
             m == [kind |-> "transport", id |-> q.id, owner |-> q.peer, router |-> q.router,
                   transport |-> 0, source |-> 0]
  <1>1. /\ Answer(w, "transport") /\ Hold(m, q.router \in routers)
        /\ inbox' = [inbox EXCEPT ![w] = Tail(@)]
        /\ UNCHANGED <<routers, routerOf, roster, known>>
    BY DEF TransportCreated, clientVars
  <1>2. q \in Request /\ inbox' \in [Workers -> Seq(Request)] /\ Answered
    BY <1>1, AnswerTypes
  <1>3. q \in TransportStep
    BY <1>1, <1>2, RequestKinds DEF Answer
  <1>4. m \in Media
    BY <1>3 DEF TransportStep, Media
  <1>5. known' \in [Sockets -> SUBSET Media]
    BY <1>1 DEF ServerInv, MediaTypeOK
  <1>6. MediaTypeOK' /\ CachedRouterLive'
    <2> HIDE DEF m
    <2> QED  BY <1>1, <1>4, <1>5, HoldKeeps
  <1> QED  BY <1>2, <1>6, AnswerKeeps

LEMMA ProducedStep ==
    ASSUME ServerInv, NEW w \in Workers, Produced(w)
    PROVE  [RegistryNext]_regVars /\ LoopTypeOK' /\ MediaTypeOK' /\ CachedRouterLive'
  <1> DEFINE q == Head(inbox[w])
             m == [kind |-> "producer", id |-> q.id, owner |-> q.peer, router |-> q.on.router,
                   transport |-> q.on.id, source |-> 0]
             r == roomOf[q.peer]
             audience == IF r = None THEN {} ELSE Listeners(members[r] \ {q.peer})
  <1>1. /\ Answer(w, "produce") /\ Hold(m, q.on \in open)
        /\ known' = [s \in Sockets |-> IF s \in audience THEN known[s] \cup {m} ELSE known[s]]
        /\ inbox' = [inbox EXCEPT ![w] = Tail(@)]
        /\ UNCHANGED <<routers, routerOf, roster>>
    BY DEF Produced
  <1>2. q \in Request /\ inbox' \in [Workers -> Seq(Request)] /\ Answered
    BY <1>1, AnswerTypes
  <1>3. q \in ProduceRequest
    BY <1>1, <1>2, RequestKinds DEF Answer
  <1>4. m \in Media
    BY <1>3 DEF ProduceRequest, Media
  <1>5. known' \in [Sockets -> SUBSET Media]
    <2> HIDE DEF m, audience
    <2> QED  BY <1>1, <1>4 DEF ServerInv, MediaTypeOK
  <1>6. MediaTypeOK' /\ CachedRouterLive'
    <2> HIDE DEF m
    <2> QED  BY <1>1, <1>4, <1>5, HoldKeeps
  <1> QED  BY <1>2, <1>6, AnswerKeeps

LEMMA ConsumedStep ==
    ASSUME ServerInv, NEW w \in Workers, Consumed(w)
    PROVE  [RegistryNext]_regVars /\ LoopTypeOK' /\ MediaTypeOK' /\ CachedRouterLive'
  <1> DEFINE q == Head(inbox[w])
             m == [kind |-> "consumer", id |-> q.id, owner |-> q.peer, router |-> q.on.router,
                   transport |-> q.on.id, source |-> q.of.id]
  <1>1. /\ Answer(w, "consume") /\ Hold(m, {q.on, q.of} \subseteq open)
        /\ inbox' = [inbox EXCEPT ![w] = Tail(@)]
        /\ UNCHANGED <<routers, routerOf, roster, known>>
    BY DEF Consumed, clientVars
  <1>2. q \in Request /\ inbox' \in [Workers -> Seq(Request)] /\ Answered
    BY <1>1, AnswerTypes
  <1>3. q \in ConsumeRequest
    BY <1>1, <1>2, RequestKinds DEF Answer
  <1>4. m \in Media
    BY <1>3 DEF ConsumeRequest, Media
  <1>5. known' \in [Sockets -> SUBSET Media]
    BY <1>1 DEF ServerInv, MediaTypeOK
  <1>6. MediaTypeOK' /\ CachedRouterLive'
    <2> HIDE DEF m
    <2> QED  BY <1>1, <1>4, <1>5, HoldKeeps
  <1> QED  BY <1>2, <1>6, AnswerKeeps

-----------------------------------------------------------------------------
(* Connections. *)

LEMMA ClientCloseStep ==
    ASSUME ServerInv, NEW s \in Sockets, ClientClose(s)
    PROVE  [RegistryNext]_regVars /\ LoopTypeOK' /\ MediaTypeOK' /\ CachedRouterLive'
  BY DEF ClientClose, ServerInv, LoopTypeOK, MediaTypeOK, CachedRouterLive, mediaVars

LEMMA CloseEventStep ==
    ASSUME ServerInv, NEW s \in Sockets, CloseEvent(s)
    PROVE  [RegistryNext]_regVars /\ LoopTypeOK' /\ MediaTypeOK' /\ CachedRouterLive'
  <1> DEFINE p == socketToPeer[s]
  <1>1. /\ LeaveBySocket(s) /\ conn' = [conn EXCEPT ![s] = "closed"]
        /\ UNCHANGED <<turn, micro, inbox, nextWorker, asked, known>>
    BY DEF CloseEvent
  <1>2. [RegistryNext]_regVars
    BY <1>1 DEF RegistryNext
  <1>3. LoopTypeOK'
    BY <1>1 DEF ServerInv, LoopTypeOK
  <1>4. CASE UNCHANGED <<mediaVars, roster>>
    BY <1>1, <1>2, <1>3, <1>4 DEF ServerInv, MediaTypeOK, CachedRouterLive, mediaVars
  <1>5. CASE HasSession(s) /\ CloseMediaAndRouter(HeldBy(p), roomOf[p]) /\ UNCHANGED roster
    <2>1. roomOf[p] \in Rooms
      BY <1>5, SessionFound DEF ServerInv
    <2>2. MediaSets' /\ RouterMap' /\ CachedRouterLive'
      <3> HIDE DEF p
      <3> QED  BY <1>5, <2>1, CloseRouterTypes DEF ServerInv
    <2> QED  BY <1>1, <1>2, <1>3, <1>5, <2>2 DEF ServerInv, MediaTypeOK, MediaSets, RouterMap
  <1>6. CASE /\ HasSession(s) /\ CloseMedia(p) /\ TellLeft(p, members'[roomOf[p]])
             /\ UNCHANGED <<routers, routerOf>>
    <2>1. p \in Peers
      BY <1>6, SessionFound DEF ServerInv
    <2>2. MediaSets' /\ RouterMap' /\ CachedRouterLive'
      <3> HIDE DEF p
      <3> QED  BY <1>6, <2>1, CloseMediaTypes DEF ServerInv
    <2>3. roster' \in [Sockets -> SUBSET Peers]
      <3> HIDE DEF p
      <3> QED  BY <1>6, <2>1, RosterTypes DEF ServerInv
    <2> QED  BY <1>1, <1>2, <1>3, <2>2, <2>3 DEF ServerInv, MediaTypeOK, MediaSets, RouterMap
  <1> QED  BY <1>4, <1>5, <1>6 DEF CloseEvent

LEMMA PostRoomStep ==
    ASSUME ServerInv, NEW r \in Rooms, PostRoom(r)
    PROVE  [RegistryNext]_regVars /\ LoopTypeOK' /\ MediaTypeOK' /\ CachedRouterLive'
  BY DEF PostRoom, RegistryNext, ServerInv, LoopTypeOK, MediaTypeOK, CachedRouterLive,
     loopVars, mediaVars, clientVars

LEMMA ServerStutter ==
    ASSUME ServerInv, UNCHANGED vars
    PROVE  [RegistryNext]_regVars /\ LoopTypeOK' /\ MediaTypeOK' /\ CachedRouterLive'
  BY DEF vars, ServerInv, LoopTypeOK, MediaTypeOK, CachedRouterLive, loopVars, mediaVars, clientVars

-----------------------------------------------------------------------------
(* The server. *)

LEMMA ServerInit == Init => ServerInv
  <1> SUFFICES ASSUME Init PROVE ServerInv
    OBVIOUS
  <1>1. RegistryInv
    BY RegistryInitInv DEF Init
  <1>2. 0 \in Workers
    BY SignalingAssumption DEF Workers
  <1>3. LoopTypeOK
    BY <1>2, EmptySeq DEF Init, LoopTypeOK
  <1>4. MediaTypeOK /\ CachedRouterLive
    BY DEF Init, MediaTypeOK, CachedRouterLive
  <1> QED  BY <1>1, <1>3, <1>4 DEF ServerInv

LEMMA ServerStep ==
    ASSUME ServerInv, [Next]_vars
    PROVE  [RegistryNext]_regVars /\ LoopTypeOK' /\ MediaTypeOK' /\ CachedRouterLive'
  <1>1. ASSUME NEW s \in Sockets, NEW r \in Rooms, NEW p \in Peers, Join(s, r, p)
        PROVE  [RegistryNext]_regVars /\ LoopTypeOK' /\ MediaTypeOK' /\ CachedRouterLive'
    BY <1>1, JoinStep
  <1>2. ASSUME NEW s \in Sockets, Leave(s) \/ ClientClose(s) \/ CloseEvent(s)
        PROVE  [RegistryNext]_regVars /\ LoopTypeOK' /\ MediaTypeOK' /\ CachedRouterLive'
    BY <1>2, LeaveStarts, ClientCloseStep, CloseEventStep
  <1>3. ASSUME NEW s \in Sockets, AskRouter(s, "caps") \/ CreateWebRtcTransport(s)
        PROVE  Unmoved /\ LoopTypeOK'
    BY <1>3, AskRouterStep, CreateTransportStep
  <1>4. ASSUME NEW s \in Sockets, NEW t \in held, Produce(s, t)
        PROVE  Unmoved /\ LoopTypeOK'
    BY <1>4, ProduceStep
  <1>5. ASSUME NEW s \in Sockets, NEW t \in held, NEW m \in open, Consume(s, t, m)
        PROVE  Unmoved /\ LoopTypeOK'
    BY <1>5, ConsumeStep
  <1>6. ASSUME NEW w \in Workers, Reply(w)
        PROVE  [RegistryNext]_regVars /\ LoopTypeOK' /\ MediaTypeOK' /\ CachedRouterLive'
    BY <1>6, RouterCreatedStep, TransportCreatedStep, ProducedStep, ConsumedStep DEF Reply
  <1>7. ASSUME Unmoved, LoopTypeOK'
        PROVE  [RegistryNext]_regVars /\ LoopTypeOK' /\ MediaTypeOK' /\ CachedRouterLive'
    BY <1>7, UnmovedKeeps
  <1> QED
    BY <1>1, <1>2, <1>3, <1>4, <1>5, <1>6, <1>7, RunMicroStep, PostRoomStep, ServerStutter
    DEF Next, GetRouterRtpCapabilities

LEMMA ServerStepInv == ServerInv /\ [Next]_vars => ServerInv'
  BY ServerStep, RegistryStepInv DEF ServerInv

\* Whatever the clients send, and however the chunks, continuations, worker
\* answers and disconnects interleave, the registry's maps agree, the queues
\* hold what they should and every cached router is open.
THEOREM ServerInvariance == Spec => []ServerInv
<1> QED BY ServerInit, ServerStepInv, PTL DEF Spec

\* The signalling server's variables keep their types.
THEOREM SignalingTypes == Spec => []SignalingTypeOK
<1>1. ServerInv => SignalingTypeOK
  BY TypesSplit DEF ServerInv, RegistryInv
<1> QED BY <1>1, ServerInvariance, PTL

\* RouterManager never hands out a closed router, nor one of another room.
THEOREM CachedRoutersLive == Spec => []CachedRouterLive
<1>1. ServerInv => CachedRouterLive
  BY DEF ServerInv
<1> QED BY <1>1, ServerInvariance, PTL

\* The handlers of the server use RoomService as the registry models it: each
\* step is one of its calls, so its theorems hold of the server.
THEOREM ServerImplementsRegistry == Spec => RegistrySpec
<1>1. ServerInv /\ [Next]_vars => [RegistryNext]_regVars
  BY ServerStep
<1>2. Init => RegistryInit
  BY DEF Init
<1> QED BY <1>1, <1>2, ServerInvariance, PTL DEF Spec, RegistrySpec

-----------------------------------------------------------------------------
(* The lifetime of a router. *)

\* Only the router that the map holds for an emptied room is closed, and the
\* map holds for a room a router of that room.
LEMMA ClosedRouterIsOfRoom ==
    ASSUME MediaTypeOK, CachedRouterLive, NEW r \in Rooms, NEW ms, CloseMediaAndRouter(ms, r),
           NEW k \in routers, k \notin routers'
    PROVE  k.room = r
  <1>1. k = routerOf[r]
    BY DEF CloseMediaAndRouter
  <1>2. k # None
    BY RouterAssumption DEF MediaTypeOK
  <1> QED  BY <1>1, <1>2 DEF CachedRouterLive

LEMMA LeaveClosesEmptyRoom ==
    ASSUME ServerInv, RunMicro, NEW k \in routers, k \notin routers'
    PROVE  members'[k.room] = {}
  <1> DEFINE c == Head(micro)
  <1>1. c \in LeaveStep \cup TransportStep
    BY HeadTailProperties DEF RunMicro, ServerInv, LoopTypeOK
  <1>2. c.step = "leave" /\ LeaveTail(c.peer, c.room)
    BY DEF RunMicro, TransportTail, mediaVars
  <1>3. members'[c.room] = {} /\ CloseMediaAndRouter({}, c.room)
    BY <1>2 DEF LeaveTail, mediaVars
  <1>4. c.room \in Rooms
    BY <1>1, <1>2 DEF LeaveStep, TransportStep
  <1>5. k.room = c.room
    <2> HIDE DEF c
    <2> QED  BY <1>3, <1>4, ClosedRouterIsOfRoom DEF ServerInv
  <1> QED  BY <1>3, <1>5

LEMMA DisconnectClosesEmptyRoom ==
    ASSUME ServerInv, NEW s \in Sockets, CloseEvent(s), NEW k \in routers, k \notin routers'
    PROVE  members'[k.room] = {}
  <1> DEFINE r == roomOf[socketToPeer[s]]
  <1>1. HasSession(s) /\ members'[r] = {} /\ CloseMediaAndRouter(HeldBy(socketToPeer[s]), r)
    BY DEF CloseEvent, mediaVars
  <1>2. r \in Rooms
    BY <1>1, SessionFound DEF ServerInv
  <1>3. k.room = r
    <2> HIDE DEF r
    <2> QED  BY <1>1, <1>2, ClosedRouterIsOfRoom DEF ServerInv
  <1> QED  BY <1>1, <1>3

\* No other step closes a router.
LEMMA RoutersKept ==
    ASSUME [Next]_vars, ~RunMicro, ~ \E s \in Sockets : CloseEvent(s)
    PROVE  routers \subseteq routers'
  BY DEF Next, vars, mediaVars, Join, Leave, ClientClose, GetRouterRtpCapabilities,
     CreateWebRtcTransport, AskRouter, Produce, Consume, Reply, RouterCreated, TransportCreated,
     Produced, Consumed, PostRoom

\* The room whose router is closed is empty after the step that closes it,
\* in whatever order the leaves, the disconnects and the worker's late answers
\* come.
THEOREM RoutersOutlive == Spec => RoutersOutliveMembers
<1>1. ASSUME ServerInv, [Next]_vars
      PROVE  \A k \in routers \ routers' : members'[k.room] = {}
  <2>1. CASE RunMicro
    BY <1>1, <2>1, LeaveClosesEmptyRoom
  <2>2. CASE \E s \in Sockets : CloseEvent(s)
    BY <1>1, <2>2, DisconnectClosesEmptyRoom
  <2> QED  BY <1>1, <2>1, <2>2, RoutersKept
<1>2. ServerInv /\ [Next]_vars => [\A k \in routers \ routers' : members'[k.room] = {}]_vars
  BY <1>1
<1> QED BY <1>2, ServerInvariance, PTL DEF Spec, RoutersOutliveMembers

-----------------------------------------------------------------------------
(***************************************************************************)
(* Who is in a room, as the clients and the close handler see it.          *)
(*                                                                         *)
(* A leave takes its peer out of the room only in a continuation, after    *)
(* the event that asked for it: in between, the peer is still a member     *)
(* whose own client has left.  The invariant therefore says which peers    *)
(* are leaving, that all of them are of the socket whose chunk is being    *)
(* delivered, and that every other session is the one its socket maps to.  *)
(* With that the roster of a client in a room is what the server holds,    *)
(* and a close handler, which runs between chunks, finds every session of  *)
(* its socket.                                                             *)
(*                                                                         *)
(* Clients are disciplined from here on: they join out of a room and leave *)
(* in one.  The dispatcher does not enforce it.  A client that joins twice *)
(* leaves its first session behind, and none of the theorems of this       *)
(* section would hold.                                                     *)
(***************************************************************************)

\* The leaves that are under way, and the peers they are about.
Leaves == {c \in Range(micro) : c.step = "leave"}
Leaving(p) == \E c \in Leaves : c.peer = p

\* The leaves in the microtask queue are those of the socket whose chunk is
\* being delivered, and the peer of a leave is in the room it names or gone.
LeavesOfTurn ==
    \A c \in Leaves : /\ socketOf[c.peer] # None
                      /\ turn # None => socketOf[c.peer] = turn
                      /\ roomOf[c.peer] \in {c.room, None}

\* A registered session is the one its socket maps to, or is leaving.
CurrentOrLeaving == \A p \in sessions : socketToPeer[socketOf[p]] = p \/ Leaving(p)

\* The client of a session that stays believes to be in a room.
StayersInRoom ==
    \A p \in sessions : conn[socketOf[p]] = "open" /\ ~Leaving(p) => roster[socketOf[p]] # {}

\* RosterAgreement, and the peer of a client in a room is not leaving.
RosterExact ==
    \A s \in Sockets : conn[s] = "open" /\ roster[s] # {} =>
        /\ HasSession(s)
        /\ ~Leaving(socketToPeer[s])
        /\ roster[s] = members[roomOf[socketToPeer[s]]]

RosterInv == LeavesOfTurn /\ CurrentOrLeaving /\ StayersInRoom /\ RosterExact /\ NoGhosts

-----------------------------------------------------------------------------
\* An empty queue has no elements.
LEMMA RangeOfEmpty == Range(<<>>) = {}
  BY DEF Range

\* Taking the first element of a queue removes at most that one.
LEMMA RangeOfTail ==
    ASSUME NEW S, NEW q \in Seq(S), q # <<>>
    PROVE  Range(q) = {Head(q)} \cup Range(Tail(q))
  <1>1. /\ Tail(q) \in Seq(S) /\ Len(Tail(q)) = Len(q) - 1
        /\ \A i \in 1 .. Len(Tail(q)) : Tail(q)[i] = q[i+1]
    BY HeadTailProperties
  <1>2. Len(q) \in Nat \ {0} /\ DOMAIN q = 1 .. Len(q)
    BY EmptySeq, LenProperties
  <1>3. DOMAIN Tail(q) = 1 .. Len(q) - 1
    BY <1>1, LenProperties
  <1>4. Head(q) = q[1]
    OBVIOUS
  <1>5. ASSUME NEW x \in Range(q) PROVE x \in {Head(q)} \cup Range(Tail(q))
    <2>1. PICK i \in 1 .. Len(q) : x = q[i]
      BY <1>2, <1>5 DEF Range
    <2>2. CASE i = 1
      BY <2>1, <2>2, <1>4
    <2>3. CASE i # 1
      <3>1. i - 1 \in 1 .. Len(q) - 1 /\ (i - 1) + 1 = i
        BY <1>2, <2>3
      <3>2. Tail(q)[i - 1] = q[i]
        BY <3>1, <1>1
      <3> QED  BY <3>1, <3>2, <2>1, <1>3 DEF Range
    <2> QED  BY <2>2, <2>3
  <1>6. ASSUME NEW x \in Range(Tail(q)) PROVE x \in Range(q)
    <2>1. PICK i \in 1 .. Len(q) - 1 : x = Tail(q)[i]
      BY <1>3, <1>6 DEF Range
    <2>2. i + 1 \in 1 .. Len(q) /\ x = q[i + 1]
      BY <2>1, <1>1, <1>2
    <2> QED  BY <2>2, <1>2 DEF Range
  <1>7. Head(q) \in Range(q)
    BY <1>2, <1>4 DEF Range
  <1> QED  BY <1>5, <1>6, <1>7

\* Appending adds one element.
LEMMA RangeOfAppend ==
    ASSUME NEW S, NEW q \in Seq(S), NEW e \in S
    PROVE  Range(Append(q, e)) = Range(q) \cup {e}
  <1>1. Append(q, e) = q \o <<e>>
    BY AppendIsConcat
  <1>2. <<e>> \in Seq(S)
    OBVIOUS
  <1>3. Range(<<e>>) = {e}
    BY DEF Range
  <1>4. Range(q \o <<e>>) = Range(q) \cup Range(<<e>>)
    BY <1>2, RangeConcatenation
  <1> QED  BY <1>1, <1>3, <1>4

\* What a frame's handler leaves behind joins the queue; the queue was empty
\* or left behind by earlier frames of the same chunk.
LEMMA DeliveredRange ==
    ASSUME LoopTypeOK, NEW s \in Sockets, NEW cs \in Seq(LeaveStep \cup TransportStep),
           CanDeliver(s), Delivered(s, cs)
    PROVE  /\ Range(micro') = Range(micro) \cup Range(cs)
           /\ turn' \in {None, s}
           /\ Range(micro) # {} => turn = s
  <1>1. Range(micro \o cs) = Range(micro) \cup Range(cs)
    BY RangeConcatenation DEF LoopTypeOK
  <1> QED  BY <1>1, RangeOfEmpty DEF Delivered, CanDeliver

\* What is in the microtask queue, and what the leaves among it are.
LEMMA MicroTyped ==
    ASSUME LoopTypeOK
    PROVE  /\ \A c \in Range(micro) : c \in LeaveStep \cup TransportStep
           /\ \A c \in Leaves : c \in LeaveStep
  <1>1. \A c \in Range(micro) : c \in LeaveStep \cup TransportStep
    BY RangeOfSeq DEF LoopTypeOK
  <1> QED  BY <1>1 DEF Leaves, LeaveStep, TransportStep

\* Steps that are about neither rooms nor connections.
LEMMA RosterQuiet ==
    ASSUME RosterInv, Leaves' = Leaves, LeavesOfTurn',
           UNCHANGED <<members, sessions, roomOf, socketOf, socketToPeer, conn, roster>>
    PROVE  RosterInv'
  BY DEF RosterInv, Leaving, CurrentOrLeaving, StayersInRoom, RosterExact, NoGhosts, HasSession, Registered

\* Joining: the socket had no session that stays, and the members of the room
\* that hear of the new one are the sockets whose clients are in that room.
LEMMA JoinRoster ==
    ASSUME Disciplined, ServerInv, ServerInv', RosterInv,
           NEW s \in Sockets, NEW r \in Rooms, NEW p \in Peers, Join(s, r, p)
    PROVE  RosterInv'
  <1>1. /\ CanDeliver(s) /\ roster[s] = {} /\ conn[s] = "open"
        /\ JoinRoom(r, s, p) /\ TellJoined(s, p, members'[r])
        /\ Delivered(s, <<>>) /\ conn' = conn
    BY DEF Join, CanDeliver
  <1>2. /\ Range(micro') = Range(micro) /\ turn' \in {None, s}
        /\ Range(micro) # {} => turn = s
    BY <1>1, DeliveredRange, RangeOfEmpty, EmptySeq DEF ServerInv
  <1>3. Leaves' = Leaves /\ \A c \in Leaves : turn = s
    BY <1>2 DEF Leaves
  <1>4. \A q \in Peers : Leaving(q)' <=> Leaving(q)
    BY <1>3 DEF Leaving
  <1>5. /\ p \notin sessions /\ socketOf[p] = None
        /\ sessions' = sessions \cup {p}
        /\ socketOf' = [socketOf EXCEPT ![p] = s]
        /\ roomOf' = [roomOf EXCEPT ![p] = r]
        /\ socketToPeer' = [socketToPeer EXCEPT ![s] = p]
        /\ members' = [members EXCEPT ![r] = @ \cup {p}]
    BY <1>1 DEF JoinRoom, ServerInv, RegistryInv, SessionsWellFormed
  <1>6. /\ socketOf \in [Peers -> Sockets \cup {None}]
        /\ roomOf \in [Peers -> Rooms \cup {None}]
        /\ socketToPeer \in [Sockets -> Peers \cup {None}]
        /\ members \in [Rooms -> SUBSET Peers] /\ sessions \subseteq Peers
    BY DEF ServerInv, RegistryInv, RegistryTypeOK
  <1>7. \A c \in Leaves : c.peer \in Peers /\ c.peer # p
    BY <1>5, MicroTyped DEF ServerInv, LeaveStep, RosterInv, LeavesOfTurn
  <1>8. ~Leaving(p)
    BY <1>7 DEF Leaving
  <1>9. LeavesOfTurn'
    <2> SUFFICES ASSUME NEW c \in Leaves
                 PROVE  /\ socketOf'[c.peer] # None
                        /\ turn' # None => socketOf'[c.peer] = turn'
                        /\ roomOf'[c.peer] \in {c.room, None}
      BY <1>3 DEF LeavesOfTurn
    <2>1. socketOf'[c.peer] = socketOf[c.peer] /\ roomOf'[c.peer] = roomOf[c.peer]
      BY <1>5, <1>6, <1>7
    <2> QED  BY <2>1, <1>2, <1>3, RegistryAssumption DEF RosterInv, LeavesOfTurn
  <1>10. \A q \in sessions : socketOf[q] = s => Leaving(q)
    BY <1>1 DEF RosterInv, StayersInRoom
  <1>11. CurrentOrLeaving'
    <2> SUFFICES ASSUME NEW q \in sessions', ~Leaving(q)'
                 PROVE  socketToPeer'[socketOf'[q]] = q
      BY DEF CurrentOrLeaving
    <2>1. CASE q = p
      BY <2>1, <1>5, <1>6
    <2>2. CASE q # p
      <3>1. q \in sessions /\ q \in Peers /\ ~Leaving(q)
        BY <2>2, <1>4, <1>5, <1>6
      <3>2. socketOf[q] # s /\ socketToPeer[socketOf[q]] = q /\ socketOf[q] \in Sockets
        BY <3>1, <1>6, <1>10 DEF RosterInv, CurrentOrLeaving, ServerInv, RegistryInv, SessionsWellFormed
      <3> QED  BY <3>1, <3>2, <2>2, <1>5, <1>6
    <2> QED  BY <2>1, <2>2
  <1>12. RosterExact'
    <2> SUFFICES ASSUME NEW q \in Sockets, conn[q] = "open", roster'[q] # {}
                 PROVE  /\ HasSession(q)'
                        /\ ~Leaving(socketToPeer[q])'
                        /\ roster'[q] = members'[roomOf'[socketToPeer'[q]]]
      BY <1>1 DEF RosterExact
    <2>1. CASE q = s
      <3>1. socketToPeer'[q] = p /\ roomOf'[p] = r /\ p \in sessions'
        BY <2>1, <1>5, <1>6
      <3>2. roster'[q] = members'[r]
        BY <2>1, <1>1 DEF TellJoined
      <3>3. HasSession(q)'
        BY <3>1, RegistryAssumption DEF HasSession, Registered
      <3> QED  BY <3>1, <3>2, <3>3, <1>4, <1>8
    <2>2. CASE q # s
      <3> DEFINE x == socketToPeer[q]
      <3>1. roster[q] # {}
        BY <2>2, <1>1 DEF TellJoined, Listeners
      <3>2. HasSession(q) /\ ~Leaving(x) /\ roster[q] = members[roomOf[x]]
        BY <3>1 DEF RosterInv, RosterExact
      <3>3. x \in sessions /\ x \in Peers /\ roomOf[x] \in Rooms /\ socketOf[x] = q /\ x # p
        BY <3>2, <1>5, SessionFound DEF ServerInv, RegistryInv, SessionsWellFormed, HasSession
      <3>4. socketToPeer'[q] = x /\ x \in sessions' /\ roomOf'[x] = roomOf[x]
        BY <3>3, <2>2, <1>5, <1>6
      <3>5. HasSession(q)' /\ ~Leaving(x)'
        BY <3>2, <3>3, <3>4, <1>4 DEF HasSession, Registered
      <3>6. CASE roomOf[x] = r
        <4>1. x \in members'[r] \ {p}
          BY <3>3, <3>6, <1>5, <1>6 DEF ServerInv, RegistryInv, MembershipAgrees
        <4>2. q \in Listeners(members'[r] \ {p})
          BY <4>1, <3>1, <3>3 DEF Listeners
        <4>3. roster'[q] = roster[q] \cup {p}
          BY <4>2, <2>2, <1>1 DEF TellJoined
        <4>4. members'[r] = members[r] \cup {p}
          BY <1>5, <1>6
        <4> QED  BY <4>3, <4>4, <3>2, <3>4, <3>5, <3>6
      <3>7. CASE roomOf[x] # r
        <4>1. ASSUME q \in Listeners(members'[r] \ {p}) PROVE FALSE
          <5>1. PICK y \in members'[r] \ {p} : socketOf[y] = q
            BY <4>1 DEF Listeners
          <5>2. y \in members[r] /\ y \in Peers /\ y \in sessions /\ roomOf[y] = r
            BY <5>1, <1>5, <1>6 DEF ServerInv, RegistryInv, MembershipAgrees
          <5>3. y # x
            BY <5>2, <3>7
          <5>4. Leaving(y)
            BY <5>1, <5>2, <5>3 DEF RosterInv, CurrentOrLeaving
          <5>5. PICK c \in Leaves : c.peer = y
            BY <5>4 DEF Leaving
          <5>6. turn = s /\ socketOf[y] = turn
            BY <5>5, <1>3, RegistryAssumption DEF RosterInv, LeavesOfTurn
          <5> QED  BY <5>6, <5>1, <2>2
        <4>2. roster'[q] = roster[q]
          BY <4>1, <2>2, <1>1 DEF TellJoined
        <4>3. members'[roomOf[x]] = members[roomOf[x]]
          BY <3>7, <1>5, <1>6
        <4> QED  BY <4>2, <4>3, <3>2, <3>4, <3>5
      <3> QED  BY <3>6, <3>7
    <2> QED  BY <2>1, <2>2
  <1>13. StayersInRoom'
    <2> SUFFICES ASSUME NEW q \in sessions', conn[socketOf'[q]] = "open", ~Leaving(q)'
                 PROVE  roster'[socketOf'[q]] # {}
      BY <1>1 DEF StayersInRoom
    <2>1. CASE q = p
      <3>1. socketOf'[q] = s /\ p \in members'[r]
        BY <2>1, <1>5, <1>6
      <3> QED  BY <3>1, <1>1 DEF TellJoined
    <2>2. CASE q # p
      <3>1. q \in sessions /\ q \in Peers /\ ~Leaving(q) /\ socketOf'[q] = socketOf[q]
        BY <2>2, <1>4, <1>5, <1>6
      <3>2. roster[socketOf[q]] # {} /\ socketOf[q] # s /\ socketOf[q] \in Sockets
        BY <3>1, <1>6, <1>10 DEF RosterInv, StayersInRoom, ServerInv, RegistryInv, SessionsWellFormed
      <3> QED  BY <3>1, <3>2, <1>1 DEF TellJoined
    <2> QED  BY <2>1, <2>2
  <1>14. NoGhosts'
    <2> SUFFICES ASSUME NEW q \in sessions' PROVE conn[socketOf'[q]] # "closed"
      BY <1>1 DEF NoGhosts
    <2> QED  BY <1>1, <1>5, <1>6 DEF RosterInv, NoGhosts
  <1> QED  BY <1>9, <1>11, <1>12, <1>13, <1>14 DEF RosterInv

\* What leavePeer does, whether the peer is still registered or not.
LEMMA PeerRemoved ==
    ASSUME RegistryInv, NEW p \in Peers, LeavePeer(p)
    PROVE  /\ sessions' = sessions \ {p}
           /\ \A q \in Rooms : members'[q] = members[q] \ {p}
           /\ \A q \in Peers \ {p} : roomOf'[q] = roomOf[q]
           /\ roomOf'[p] \in {roomOf[p], None}
           /\ UNCHANGED <<socketOf, socketToPeer>>
  <1>1. CASE RemovePeer(p)
    <2>1. p \in sessions /\ roomOf[p] \in Rooms
      BY <1>1 DEF RemovePeer, Registered, RegistryInv, RegistryTypeOK
    <2>2. \A q \in Rooms : p \in members[q] => q = roomOf[p] /\ q \in rooms
      BY DEF RegistryInv, MembershipAgrees, OccupiedRoomsListed
    <2>3. \A q \in Rooms : members'[q] = members[q] \ {p}
      BY <1>1, <2>1, <2>2 DEF RemovePeer, RegistryInv, RegistryTypeOK
    <2> QED  BY <1>1, <2>3 DEF RemovePeer, RegistryInv, RegistryTypeOK
  <1>2. CASE ~Registered(p) /\ UNCHANGED regVars
    <2>1. p \notin sessions
      BY <1>2 DEF Registered, RegistryInv, SessionsWellFormed
    <2>2. \A q \in Rooms : p \notin members[q]
      BY <2>1 DEF RegistryInv, MembershipAgrees
    <2> QED  BY <1>2, <2>1, <2>2 DEF regVars
  <1> QED  BY <1>1, <1>2 DEF LeavePeer

\* When a peer goes, the clients that stay in its room lose it from their
\* rosters and nobody else's roster changes.
LEMMA DepartureTold ==
    ASSUME ServerInv, RosterInv, NEW p \in Peers, NEW r \in Rooms, LeavePeer(p),
           roomOf[p] \in {r, None},
           \/ members'[r] = {} /\ roster' = roster
           \/ TellLeft(p, members'[r]),
           NEW q \in Sockets, conn[q] = "open", roster[q] # {}, socketToPeer[q] # p
    PROVE  roster'[q] = members'[roomOf[socketToPeer[q]]] /\ roster'[q] # {}
  <1> DEFINE x == socketToPeer[q]
  <1>1. HasSession(q) /\ roster[q] = members[roomOf[x]]
    BY DEF RosterInv, RosterExact
  <1>2. x \in sessions /\ x \in Peers /\ roomOf[x] \in Rooms /\ socketOf[x] = q
    BY <1>1, SessionFound DEF ServerInv, RegistryInv, SessionsWellFormed, HasSession
  <1>3. \A y \in Rooms : members'[y] = members[y] \ {p}
    BY PeerRemoved DEF ServerInv
  <1>4. x \in members'[roomOf[x]]
    BY <1>2, <1>3 DEF ServerInv, RegistryInv, MembershipAgrees
  <1>5. roster'[q] = members[roomOf[x]] \ {p}
    <2>1. CASE roomOf[x] = r
      <3>1. TellLeft(p, members'[r])
        BY <1>4, <2>1
      <3>2. q \in Listeners(members'[r])
        BY <1>2, <1>4, <2>1 DEF Listeners
      <3> QED  BY <1>1, <3>1, <3>2 DEF TellLeft
    <2>2. CASE roomOf[x] # r
      <3>1. p \notin members[roomOf[x]]
        BY <1>2, <2>2, RegistryAssumption DEF ServerInv, RegistryInv, MembershipAgrees
      <3>2. roster'[q] \in {roster[q], roster[q] \ {p}}
        BY DEF TellLeft
      <3> QED  BY <1>1, <3>1, <3>2
    <2> QED  BY <2>1, <2>2
  <1> QED  BY <1>2, <1>3, <1>4, <1>5

\* Nobody joins a roster when a peer goes.
LEMMA DepartureShrinks ==
    ASSUME NEW p, NEW ps, roster' = roster \/ TellLeft(p, ps)
    PROVE  \A q \in Sockets : roster'[q] \subseteq roster[q]
  BY DEF TellLeft

-----------------------------------------------------------------------------
\* leaveRoom: the peer is leaving from now on, and its client is in no room.
LEMMA LeaveRoster ==
    ASSUME ServerInv, RosterInv, NEW s \in Sockets, Leave(s)
    PROVE  RosterInv'
  <1> DEFINE p == socketToPeer[s]
             c == [step |-> "leave", peer |-> p, room |-> roomOf[p]]
  <1>1. /\ CanDeliver(s) /\ HasSession(s) /\ Delivered(s, <<c>>) /\ UNCHANGED <<regVars, conn>>
        /\ roster' = [roster EXCEPT ![s] = {}]
    BY DEF Leave
  <1>2. p \in Peers /\ roomOf[p] \in Rooms /\ p \in sessions /\ socketOf[p] = s
    BY <1>1, SessionFound DEF ServerInv, RegistryInv, SessionsWellFormed, HasSession
  <1>3. <<c>> \in Seq(LeaveStep \cup TransportStep)
    BY <1>2 DEF LeaveStep
  <1>4. c.step = "leave" /\ c.peer = p /\ c.room = roomOf[p]
    OBVIOUS
  <1> HIDE DEF c
  <1>5. /\ Range(micro') = Range(micro) \cup Range(<<c>>) /\ turn' \in {None, s}
        /\ Range(micro) # {} => turn = s
    BY <1>1, <1>3, DeliveredRange DEF ServerInv
  <1>6. Range(<<c>>) = {c}
    BY DEF Range
  <1>7. Leaves' = Leaves \cup {c} /\ \A d \in Leaves : turn = s
    BY <1>4, <1>5, <1>6 DEF Leaves
  <1>8. \A q : Leaving(q)' <=> Leaving(q) \/ q = p
    BY <1>4, <1>7 DEF Leaving
  <1>9. LeavesOfTurn'
    <2> SUFFICES ASSUME NEW d \in Leaves \cup {c}
                 PROVE  /\ socketOf[d.peer] # None
                        /\ turn' # None => socketOf[d.peer] = turn'
                        /\ roomOf[d.peer] \in {d.room, None}
      BY <1>1, <1>7 DEF LeavesOfTurn, regVars
    <2>1. CASE d = c
      BY <2>1, <1>2, <1>4, <1>5, RegistryAssumption
    <2>2. CASE d \in Leaves
      BY <2>2, <1>5, <1>7, RegistryAssumption DEF RosterInv, LeavesOfTurn
    <2> QED  BY <2>1, <2>2
  <1>10. CurrentOrLeaving'
    BY <1>1, <1>8 DEF RosterInv, CurrentOrLeaving, regVars
  <1>11. StayersInRoom'
    <2> SUFFICES ASSUME NEW q \in sessions, conn[socketOf[q]] = "open", ~Leaving(q)'
                 PROVE  roster'[socketOf[q]] # {}
      BY <1>1 DEF StayersInRoom, regVars
    <2>1. ~Leaving(q) /\ q # p
      BY <1>8
    <2>2. socketToPeer[socketOf[q]] = q /\ roster[socketOf[q]] # {}
      BY <2>1 DEF RosterInv, CurrentOrLeaving, StayersInRoom
    <2>3. socketOf[q] # s
      BY <2>1, <2>2
    <2>4. socketOf[q] \in Sockets
      BY DEF ServerInv, RegistryInv, RegistryTypeOK, SessionsWellFormed
    <2> QED  BY <1>1, <2>2, <2>3, <2>4 DEF ServerInv, MediaTypeOK
  <1>12. RosterExact'
    <2> SUFFICES ASSUME NEW q \in Sockets, conn[q] = "open", roster'[q] # {}
                 PROVE  /\ HasSession(q) /\ ~Leaving(socketToPeer[q])'
                        /\ roster'[q] = members[roomOf[socketToPeer[q]]]
      BY <1>1 DEF RosterExact, HasSession, Registered, regVars
    <2>1. q # s /\ roster'[q] = roster[q]
      BY <1>1 DEF ServerInv, MediaTypeOK
    <2>2. HasSession(q) /\ ~Leaving(socketToPeer[q]) /\ roster[q] = members[roomOf[socketToPeer[q]]]
      BY <2>1 DEF RosterInv, RosterExact
    <2>3. socketOf[socketToPeer[q]] = q
      BY <2>2 DEF ServerInv, RegistryInv, SessionsWellFormed, HasSession
    <2>4. socketToPeer[q] # p
      BY <1>2, <2>1, <2>3
    <2>5. socketToPeer' = socketToPeer
      BY <1>1 DEF regVars
    <2> QED  BY <2>1, <2>2, <2>4, <2>5, <1>8
  <1>13. NoGhosts'
    BY <1>1 DEF RosterInv, NoGhosts, regVars
  <1> QED  BY <1>9, <1>10, <1>11, <1>12, <1>13 DEF RosterInv

\* The rest of a leave, with which the peer is gone and the others are told, or
\* the rest of a transport request, which is not about rooms.
LEMMA RunMicroRoster ==
    ASSUME ServerInv, RosterInv, RunMicro
    PROVE  RosterInv'
  <1> DEFINE c == Head(micro)
  <1>1. micro # <<>> /\ micro' = Tail(micro) /\ turn' = None /\ conn' = conn
    BY DEF RunMicro
  <1>2. Range(micro) = {c} \cup Range(micro')
    BY <1>1, RangeOfTail DEF ServerInv, LoopTypeOK
  <1>3. Leaves' \subseteq Leaves /\ \A d \in Leaves : d = c \/ d \in Leaves'
    BY <1>2 DEF Leaves
  <1> HIDE DEF c
  <1>4. CASE c.step = "transport" /\ TransportTail(c)
    <2>1. UNCHANGED <<members, sessions, roomOf, socketOf, socketToPeer, roster>>
      BY <1>4 DEF TransportTail, regVars, clientVars
    <2>2. Leaves' = Leaves
      BY <1>2, <1>4 DEF Leaves
    <2>3. LeavesOfTurn'
      BY <1>1, <2>1, <2>2 DEF RosterInv, LeavesOfTurn
    <2> QED  BY <1>1, <2>1, <2>2, <2>3, RosterQuiet
  <1>5. CASE c.step = "leave" /\ LeaveTail(c.peer, c.room)
    <2> DEFINE p == c.peer
               r == c.room
    <2>1. c \in Leaves /\ p \in Peers /\ r \in Rooms
      BY <1>2, <1>5, MicroTyped DEF Leaves, ServerInv, LeaveStep
    <2>2. roomOf[p] \in {r, None} /\ Leaving(p)
      BY <2>1 DEF RosterInv, LeavesOfTurn, Leaving
    <2>3. LeavePeer(p) /\ ((members'[r] = {} /\ roster' = roster) \/ TellLeft(p, members'[r]))
      BY <1>5 DEF LeaveTail
    <2> HIDE DEF p, r
    <2>4. /\ sessions' = sessions \ {p} /\ UNCHANGED <<socketOf, socketToPeer>>
          /\ \A q \in Peers \ {p} : roomOf'[q] = roomOf[q]
          /\ roomOf'[p] \in {roomOf[p], None}
      BY <2>1, <2>3, PeerRemoved DEF ServerInv
    <2>5. \A q : q # p => (Leaving(q)' <=> Leaving(q))
      BY <1>3 DEF Leaving, p
    <2>6. sessions \subseteq Peers
      BY DEF ServerInv, RegistryInv, RegistryTypeOK
    <2>7. LeavesOfTurn'
      <3> SUFFICES ASSUME NEW d \in Leaves
                   PROVE  socketOf[d.peer] # None /\ roomOf'[d.peer] \in {d.room, None}
        BY <1>1, <1>3, <2>4 DEF LeavesOfTurn
      <3>1. d.peer \in Peers
        BY MicroTyped DEF ServerInv, LeaveStep
      <3> QED  BY <3>1, <2>4 DEF RosterInv, LeavesOfTurn
    <2>8. CurrentOrLeaving'
      BY <2>4, <2>5 DEF RosterInv, CurrentOrLeaving
    <2>9. \A q \in Sockets : roster'[q] \subseteq roster[q]
      BY <2>3, DepartureShrinks
    <2>10. RosterExact'
      <3> SUFFICES ASSUME NEW q \in Sockets, conn[q] = "open", roster'[q] # {}
                   PROVE  /\ HasSession(q)' /\ ~Leaving(socketToPeer[q])'
                          /\ roster'[q] = members'[roomOf'[socketToPeer[q]]]
        BY <1>1, <2>4 DEF RosterExact
      <3>1. roster[q] # {}
        BY <2>9
      <3>2. HasSession(q) /\ ~Leaving(socketToPeer[q]) /\ socketToPeer[q] # p
        BY <3>1, <2>2 DEF RosterInv, RosterExact
      <3>3. roster'[q] = members'[roomOf[socketToPeer[q]]]
        BY <3>1, <3>2, <2>1, <2>2, <2>3, DepartureTold
      <3>4. socketToPeer[q] \in sessions
        BY <3>2 DEF HasSession, Registered
      <3>5. roomOf'[socketToPeer[q]] = roomOf[socketToPeer[q]]
        BY <3>2, <3>4, <2>4, <2>6
      <3> QED  BY <3>2, <3>3, <3>4, <3>5, <2>4, <2>5 DEF HasSession, Registered
    <2>11. StayersInRoom'
      <3> SUFFICES ASSUME NEW q \in sessions, q # p, conn[socketOf[q]] = "open", ~Leaving(q)
                   PROVE  roster'[socketOf[q]] # {}
        BY <1>1, <2>4, <2>5 DEF StayersInRoom
      <3>1. roster[socketOf[q]] # {} /\ socketToPeer[socketOf[q]] = q
        BY DEF RosterInv, StayersInRoom, CurrentOrLeaving
      <3>2. socketOf[q] \in Sockets
        BY DEF ServerInv, RegistryInv, RegistryTypeOK, SessionsWellFormed
      <3> QED  BY <3>1, <3>2, <2>1, <2>2, <2>3, DepartureTold
    <2>12. NoGhosts'
      BY <1>1, <2>4 DEF RosterInv, NoGhosts
    <2> QED  BY <2>7, <2>8, <2>10, <2>11, <2>12 DEF RosterInv
  <1> QED  BY <1>4, <1>5 DEF RunMicro, c

\* A client that closes its connection: its session stays, and what is left in
\* its rosters does not matter any more.
LEMMA ClientCloseRoster ==
    ASSUME ServerInv, RosterInv, NEW s \in Sockets, ClientClose(s)
    PROVE  RosterInv'
  <1>1. /\ conn' = [conn EXCEPT ![s] = "closing"] /\ roster' = [roster EXCEPT ![s] = {}]
        /\ conn[s] = "open"
        /\ UNCHANGED <<members, sessions, roomOf, socketOf, socketToPeer, turn, micro>>
    BY DEF ClientClose, regVars
  <1>2. conn \in [Sockets -> {"open", "closing", "closed"}] /\ roster \in [Sockets -> SUBSET Peers]
    BY DEF ServerInv, LoopTypeOK, MediaTypeOK
  <1>3. Leaves' = Leaves /\ \A q : Leaving(q)' <=> Leaving(q)
    BY <1>1 DEF Leaves, Leaving
  <1>4. \A q \in sessions : socketOf[q] \in Sockets
    BY DEF ServerInv, RegistryInv, RegistryTypeOK, SessionsWellFormed
  <1>5. LeavesOfTurn' /\ CurrentOrLeaving'
    BY <1>1, <1>3 DEF RosterInv, LeavesOfTurn, CurrentOrLeaving
  <1>6. StayersInRoom'
    BY <1>1, <1>2, <1>3, <1>4 DEF RosterInv, StayersInRoom
  <1>7. RosterExact'
    <2> SUFFICES ASSUME NEW q \in Sockets, conn'[q] = "open", roster'[q] # {}
                 PROVE  /\ HasSession(q) /\ ~Leaving(socketToPeer[q])
                        /\ roster'[q] = members[roomOf[socketToPeer[q]]]
      BY <1>1, <1>3 DEF RosterExact, HasSession, Registered
    <2>1. conn[q] = "open" /\ roster'[q] = roster[q]
      BY <1>1, <1>2
    <2> QED  BY <2>1 DEF RosterInv, RosterExact
  <1>8. NoGhosts'
    BY <1>1, <1>2, <1>4 DEF RosterInv, NoGhosts
  <1> QED  BY <1>5, <1>6, <1>7, <1>8 DEF RosterInv

\* The close handler finds the only session of its socket that is registered:
\* no leave is under way when it runs.
LEMMA CloseEventRoster ==
    ASSUME ServerInv, RosterInv, NEW s \in Sockets, CloseEvent(s)
    PROVE  RosterInv'
  <1> DEFINE p == socketToPeer[s]
  <1>1. /\ conn[s] = "closing" /\ micro = <<>> /\ conn' = [conn EXCEPT ![s] = "closed"]
        /\ LeaveBySocket(s) /\ UNCHANGED <<turn, micro>>
    BY DEF CloseEvent
  <1>2. Leaves = {} /\ Leaves' = {}
    BY <1>1, RangeOfEmpty DEF Leaves
  <1>3. \A q : ~Leaving(q) /\ ~Leaving(q)'
    BY <1>2 DEF Leaving
  <1>4. conn \in [Sockets -> {"open", "closing", "closed"}]
    BY DEF ServerInv, LoopTypeOK
  <1>5. \A q \in sessions : q \in Peers /\ socketOf[q] \in Sockets /\ socketToPeer[socketOf[q]] = q
    BY <1>3 DEF RosterInv, CurrentOrLeaving, ServerInv, RegistryInv, RegistryTypeOK, SessionsWellFormed
  <1>6. LeavesOfTurn'
    BY <1>2 DEF LeavesOfTurn
  <1>7. CASE ~HasSession(s) /\ roster' = roster
    <2>1. UNCHANGED regVars
      BY <1>1, <1>7 DEF LeaveBySocket, LeavePeer, RemovePeer, HasSession
    <2>2. \A q \in sessions : socketOf[q] # s
      BY <1>5, <1>7, RegistryAssumption DEF HasSession, Registered, ServerInv, RegistryInv, SessionsWellFormed, RegistryTypeOK
    <2>3. \A q \in sessions : conn'[socketOf[q]] = conn[socketOf[q]]
      BY <1>1, <1>4, <1>5, <2>2
    <2>4. CurrentOrLeaving' /\ StayersInRoom' /\ NoGhosts'
      BY <1>3, <1>5, <1>7, <2>1, <2>3 DEF RosterInv, CurrentOrLeaving, StayersInRoom, NoGhosts, regVars
    <2>5. RosterExact'
      <3> SUFFICES ASSUME NEW q \in Sockets, conn'[q] = "open", roster[q] # {}
                   PROVE  HasSession(q) /\ roster[q] = members[roomOf[socketToPeer[q]]]
        BY <1>3, <1>7, <2>1 DEF RosterExact, HasSession, Registered, regVars
      <3>1. conn[q] = "open"
        BY <1>1, <1>4
      <3> QED  BY <3>1 DEF RosterInv, RosterExact
    <2> QED  BY <1>6, <2>4, <2>5 DEF RosterInv
  <1>8. CASE HasSession(s) /\ ((members'[roomOf[p]] = {} /\ roster' = roster)
                               \/ TellLeft(p, members'[roomOf[p]]))
    <2> DEFINE r == roomOf[p]
    <2>1. p \in Peers /\ r \in Rooms /\ p \in sessions /\ LeavePeer(p)
      BY <1>1, <1>8, SessionFound DEF ServerInv, LeaveBySocket, HasSession
    <2>2. socketOf[p] = s
      BY <1>8 DEF ServerInv, RegistryInv, SessionsWellFormed, HasSession
    <2>3. r = roomOf[p] /\ ((members'[r] = {} /\ roster' = roster) \/ TellLeft(p, members'[r]))
      BY <1>8
    <2> HIDE DEF r
    <2>4. p \in Peers /\ socketToPeer[s] = p
      BY <2>1
    <2> HIDE DEF p
    <2>5. /\ sessions' = sessions \ {p} /\ UNCHANGED <<socketOf, socketToPeer>>
          /\ \A q \in Peers \ {p} : roomOf'[q] = roomOf[q]
      BY <2>1, PeerRemoved DEF ServerInv
    <2>6. \A q \in sessions' : q \in sessions /\ q # p /\ socketOf[q] # s
      BY <2>4, <2>5, <1>5
    <2>7. \A q \in sessions' : conn'[socketOf[q]] = conn[socketOf[q]]
      BY <1>1, <1>4, <1>5, <2>6
    <2>8. CurrentOrLeaving' /\ NoGhosts'
      BY <1>3, <1>5, <2>5, <2>6, <2>7 DEF RosterInv, CurrentOrLeaving, NoGhosts
    <2>9. StayersInRoom'
      <3> SUFFICES ASSUME NEW q \in sessions', conn'[socketOf[q]] = "open"
                   PROVE  roster'[socketOf[q]] # {}
        BY <2>5 DEF StayersInRoom
      <3>1. q \in sessions /\ q # p /\ conn[socketOf[q]] = "open"
        BY <2>6, <2>7
      <3>2. socketToPeer[socketOf[q]] = q /\ socketOf[q] \in Sockets
        BY <3>1, <1>5
      <3>3. roster[socketOf[q]] # {}
        BY <3>1, <1>3 DEF RosterInv, StayersInRoom
      <3> QED  BY <3>1, <3>2, <3>3, <2>1, <2>3, DepartureTold
    <2>10. RosterExact'
      <3> SUFFICES ASSUME NEW q \in Sockets, conn'[q] = "open", roster'[q] # {}
                   PROVE  HasSession(q)' /\ roster'[q] = members'[roomOf'[socketToPeer[q]]]
        BY <1>3, <2>5 DEF RosterExact
      <3>1. conn[q] = "open" /\ q # s
        BY <1>1, <1>4
      <3>2. roster[q] # {}
        BY <2>3, DepartureShrinks
      <3>3. HasSession(q)
        BY <3>1, <3>2 DEF RosterInv, RosterExact
      <3>4. socketToPeer[q] \in sessions /\ socketToPeer[q] \in Peers /\ socketOf[socketToPeer[q]] = q
        BY <3>3, SessionFound DEF ServerInv, RegistryInv, SessionsWellFormed, HasSession
      <3>5. socketToPeer[q] # p
        BY <3>1, <3>4, <2>2
      <3>6. roster'[q] = members'[roomOf[socketToPeer[q]]]
        BY <3>1, <3>2, <3>5, <2>1, <2>3, DepartureTold
      <3>7. roomOf'[socketToPeer[q]] = roomOf[socketToPeer[q]] /\ socketToPeer[q] \in sessions'
        BY <3>4, <3>5, <2>5
      <3> QED  BY <3>3, <3>6, <3>7, <2>5 DEF HasSession, Registered
    <2> QED  BY <1>6, <2>8, <2>9, <2>10 DEF RosterInv
  <1> QED  BY <1>7, <1>8 DEF CloseEvent

-----------------------------------------------------------------------------
\* Requests whose handlers leave no leave behind.
LEMMA DeliveredQuiet ==
    ASSUME ServerInv, RosterInv, NEW s \in Sockets, NEW cs \in Seq(TransportStep),
           CanDeliver(s), Delivered(s, cs), Unmoved
    PROVE  RosterInv'
  <1>1. cs \in Seq(LeaveStep \cup TransportStep)
    BY SeqMonotonic
  <1>2. /\ Range(micro') = Range(micro) \cup Range(cs) /\ turn' \in {None, s}
        /\ Range(micro) # {} => turn = s
    BY <1>1, DeliveredRange DEF ServerInv
  <1>3. \A c \in Range(cs) : c.step = "transport"
    <2>1. Range(cs) \in SUBSET TransportStep
      BY RangeOfSeq
    <2> QED  BY <2>1 DEF TransportStep
  <1>4. Leaves' = Leaves /\ \A c \in Leaves : turn = s
    BY <1>2, <1>3 DEF Leaves
  <1>5. UNCHANGED <<members, sessions, roomOf, socketOf, socketToPeer, conn, roster>>
    BY DEF Unmoved, regVars, clientVars
  <1>6. LeavesOfTurn'
    BY <1>2, <1>4, <1>5, RegistryAssumption DEF RosterInv, LeavesOfTurn
  <1> QED  BY <1>4, <1>5, <1>6, RosterQuiet

\* The media requests change no roster.
LEMMA RequestRoster ==
    ASSUME ServerInv, RosterInv, NEW s \in Sockets,
           \/ AskRouter(s, "caps") \/ CreateWebRtcTransport(s)
           \/ \E t \in held : Produce(s, t)
           \/ \E t \in held, m \in open : Consume(s, t, m)
    PROVE  RosterInv'
  <1> DEFINE p == socketToPeer[s]
             c == [step |-> "transport", peer |-> p, router |-> routerOf[roomOf[p]], id |-> asked + 1]
  <1>1. CASE Unmoved /\ CanDeliver(s) /\ Delivered(s, <<>>)
    BY <1>1, DeliveredQuiet, EmptySeq
  <1>2. CASE Unmoved /\ CanDeliver(s) /\ Delivered(s, <<c>>) /\ routerOf[roomOf[p]] # None /\ HasSession(s)
    <2>1. p \in Peers /\ roomOf[p] \in Rooms /\ asked + 1 \in Nat
      BY <1>2, SessionFound DEF ServerInv, LoopTypeOK
    <2>2. routerOf[roomOf[p]] \in Router
      <3> HIDE DEF p
      <3> QED  BY <1>2, <2>1 DEF ServerInv, MediaTypeOK
    <2>3. <<c>> \in Seq(TransportStep)
      BY <2>1, <2>2 DEF TransportStep
    <2> HIDE DEF c
    <2> QED  BY <1>2, <2>3, DeliveredQuiet
  <1>3. AskRouter(s, "caps") \/ AskRouter(s, "transport") => Unmoved /\ CanDeliver(s) /\ Delivered(s, <<>>)
    BY DEF AskRouter, CanAsk, Unmoved
  <1>4. CreateWebRtcTransport(s) /\ ~AskRouter(s, "transport") =>
            Unmoved /\ CanDeliver(s) /\ Delivered(s, <<c>>) /\ routerOf[roomOf[p]] # None /\ HasSession(s)
    BY DEF CreateWebRtcTransport, CanAsk, Unmoved
  <1>5. ASSUME NEW t \in held, Produce(s, t) PROVE Unmoved /\ CanDeliver(s) /\ Delivered(s, <<>>)
    BY <1>5 DEF Produce, CanAsk, Unmoved
  <1>6. ASSUME NEW t \in held, NEW m \in open, Consume(s, t, m)
        PROVE  Unmoved /\ CanDeliver(s) /\ Delivered(s, <<>>)
    BY <1>6 DEF Consume, CanAsk, Unmoved
  <1> QED  BY <1>1, <1>2, <1>3, <1>4, <1>5, <1>6

\* The workers' answers and POST /rooms change no roster.
LEMMA OtherRoster ==
    ASSUME ServerInv, RosterInv,
           (\E w \in Workers : Reply(w)) \/ (\E r \in Rooms : PostRoom(r)) \/ UNCHANGED vars
    PROVE  RosterInv'
  <1>1. UNCHANGED <<members, sessions, roomOf, socketOf, socketToPeer, conn, roster, turn, micro>>
    BY DEF Reply, RouterCreated, TransportCreated, Produced, Consumed, Answer, PostRoom, CreateRoom,
       vars, regVars, loopVars, clientVars
  <1>2. Leaves' = Leaves
    BY <1>1 DEF Leaves
  <1>3. LeavesOfTurn'
    BY <1>1, <1>2 DEF RosterInv, LeavesOfTurn
  <1> QED  BY <1>1, <1>2, <1>3, RosterQuiet

-----------------------------------------------------------------------------
\* Nobody is in a room at the beginning.
LEMMA RosterInit == Init => RosterInv
  BY RangeOfEmpty DEF Init, RegistryInit, RosterInv, Leaves, LeavesOfTurn, CurrentOrLeaving,
     StayersInRoom, RosterExact, NoGhosts

\* Every step keeps the invariant.
LEMMA RosterStep ==
    ASSUME Disciplined, ServerInv, ServerInv', RosterInv, [Next]_vars
    PROVE  RosterInv'
  BY JoinRoster, LeaveRoster, ClientCloseRoster, CloseEventRoster, RequestRoster, RunMicroRoster,
     OtherRoster DEF Next, GetRouterRtpCapabilities

\* The inductive invariant of sessions, sockets and rosters: which peers are
\* leaving, and that all other sessions are the ones their sockets map to.
THEOREM RosterInvariance ==
    ASSUME Disciplined
    PROVE  Spec => []RosterInv
<1>1. ServerInv /\ ServerInv' /\ RosterInv /\ [Next]_vars => RosterInv'
  BY RosterStep
<1> QED BY <1>1, RosterInit, ServerInvariance, PTL DEF Spec

\* The peers that a client knows of from room.joined, room.peerJoined and
\* room.peerLeft are those that the server holds in its room, whatever joins,
\* leaves and disconnects of others fall between its own messages.
THEOREM RostersAgree ==
    ASSUME Disciplined
    PROVE  Spec => []RosterAgreement
<1>1. RosterInv => RosterAgreement
  BY DEF RosterInv, RosterExact, RosterAgreement
<1> QED BY <1>1, RosterInvariance, PTL

\* The close handler leaves nobody behind: no session of a closed connection is
\* in a room, even when the leave of that connection was still under way.
THEOREM NoGhostMembers ==
    ASSUME Disciplined
    PROVE  Spec => []NoGhosts
<1>1. RosterInv => NoGhosts
  BY DEF RosterInv
<1> QED BY <1>1, RosterInvariance, PTL

\* Between events a connection has at most one session in the rooms, although
\* its next session may be there before the previous one is removed.
THEOREM OneMember ==
    ASSUME Disciplined
    PROVE  Spec => []OneMemberPerSocket
<1>1. RosterInv => OneMemberPerSocket
  <2> SUFFICES ASSUME RosterInv, micro = <<>>, NEW p \in sessions, NEW q \in sessions,
                      socketOf[p] = socketOf[q]
               PROVE  p = q
    BY DEF OneMemberPerSocket
  <2>1. ~Leaving(p) /\ ~Leaving(q)
    BY RangeOfEmpty DEF Leaving, Leaves
  <2> QED  BY <2>1 DEF RosterInv, CurrentOrLeaving
<1> QED BY <1>1, RosterInvariance, PTL
=============================================================================
