# Formal models of the Bridge Packet core server

Bridge Packet is a video-chat server for a local network: a Node.js process
that keeps rooms, speaks a WebSocket protocol with its clients and routes their
media through mediasoup workers. This directory holds TLA+ models of it, the
TLC runs that check them and the proofs that TLAPS checks. The models are
written from `apps/core/src` and `packages/shared/src`; paths below are
relative to `apps/core/src` unless they start at the repository's root.

Contents: [inventory](#inventory) · [modules](#modules) · [runs](#runs) ·
[what the runs found](#disagreements-with-tests-and-comments) ·
[proofs](#proofs) · [hazards without a property](#known-and-not-watched) ·
[not modelled](#not-modelled)

To check one run: `tlc -workers 2 -config MCServer.cfg MCServer`; to check one
module's proofs: `tlapm RoomRegistryProofs.tla`.

## Inventory

One process, one event loop. Everything synchronous is atomic; what makes the
system hard is that almost every media operation awaits a worker process in the
middle, that connections break at any moment, and that timers, signals and
answers of other processes arrive in any order.

| Component (sources) | State | Operations | Talks to | What makes it correct |
|---|---|---|---|---|
| Room registry (`domain/room`) | rooms and their peers, sessions, socket → peer | create, join, leave, leave by socket, close all | called by dispatcher, close handler, routes, shutdown, inspectors | the maps agree; occupied rooms exist; an emptied room goes; a disconnect removes its own peer only |
| Peer session (`domain/peer`) | roomId, socket, transports, producers, consumers | send, closeMedia | dispatcher, SFU service | media of a member stays open, media of a leaver closes |
| Dispatcher and WebSocket server (`signaling`, `server/websocket`) | none of their own | eight message types, the close event | all of the above and the media layer | clients' rosters are exact, announcements are neither lost nor stale, nothing survives its connection |
| Media (`media`) | worker list and round robin, room → router, mediasoup objects | getOrCreateRouter, closeRouter, create transport, connect, produce, consume, resume | worker processes | one live router per room, objects die with what they depend on, rooms stay apart |
| HTTP routes (`server/routes`, `server/app.ts`) | none | POST and GET of rooms, health, info, admin, metrics | registry, admin, metrics | created rooms are listed until they were used and emptied |
| Bootstrap and shutdown (`bootstrap.ts`, `index.ts`, `lib/shutdown.ts`) | how far the start has come, what is open | start, signal handlers, shutdown | everything | the process ends, and ends with everything taken down |
| Discovery (`discovery`) | mDNS service, progress of the scan | publish, stop, scan with bounded concurrency | network | each host probed once, every answer in its place, nothing unreported |
| Events (`events`) | handler sets, webhook Map, delivery history, audit ring | publish, subscribe, once, register, deliver with retries, record, clear, close | HTTP endpoints, user handlers | nothing delivered unaudited, no hook skipped, counters and results true |
| Rate limiter (`policy/sliding-window-rate-limiter.ts`) | bucket → timestamps | check, consume, peek, reset, prune | policy service, middleware | no window too full; resetAt exact |
| Policies (`policy`, the rest) | slots per peer, join attempts | increment, decrement, track, untrack, the two-stage middleware, room rules | rate limiter | slots counted are slots held; what a limiter admits one request paid |
| Telemetry store (`telemetry/peer-metrics-store.ts`) | peer records, room index, sample lists | create, update, delete, record, prune, clear | telemetry service, aggregator | index exact, lists bounded, nothing lost early |
| Telemetry service and estimators (`telemetry`, the rest) | last snapshot | register, batches, aggregation, snapshots; jitter, loss, bandwidth, scores | store | a snapshot's counts and peers fit together; figures follow from the samples |
| Metrics (`metrics`) | registry, counters, gauges, histograms | register, merge, unregister, collect, reset, restart | room registry, routes | one instrument per name, scrapes current, buckets cumulative |
| Authentication (`auth`) | secret | issue, validate, guard a route, evaluate access | middleware | a token is good for its lifetime, all judges agree |
| Admin (`admin`) | last diagnostics | ask workers, inspect rooms and peers, findings, status | registry, worker pool | a report is of one moment; a hung worker holds up nobody for ever |
| Shared protocol (`packages/shared/src`) | none | parse, format | both sides | schemas cover what handlers use |

Events, policies, authentication and telemetry are libraries of the
repository: nothing in the server calls them yet. They are modelled as their
own tests drive them, by a caller that may use every public method at any time.

Where the code is hard to test (the `hazards` of `PROJECT.json`, each at its
line, with the properties that watch it, and with a note where a part of it is
only described):

* an await between a check and what depends on it: `getOrCreateRouter`,
  `createWebRtcTransport`, `produce`, `consume`, `room.leave`;
* several frames in one TCP chunk, which `ws` delivers before any microtask;
* a disconnect between any two of those steps;
* a shutdown that awaits while requests still come in, a second one beside it,
  one whose steps reject, a scan that fails and that nobody awaits;
* workers of a sweep that share `nextIndex` across awaits;
* diagnostics that await hung workers while rooms, the pool and the process
  change;
* dispatches that overlap, of two events or of one that is published again, over
  sets and Maps that change, and deliveries that arrive although the attempt is counted as failed;
* a request that paid at one limiter and is refused by the next; slots given
  back after their peer was untracked; tokens judged by a skewed clock;
* an initialization that throws halfway, gauges that outlive their rooms;
* rings, lists, windows and scales at their limits, out-of-order timestamps,
  addresses on either side of the sign bit.

## Modules

    RoomDirectory <--implements-- RoomRegistry <-- Signaling
                                  RoomRegistry <-- MetricsService
                         RoomRegistry, LanScan <-- Lifecycle <-- Diagnostics
    RateContract  <--implements-- RateLimiter  <-- Admission
                                  PeerMetrics  <-- Telemetry
    Auth    EventService    Estimators    Histogram

A plain arrow is EXTENDS: the module on its right composes what it extends with
what it adds, and uses the same operators. `MC*.tla` add symmetry, constant
values, the focus of a behaviour (below) and, in `MCSignaling`, clients that
never send `room.leave`. Each `*Proofs` module EXTENDS the
modules it is about: `LifecycleProofs` those of the process, the scan and the
diagnostics, `PeerMetricsProofs` those of the store, of the service on top of it
and of the estimators, `AdmissionProofs` those of the limiter, the policies and
authentication. `MediaProofs` is the part of `Signaling`'s proofs about media, on top of
`SignalingProofs`.

### RoomDirectory and RoomRegistry

`RoomDirectory` is what a room directory promises in two variables: which rooms
are listed, and where each peer is ("new", in a room, "gone"). `RoomRegistry`
has the code's own structures. One method of `RoomService` is one action:

| Code | Model |
|---|---|
| `RoomStore.rooms`, `RoomRecord.peers` | `rooms`, `members` |
| `RoomService.sessions`, `.socketToPeer` | `sessions`, `socketToPeer` |
| `PeerSession.roomId`, `.socket` | `roomOf`, `socketOf` (kept by the object when it leaves the map) |
| `createRoom`, `joinRoom`, `leavePeer`, `leaveBySocket`, `closeAll` | `CreateRoom`, `JoinRoom`, `LeavePeer`, `LeaveBySocket`, `CloseAll` |

Peer ids are fresh on every join (`randomUUID`), which is the guard
`socketOf[p] = None`; room ids are the client's and come back.

### Signaling

Sockets, the event loop, workers and clients around the registry, which it
EXTENDS so that the registry's operators are the same ones. A handler is cut at
its awaits, and nowhere else:

* `turn`, `micro`: `ws` emits the frames of one chunk back to back, so the
  continuations after `await` run when the chunk is through. `micro` is that
  queue; while it is not empty only the socket in `turn` may send.
* `inbox[w]`: what the server has asked worker `w` and has no answer for; the
  answer is a separate event (`RouterCreated`, `TransportCreated`, `Produced`,
  `Consumed`), with everything the code does after it in one step.
* `open` is what lives in the workers, `held` what the sessions' maps hold.
  They differ, and that difference is the subject of several properties.
* `roster` and `known` are what a client that follows the protocol believes,
  updated by the messages the server sends; a message to a socket that is not
  open is dropped, as in `PeerSession.send`.

| Code | Model |
|---|---|
| message handler, `dispatcher.handle` | `CanDeliver`, `Delivered` |
| `room.join` | `Join` |
| `room.leave` before and after its await | `Leave`, `LeaveTail` |
| `getOrCreateRouter` before and after its await | `AskRouter`, `RouterCreated` |
| `media.getRouterRtpCapabilities`, `media.createWebRtcTransport` | `GetRouterRtpCapabilities`, `CreateWebRtcTransport`, `TransportTail`, `TransportCreated` |
| `media.produce`, `media.consume` | `Produce`, `Produced`, `Consume`, `Consumed` |
| close handler | `ClientClose` (the connection breaks), `CloseEvent` |
| `POST /rooms` | `PostRoom` |

`Disciplined` says whether clients join only when they are out of a room, as
the repository's clients do; the protocol does not enforce it, and
`signaling_routers` drops it.

### LanScan and Lifecycle

`LanScan` is `LanScanner.scan`: `at[w]` is the index that worker `w` of
`mapWithConcurrency` awaits a ping for, `next` is `nextIndex`, and the turn
after an answer stores the result and takes the next index in one step
(`PingAnswered`). The browsers run beside the sweep (`RecordService`,
`BrowseTimeout`); `MergeDevices` is the turn after the first `Promise.all`,
`Looked` a reverse lookup, `ScanDone` the turn after the second. The operators
`NetworkOf`, `BroadcastOf` and `HostAddresses` do the arithmetic of
`enumerateHostAddresses` on signed words of a given width.

`Lifecycle` composes `RoomRegistry`, `LanScan` and the process: `LoadEnv`,
`StartWorker`, `Listen` and `Announce` are the awaits of `bootstrap`; `Signal`
is the handler up to its first outside await, with the whole of
`RoomService.closeAll` in it; `Unpublished` is the callback of the mDNS
service, `AppClosed` the end of `app.close` with `process.exit(0)` behind it.
`SignalEarly`, `Fail`, `ShutdownRejects` and a failed scan end the process in
the ways the code leaves to Node. `Requests` are creates, joins and
disconnects, for as long as the server listens. `early` remembers who was there
when the first signal came.

### Diagnostics

`AdminService.getDiagnostics` over `Lifecycle`: `Diagnose` is the call up to
its first await, `WorkerSampled` the answer, rejection or time limit of the
worker that is asked; when no worker is left, the same turn inspects rooms and
peers, derives findings and status and stores the report (`Report`). Calls
overlap, and the worker list is the pool's own array, which a shutdown empties.
Figures of the operating system are chosen.

### MetricsService and Histogram

`MetricRegistry` with strict and lenient registration, the descriptors beside
the three stores, `merge`, `unregister`, `clear`; `MetricsCollector` and
`MetricsService` with their two `initialized` flags, `collect` from the room
service, `reset` and `restart`. A method that throws keeps what it did before
(`Register` carries `threw` through `RegisterStandard`). `Histogram` has the cells,
`recordObservation` and `toBucketArray`.

### EventService

Event bus, audit log, webhook dispatcher, wired as `EventService` wires them.
`publish` mints a fresh event id; `publishExisting` dispatches whatever event it
is given, also one whose earlier dispatches are still under way. What a
dispatch holds is therefore kept by dispatch and not by event: `<<e, n>>` is the
`n`-th dispatch of event `e`, `Publish` and `PublishExisting` say which name
`Dispatch` gets, and the audit trail has one entry for each, as `recordEvent`
gives every call an audit id of its own. `queue[d]` is the snapshot that
dispatch `d` took, `at[d]` and `attempt[d]` its position in the live Map of
webhooks. A JavaScript Map keeps
its order, skips deleted keys and visits keys added during the iteration, so
`webhooks` is a sequence of slots, live or dead. An attempt ends in one of
three ways: arrived and acknowledged, arrived and counted as failed (an error
status, a timeout), not arrived.

### RateContract, RateLimiter and Admission

The contract remembers every admitted request and admits one when fewer than
`maxRequests` are in the window. The limiter forgets: `check` filters the
bucket, `prune` drops stamps and buckets. Serial numbers stand for positions in
the array, so two requests of one millisecond stay apart.

`Admission` puts the policy layer on top. The middleware awaits between its two
checks, so a request is a record that `GlobalCheck` opens and `AddressCheck`
ends, with what it paid at each limiter; `CheckRateLimit` is a check without
the middleware. `Increment`, `Decrement`, `TrackPeer`, `Untrack` and
`RecordJoinAttempt` are the methods of `PeerLimits`, and `held` is what its
callers really hold. `AssertJoinAllowed` is the policy service's check of room
and attempt in one.

### Auth

A token is its payload and the secret it was signed with. `IssueToken` happens
on a host whose clock is off by up to the skew; `Validate`, `ValidForRoom`,
`Evaluate` and `Serve` are the validator, its room check, the access policy and
the guarded route, which judge the same token at the validator's time.

### PeerMetrics, Telemetry and Estimators

`PeerMetrics` is the store: records, the room index with the set of its keys
(the code deletes empty entries), and the sample lists of a peer. A list is a
set of samples numbered in the order they were recorded, which says the same as
an array and lets the trimming be stated, and proved, by counting. `Telemetry`
adds what calls the store several times (`RegisterPeer`, `RecordBatch`) and
what is built from it (`BuildSnapshot`, `BuildRoomSnapshot`,
`FilterByMinimumQuality`). `Estimators` has the pure computations, on exact
quotients of integers where the code uses floating point: percentiles, loss
windows, the two trends, scores and grades. What `filter` keeps of a list is the
set of its positions, `reduce` is `SumOf` of the values at such positions, a
recursive function, and `sort` is `Ascending`, the values in an order of their
positions in which none is followed by a smaller one.

## Runs

All runs use the constants in the `.cfg` they name. None replaces a definition.

| Run | Asks | Bounds and why they suffice |
|---|---|---|
| `signaling_roster` | are clients' rosters exact, is nobody left behind | 3 sockets, 2 rooms, 5 joins, 3 continuations per chunk: leave, re-join and leave again in one chunk while a second client watches and a third comes and goes |
| `signaling_media` | is a member's media alive, are announcements never stale | 2 sockets, 3 peers, 4 media requests: transport, producer and consumer with a departure and a return |
| `signaling_routers` | is the cached router always live, does it outlive its members, do rooms stay apart | 2 rooms, 2 workers, 4 requests, clients that may join twice: two racing creations with media on either router, a room emptied and entered again, a producer, a transport in the other room and an attempt to consume |
| `signaling_liveness` | are waiting peers served, do disconnected peers leave | 2 workers, 2 requests that race |
| `server` | the registry and what runs around it: the maps and the directory, names and scrapes, shutdown, scan, diagnostics (13 properties) | see the focuses below |
| `monitoring` | what observes the server: audit and deliveries, the store, snapshots, figures (10 properties) | see below |
| `admission` | what lets a request in: limiters and who paid, slots and attempts, tokens (6 properties) | see below |
| `router_race`, `orphan_router`, `once_twice`, `metrics_restart`, `histogram` | a state that a test or a comment rules out | the smallest instances in which it is reached; in `orphan_router` no client sends `room.leave` (`StayingSpec`), so that its room empties by a disconnect, as in the test |

### One run, several focuses

Most components beside the signaling share no state, or only read the registry.
A run of all of them at once would multiply their state spaces and ask nothing
new. `MCServer`, `MCMonitoring` and `MCAdmission` therefore choose a `focus` in
the initial state: in a behaviour of that focus the named part takes all of its
steps, with the parts it depends on, and the others keep still. The state
spaces add up; every property is checked in all of them. What does interact is
composed in one focus: metrics with the registry they read, a shutdown with
joins and the scan under it, diagnostics with rooms, pool and process.

`server` (about 165 000 states):

| Focus | What moves | Bounds |
|---|---|---|
| registry | `RoomRegistry` alone | 2 sockets, 2 rooms, 3 peers: a room with two members, a room refilled after it was deleted, a socket with two sessions |
| names | registration, merge, unregister, clear, initialize, restart on a strict and a lenient registry | a name that the collector also uses and a spare one, three types: every collision |
| figures | collect and reset among joins, leaves and media changes | 2 peers, 2 rooms, one socket: a room that empties and comes back between two scrapes |
| life | start, signals, overlapping shutdowns, requests meanwhile | both signals, 2 workers, one room, 2 peers: an early and a late one |
| scan | the scan inside a process that one signal may stop | 3 hosts, 2 workers of the sweep, one address that only mDNS knows: an index taken by whoever answers first |
| admin | two overlapping diagnostics over workers that hang, a pool that is emptied | 2 workers, 2 rooms, one peer, limits of 1 room and 1 peer listed: a truncated list and an exact one |

`HostsEnumerated(6)` is an assumption of `MCServer` that TLC evaluates: all
addresses and prefixes of 6-bit words, the sign bit included.

`monitoring` (about 217 000 states):

| Focus | What moves | Bounds |
|---|---|---|
| handlers, webhooks | event service: handlers that come and go, and an audit log that is cleared, beside a webhook that stays until `close` and answers; and webhooks that come and go and fail | 2 overlapping dispatches of 2 events or of one (`MaxDispatches`), 2 handlers (one once), 2 hooks with different filters, 2 slots, a retry, a ring and a history of 1 |
| store | `Telemetry` over `PeerMetrics` | 2 peers, 2 rooms, lists of 1, 2 samples, retention and staleness of 1 in 3 instants: every order of arrival around both limits, moves, a room entry that goes and comes back |
| samples | lists of samples for percentiles, windows and trends | up to 3 samples at 6 times on either side of every window's border, 3 values |
| figures | connections that are measured again | 3 members, figures on either side of a joint of each scale |

`admission` (about 355 000 states):

| Focus | What moves | Bounds |
|---|---|---|
| quota | the middleware over the two limiters, checks past it, resets, prune | windows of 2 and 3 ticks with limits 1 and 2, 6 instants, 4 admitted requests: requests that interleave between their checks, two full windows and a half |
| peers | slots and join attempts | 2 peers, limits 1 and 2, 2 attempts in 3 ticks, 5 calls: take, untrack, take again, give back late |
| auth | issue and judge tokens | 2 secrets, a skew of 1, lifetimes of 0 to 3 with a maximum of 2, ids with blanks and with a wrong pattern |

Deadlock is checked where the program has no last state. Where a cfg says
`CHECK_DEADLOCK FALSE` the bound can be used up: when the joins, requests,
events, samples or calls are spent, nothing is left to happen. Of a process that
has exited, `Lifecycle!Terminated` says that it stays so.

Symmetry is used in safety runs of `Signaling` only, and only over identifiers
that the code compares for equality. Worker numbers are ordered and are not
permuted.

Every property is also run against a mutant of the definition it watches (the
`mutants` of `PROJECT.json`; the mutated forms stand before their originals in
the modules and are used by no action).

### Fairness

`Signaling!FairSpec` is weak fairness of the microtask queue, and strong
fairness of each worker's answers and of each socket's close event. Node drains
microtasks before it takes the next event, and one pass of libuv visits every
handle that is ready, so an event that is ready again and again, if only
between chunks, is taken in the end. That a worker answers at all is the
assumption the code makes too (it has no timeout on worker requests; a worker
that dies ends the process). Nothing is assumed of clients: they may stop.

`EventService!FairSpec`, and the same conjuncts in `MonitoringSpec`, are weak
fairness of handlers settling and of attempts ending. The second holds because
`fetchWithTimeout` aborts; the first is a requirement on user handlers, which
the code cannot enforce (see [below](#known-and-not-watched)).

`Lifecycle!LifecycleFairness`: `app.close` settles, `ping` ends (it is given a
timeout on its command line), the browsers' timer fires, reverse lookups settle,
and the turns they lead to run. The mDNS callback is fair only while bonjour
lives: when a second signal has destroyed it, the callback of the first may
never come, and `SignalEndsProcess` holds all the same. Nothing is assumed about
signals, requests or failures.

`Diagnostics!DiagnosticsFairness`: a call that asks a worker goes on, for an
answer or for the time limit that the code arms. It is not assumed that workers
answer.

## Disagreements with tests and comments

Five runs look for a state that a test or a comment of the repository rules
out, and find it:

| Run | The text says | What happens |
|---|---|---|
| `router_race` | `media/router-manager.test.ts:17` "creates and caches routers per room" | two requests both miss the cache, both create, the second overwrites the first, which nobody closes |
| `orphan_router` | `server/websocket/signaling.test.ts:54` "cleans up room media when the last peer disconnects" | the only peer's connection closes while the router it asked for is being created: the close handler empties the room and finds no router to close, and the answer then caches one for a room that is gone. A last peer that sends `room.leave` races in the same way |
| `once_twice` | `events/event-bus.test.ts:39` "subscribeOnce removes handler after first dispatch" | two overlapping dispatches, of two events or of one published again, both hold the entry and both call it |
| `metrics_restart` | `metrics/metrics-service.ts:181` "Clears all metrics and re-initializes the service." | the collector keeps its own `initialized` flag, so after `restart` the standard metrics are not registered |
| `histogram` | `metrics/histogram.ts:119` "Returns cumulative bucket counts for a series." | an observation is already counted in every bucket above it, and `toBucketArray` adds those counts up once more |

The runs that pass show the limits of the damage: with all of the races in play
the cached router is always live, closes only over an empty room, never takes a
member's media with it, and every peer that waits for a transport gets it. What
a peer on the router that lost the race may consume is not among them.

## Proofs

TLAPS checks the following for all values of the constants that satisfy the
modules' `ASSUME`s. TLC evaluates those assumptions in the runs.

| Module | Invariant | Results |
|---|---|---|
| `RoomRegistryProofs` | `RegistryInv` | types, `MembershipAgrees`, `OccupiedRoomsListed`, `PeersNeverReturn`, refinement of `RoomDirectory` |
| `SignalingProofs` | `ServerInv`, `RosterInv` | types, `CachedRouterLive`, `RoutersOutliveMembers`, `RosterAgreement`, `NoGhosts`, `OneMemberPerSocket`, refinement of `RoomRegistry` |
| `MediaProofs` | `MediaInv` | `MemberMediaAlive`, `RoomIsolation`, `KnownProducersLive`, `AnnouncedByMembers` |
| `LifecycleProofs` | `ScanInv`, `ShutdownInv`, `DiagnosticsInv` | `ScanExact`, `LateJoinersOnly`, `CleanExit`, `ScanExact` in the process, refinement of `RoomRegistry`; `DiagnosticsCurrent`, refinement of `Lifecycle` |
| `MetricsServiceProofs` | `MetricsServiceInv` | `OneInstrumentPerName`, `ScrapeCurrent`, `InitializedMeansRegistered` |
| `AdmissionProofs` | `LimiterInv`, `QuotaInv`, `SlotsInv`, `AuthInv` | types of the limiter, `WindowBound`, `RetryAfterExact`, refinement of `RateContract`; `QuotaPaid`, `PeerLimitsExact`, refinement of `RateLimiter`; `UsableForItsLifetime`, `ChecksAgree` |
| `EventServiceProofs` | `EventInv` | `AuditTrailExact`, `AuditedBeforeDelivered`, `ResultsTruthful`, `SteadyHooksServed` |
| `PeerMetricsProofs` | `MetricsInv`, `TelemetryInv`, `FiguresInv`, `ListInv` | types; of the store and of the service `IndexExact` and `LostOnlyOldOrExcess`; `SnapshotAddsUp`; `BetterNeverScoresLess`, `FiguresExact` |

The refinements compose: the server and the process each implement the room
registry, which implements the room directory, the process with diagnostics
implements the process without, and the policy layer implements the limiter, which implements the contract. What is proved of the inner module
holds in the outer one.

### RoomRegistryProofs

`RegistryInv` is the conjunction of the type invariant, `MembershipAgrees`,
`OccupiedRoomsListed` and `SessionsWellFormed`; it is inductive, although none
of its parts is so alone: that a removed peer leaves its room's record rests on
the agreement of the maps, and that a disconnect finds its own peer on the
sockets of sessions. The action property `PeersNeverReturn` and the refinement
of `RoomDirectory` follow from it step by step: `CreateRoom` maps to `Create`,
`JoinRoom` to `Enter`, `RemovePeer` to `Exit`, `CloseAll` to `Clear`, and the
early returns to stutters. The assumption used is `RegistryAssumption`: `None`
and the directory's marks are not identifiers.

### SignalingProofs

`ServerInv` is `RegistryInv` with the types of the loop (`LoopTypeOK`), of the
media and the clients (`MediaTypeOK`) and `CachedRouterLive`. There is one lemma
per handler, continuation, answer and connection event; each shows that the step
is one call of the registry or none, so `ServerImplementsRegistry` follows and
the registry's own step lemma gives the primed `RegistryInv`. The registry's
part is needed for the types: a handler reads `socketToPeer` and `roomOf`, and
only the agreement of the maps makes what it finds a peer in a room
(`SessionFound`). `CachedRouterLive` is kept because the cached router of a room
is a router of that room, so closing one room's router leaves those of the
others (`CloseRouterTypes`); `RoutersOutlive` reads the same fact the other way
round (`ClosedRouterIsOfRoom`). Nothing is assumed about the clients'
discipline up to here.

`RosterInv` is about the leaves that are under way. A `room.leave` takes its
peer out of the room only in a continuation, so between the two the peer is
still a member whose own client has left. `LeavesOfTurn` says that every such
leave is of the socket whose chunk is being delivered, `CurrentOrLeaving` that
any other session is the one its socket maps to, and `RosterExact` that the
roster of a client in a room is the set of members the server holds, and that
its own peer is not leaving. A close handler runs between chunks, when no leave
is under way, and so it finds every session of its socket: `NoGhosts`. These
results have the hypothesis `Disciplined`, that a client joins only when it is
out of a room. The repository's clients are so; the dispatcher does not enforce
it, and a client that joins twice leaves its first session behind (see
[below](#known-and-not-watched)).

The assumptions are `RegistryAssumption`, `SignalingAssumption` and
`RouterAssumption` (`None` is not a router).

### MediaProofs

`closeMedia` and the workers close what depends on a closed object by its id;
that nobody else's media goes with it holds because every id was handed out
once. A claim says for which request, of which peer in which room, an id was
handed out: `ClaimsSound` and `ClaimsUnique` say that the claims of the objects
in the sessions and of the requests under way agree, and that a claim's peer is
still in that room or gone for good. `RoomIsolation` is then a fact about two
claims. `MemberMediaAlive` needs in addition that what a request waits for is
there for as long as its peer stays (`RoutersWaitedFor`, `TransportsWaitedFor`),
for otherwise a late answer could enter a closed object into a session.
`KnownProducersLive` and `AnnouncedByMembers` rest on `KnownHeld` and on
`RosterInv`, and so on the clients' discipline; the other two do not. A step is
taken apart into what it adds (`Growth`) and what it takes away (`HeldLost`,
`OpenLost`), and each part of the invariant is preserved by any step of that
shape.

### LifecycleProofs

The scan comes first. `SweepExact` is not inductive: that the next ping is the
first of its index needs that no two workers await the same one and that
awaited indices were taken (`AwaitedOnce`); that nothing is skipped when all
workers are idle needs that one of them still awaits a ping while indices are
left (`SomebodySweeps`); and the report is about the results of the merge only
because nothing moves after it (`QuietOutside`). The assumption is
`ScanAssumption`: at least one worker, and `Idle` is no index.

Each step of the process is a step of the registry or leaves it alone, and a
step of the scan or leaves that alone, so both modules' theorems hold inside
it. `ShutdownInv` says how far each signal's shutdown has come and what it has
taken down by then (`ShutdownProgress`), that the advertisement stands while
nobody stops the process and is lost only to another signal's shutdown
(`Advertised`), and that the peers of `early` are out of the rooms, have joined
before and so cannot join again (`EarlyPeersOut`). `ExitsAreClean` assumes that
the set of signals is finite, for it counts them.

Diagnostics read and change nothing, so `DiagnosticsReadOnly` carries all of
this over. `DiagnosticsCurrent` needs three things that hold while workers are
awaited. The answers a call holds are only of workers that can answer
(`AnswersHeard`), and the pool is whole or empty once the server listens
(`PoolWhole`): together, a healthy report with a pool has an answer of every
worker. And the maps of the registry agree, so that the entries of
`PeerInspector` are the seats that `RoomInspector` counts (`EntriesAreSeats`,
`EntriesCounted`, by a bijection; the registry is finite, `RegistryFinite`).
The assumptions are `LifecycleAssumption` and `DiagnosticsAssumption` (the
limits are numbers).

### MetricsServiceProofs

`RegisterResult` says of one registration, on any registry, what it keeps:
one account of each name, nothing taken out, and on a strict registry the
instrument is entered or the call throws. From it come `NamesStayUnique`, and
`RegisterStandardResult` for the collector's registrations in a row, of which
each is reached only when none before it threw. `FlagsTruthful` is what the two
`initialized` flags stand for: the service's flag implies the collector's, and
on a strict registry the collector's implies that its instruments are all
registered, but for names that callers removed, or none of them is
(`Together`). The second case is what `restart` leaves behind, the
disagreement of `metrics_restart`; a `restart` before the collector was
initialized enters them all, because nothing is in the way on an empty registry
(`StandardOnEmpty`). `ScrapeCurrent` rests on the registry of rooms: a gauge
that `collect` resets to 0 is right because the members of a deleted room are
none, and that of a peer because a member has a session. The assumptions are
`RegistryAssumption` and `MetricsServiceAssumption` (`None` is no number).

### AdmissionProofs

The limiter comes first. `LimiterInv` adds to the types and `WindowBound` the
relation between what the limiter keeps and what it has admitted: every admitted
stamp that still counts is kept and none is made up (`StampsCurrent`), numbers
and times grow together (`StampsOrdered`), and the sets are finite.
`WindowBound` is preserved because the stamps that count at the time of a check
are exactly those that `check` counts (`ActiveIsRecent`), so a window that gets
one more had room for it.
`ContractSpec` maps each `Check` to a `Request` of the contract, for both count
the same stamps, `Reset` to `Forget`, `Tick` to `Pass` and `Prune` to a stutter:
what is forgotten never counts again, because the clock does not run backwards.
`RetryAfterExact` needs that the oldest stamp by number is the oldest by time
and that fewer than `maxRequests` remain when it expires.

`QuotaPaid` is an equality of sets; `StampsPaid` says it as an equivalence for
each number. It is preserved because of `PaidSoFar`: a request that waits for
its second check has paid nothing at an address, so that what is taken out of
`requests` in `AddressCheck` carries no stamp with it, and a request's number
is smaller than `serial`, so that a new one is nobody else's. The run has one
address; the theorem holds for any number of them.

`PeerLimitsExact` has two halves. `SlotsInv` adds to `SlotsAccounted` the shape
of the entries (`Entry`). The join attempts need `JoinsKept`: the list that the
code keeps for a peer holds some of the attempts made since it was tracked, and
among them all of the last minute, so that filtering the list and filtering the
history count the same. The assumptions are `LimiterAssumption` and
`AdmissionAssumption` (the marks are no numbers, the limits are numbers).

Of authentication, `IssuedWithinSkew` bounds a token's times by the second it
was born in, from which `UsableForItsLifetime` is arithmetic; `PassedOnToken`
says what the last request that passed was judged by, so that `ChecksAgree` can
compare it with the validator. `JudgesAgree` assumes a room that takes anybody
(`0 < Capacity`): the policy refuses at a full room before it looks at the
token.

### EventServiceProofs

`EventInv` follows one dispatch through the service. The wildcard handlers that
the service wired are the last two entries of every snapshot, the audit handler
right before the webhook handler (`QueueOrder`), so the dispatch is in the trail
when its deliveries start, and deliveries are under way only then
(`AuditedInTurn`); `AuditedBeforeDelivered` follows, and so does that no
dispatch is recorded twice, although an event that is published again is
recorded again. `EventsAreDispatched` brings `Publish` and `PublishExisting`
down to the one step `Dispatch`, for any number of dispatches. `TrailAligned` is `AuditTrailExact` by index: the ring stands
at the end of the history, as far in as entries were dropped and cleared.
`AttemptsInTurn` keeps the attempt under way within what the delivery mode
grants, for `ResultsTruthful`. `SteadyPending` is the invariant behind
`SteadyHooksServed`: a hook that has stayed since the deliveries started has
its result, or its slot is the one the iteration has reached or a later one.
That holds through registrations, which append a slot, and through
unregistrations, which kill one in place; moving on keeps it because
`NextSlot` is the first matching slot (`NextSlotIsFirst`, by the well-founded
order of the numbers). The assumption is `EventAssumption`.

### PeerMetricsProofs

`MetricsInv` says of each list (`ListOK`) that it is a part of what was recorded
for it, that recorded samples are finitely many and numbered apart, and that
what is missing is old or has `maxSamples` samples after it. The lemmas about
`Retained` (`RetainedSubset`, `RetainedLoss`, `RetainedBounded`) say what
trimming keeps, by counting. `RecordedListOK` and `RetainedListOK` apply them to
one list, whatever state it is in, so that the same lemma serves `Record` and
each sample of a batch. That a whole batch keeps the lists right is an induction
over its length: `AfterBatchKeeps` shows that the recursive function of
`AfterBatch` exists (`RunExists`) and stays among the accounts with right lists
(`HoldsUpTo`). `EnterKeepsIndex` and `DropKeepsIndex` are about the index, for
registration as for the store's own operations.

`SnapshotAddsUp` is not inductive, since what a filter leaves is counted again:
`SnapshotInv` adds that no peer of a snapshot is stale and that they are
finitely many, for which the known peers must be. The snapshot adds up because
the index is exact at the moment it is built (`AggregatedExact`); the code
collects the peers room by room from the index and counts them by the room that
their records name. The assumptions are `MetricsAssumption` and
`TelemetryAssumption`.

`BetterNeverScoresLess` is an action property of `Estimators`, for any figures
and not only those on either side of a joint that TLC takes. A scale of
thresholds gives `1 + n` as its place, where `n` counts the thresholds that are
exceeded, so that fewer of them (`ScaleFalls`) is no fewer points; loss is a
quotient, compared by cross multiplication (`LossFalls`); the two pieces of a
direction's scale rise and meet at its minimum and target (`DirectionRises`).
Rounding keeps the order, in the weighted sum too (`ScoreRises`).

`FiguresExact` holds of every state in which the list holds samples (`ListInv`)
and the figures are numbers (`FiguresInv`); the work is in the operators.
`SumOf` is the last of the partial sums (`SumOfIsSum`, with `RunExists`), by
induction over which a sum adds up over parts (`SumAdds`) and lies between so
many times the bounds of its values (`SumBetween`). Numbers can be sorted
(`CanBeSorted`): an element's place is the number of those that precede it, by
value and then by position, and different elements have different places.
`SortedRanks` counts what lies on either side of the `k`-th of a sorted array.

* `PercentilesRight`: the rank is the least number that is so many percent of
  the length (`RankOfPercentile`), and `SortedRanks` turns it into counts.
* `WindowsRight`: every instant of the window before its end is in one bucket
  and one only (`PlaceInBuckets`), so that the buckets collect the parts one
  after the other.
* `TrendsRight`: a value that separates two parts of a list separates their
  averages (`PartsApart`), compared by cross multiplication (`AveragesApart`);
  when both halves lose alike, their products are equal.
* `RoomScoresRight`: a score is a percentage whatever is missing (`ScoreRange`),
  the median has half of the scores on either side (`MedianRight`, for an even
  and an odd number), and the rounded average does not leave the bounds of the
  scores (`AverageRight`, `RoundDivBetween`). There TLC takes three peers, the
  theorem any number, none included.

The assumption is `EstimatorAssumption`, which says that figures and times are
numbers, that some figures may be missing, and that a room has finitely many
peers.

### Checked by TLC only

* Liveness, which is out of the prover's reach: `WaitingPeersServed`,
  `DisconnectedPeersLeave`, `PublishedEventsAudited`, `SignalEndsProcess`,
  `ScanEnds`, `DiagnosticsEnd`.
* The five disagreements, which are counterexamples.

## Known and not watched

Behaviours that were met while modelling, that no property is about, and why:

* A late joiner is told the peers of its room, not their producers
  (`signaling/dispatcher.ts:46`); a transport whose creation is under way when
  its peer goes is entered into the departed session
  (`media/sfu-service.ts:40`), and the consumers of a closed producer stay in
  `session.consumers` (`:108`). No text of the repository says otherwise; the
  second is why `MemberMediaAlive` speaks of members.
* A second `room.join` on one socket replaces the socket's mapping without
  leaving (`domain/room/room-service.ts:46`), and the first peer then stays
  behind after the disconnect; `NoGhosts` and `OneMemberPerSocket` are checked
  for clients that leave before they join again.
* During a shutdown new peers can still create and join rooms for as long as the
  server listens (`lib/shutdown.ts:16`); `LateJoinersOnly` is about those who
  were there before. A shutdown step that rejects, or a scan that fails
  (`bootstrap.ts:50`), ends the process with code 1 and leaves open what it had
  not reached: `CleanExit` speaks of code 0, and `ScanEnds` allows for the end of
  the process.
* After a router race a peer's transport, or the producer it asks for, can be on
  the router that was replaced, and `canConsume` asks the other one
  (`media/sfu-service.ts:95`): it or the worker refuses. Only that there are two
  routers is stated, and found violated (`router_race`).
* A peer that is untracked while it holds slots may take as many again
  (`policy/peer-limits.ts:54`); its list of join attempts grows within a minute
  (`:109`); a refused address uses up the global quota
  (`policy/rate-limit-middleware.ts:90`). The properties allow for all three.
* A user handler that never settles holds its dispatch for ever
  (`events/event-bus.ts:127`): `PublishedEventsAudited` assumes that handlers
  settle. A payload that cannot be serialized makes `deliver` reject instead of
  counting a failure (`events/webhook-dispatcher.ts:69`).
* A clock that is set back stretches the limiter's windows
  (`policy/sliding-window-rate-limiter.ts:29`), nobody calls `prune` (`:103`),
  and a sample from the future makes all others of its peer old
  (`telemetry/peer-metrics-store.ts:197`). The models have a clock that does
  not run backwards and no sample from the future.
* `lastUpdatedAt` follows the last sample recorded, also one that is older
  (`telemetry/peer-metrics-store.ts:198`): the model has it, and staleness is
  checked as the code computes it.
* `untrackPeer` forgets a peer's join attempts (`policy/peer-limits.ts:35`).
* `issueToken` accepts room ids that the access policy refuses; `ChecksAgree`
  compares the two for well-formed ids.
* `server/app.ts:33` gives the admin service no worker provider, so the list of
  workers is always empty and `/admin/status` always reports `NO_WORKERS` and
  "unhealthy"; a call that leaves the worker section out reports it too. The
  option `maxRooms` of diagnostics never reaches `RoomInspector`.
* `clear` of telemetry keeps the last snapshot (`telemetry/telemetry-service.ts:169`),
  a snapshot filtered by quality keeps the unfiltered median and worst score
  (`telemetry/snapshot-builder.ts:160`), and the difference to the last
  snapshot (`:115`) is always zero because the builder has replaced it by then.
* `serializeLabels` (`metrics/types.ts:173`) does not escape its separators.

## Not modelled

* `EventService.audit`, which appends an entry of the caller's own beside those
  of the dispatches, and `EventBus.clear` of one event type: the models'
  subscribers all want one type, and `close` clears them all.
* Payloads: display names, RTP parameters, ICE candidates, codecs, error texts.
  Messages that fail a check are answered with an error and change nothing.
* `media.connectWebRtcTransport` and `media.resumeConsumer`: they change the
  state of one object inside a worker, and nothing that any property reads.
* Worker death, beyond `Lifecycle!Fail`: `WorkerPool` ends the process on it
  (`media/worker-pool.ts`). Media during a shutdown: `Signaling` has no
  shutdown and `Lifecycle` no media.
* Persistence: there is none, so there is no recovery to model.
* Codecs, errors, configuration (but for the checks that stop the start), the
  log, packaging: constants, wording and reading of files.
* The texts of the Prometheus formatter and of the admin reports, the
  validation of label names, the gauges that copy figures of the operating
  system.
* The RFC 3550 jitter and the confidence figures: smoothing in floating point,
  where a model on integers would be another program. The other estimators are
  on exact quotients, so what rounding of doubles could change at a tie is not
  seen.
