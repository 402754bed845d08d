------------------------------ MODULE Telemetry ------------------------------
(***************************************************************************)
(* TelemetryService with its RoomMetricsAggregator and SnapshotBuilder     *)
(* (apps/core/src/telemetry), on top of PeerMetricsStore: operations that  *)
(* are several calls of the store, and the snapshots that are put together *)
(* from the store's room index and its records.                            *)
(***************************************************************************)
EXTENDS PeerMetrics, Sequences

CONSTANTS Latency,       \* the kind of sample that registerPeer may record
          StaleMs,       \* config.stalePeerThresholdMs
          MaxBatch       \* bound: samples that a batch records, from 2 on

ASSUME TelemetryAssumption ==
    /\ Latency \in Kinds
    /\ StaleMs \in Nat
    /\ MaxBatch \in Nat

\* TelemetryService.lastSnapshotAt is only reported and is left out.
VARIABLE snapshot        \* SnapshotBuilder.lastSnapshot: rooms and peers; no rooms before the first

telemetryVars == <<metricsVars, snapshot>>

TelemetryInit ==
    /\ MetricsInit
    /\ snapshot = [rooms |-> <<>>, peers |-> {}]

-----------------------------------------------------------------------------
(* Operations that call the store more than once. *)

\* registerPeer: create, and then recordLatency when an initial latency is
\* given.  An infinite one throws there, and the peer stays created without it.
RegisterPeer(p, r, t, measured) ==
    LET first == [at |-> now, n |-> serial]
        added == IF measured THEN {first} ELSE {}
    IN /\ ~Known(p)
       /\ t <= now
       /\ serial + Cardinality(added) <= MaxSerial
       /\ roomOf' = [roomOf EXCEPT ![p] = r]
       /\ index' = [index EXCEPT ![r] = @ \cup {p}]
       /\ keys' = keys \cup {r}
       /\ samples' = [samples EXCEPT ![p][Latency] = added]
       /\ recorded' = [recorded EXCEPT ![p][Latency] = added]
       /\ updated' = [updated EXCEPT ![p] = IF measured THEN now ELSE t]
       /\ serial' = serial + Cardinality(added)
       /\ UNCHANGED now

\* What recordBatch records, in the order in which its loops come to it,
\* latencies first.  At an invalid sample the store throws and what came before
\* it stays recorded: such a batch does what its part before that sample does.
BatchSample == [kind : Kinds, at : 0 .. MaxNow]
Batches == {batch \in UNION {[1 .. n -> BatchSample] : n \in 2 .. MaxBatch} :
              \A i, j \in DOMAIN batch : i < j /\ batch[j].kind = Latency => batch[i].kind = Latency}

\* One sample of a batch, recorded as Record does.
RecordOne(acc, e) ==
    LET s == [at |-> e.at, n |-> acc.n]
    IN [lists |-> [acc.lists EXCEPT ![e.kind] = Retained(@ \cup {s}, e.at)],
        all |-> [acc.all EXCEPT ![e.kind] = @ \cup {s}],
        n |-> acc.n + 1, last |-> e.at]

\* recordBatch, one sample after the other.
AfterBatch(before, batch) ==
    LET after[i \in 0 .. Len(batch)] == IF i = 0 THEN before ELSE RecordOne(after[i - 1], batch[i])
    IN after[Len(batch)]

RecordBatch(p, batch) ==
    LET before == [lists |-> samples[p], all |-> recorded[p], n |-> serial, last |-> updated[p]]
        after == AfterBatch(before, batch)
    IN /\ Known(p)
       /\ \A i \in DOMAIN batch : batch[i].at <= now
       /\ after.n <= MaxSerial
       /\ samples' = [samples EXCEPT ![p] = after.lists]
       /\ recorded' = [recorded EXCEPT ![p] = after.all]
       /\ updated' = [updated EXCEPT ![p] = after.last]
       /\ serial' = after.n
       /\ UNCHANGED <<now, roomOf, keys, index>>

-----------------------------------------------------------------------------
(* Aggregation and snapshots. *)

\* isStale of buildPeerMetrics
IsStale(p) == updated[p] + StaleMs < now

\* listRoomIds asks the records, and PeerMetricsStore.list of a room its index.
RoomIds == {roomOf[p] : p \in {q \in Peers : Known(q)}}
ListedIn(r) == {p \in Peers : Known(p) /\ p \in index[r]}

\* aggregateRoom: the metrics of the peers that are listed in r.
Aggregated(r) == {[peer |-> p, listed |-> r, room |-> roomOf[p], stale |-> IsStale(p)] : p \in ListedIn(r)}

\* computeRoomMetrics: peerCount and activePeerCount.
Counts(metrics) == [peers |-> Cardinality(metrics), active |-> Cardinality({m \in metrics : ~m.stale})]

\* allPeers of aggregateAllRooms
AllPeers == UNION {Aggregated(r) : r \in RoomIds}

\* Mutant: the counts of the rooms are made before the stale peers are left out.
BuildCountingStale ==
    LET count(r) == Cardinality({m \in AllPeers : m.room = r})
    IN /\ snapshot' = [rooms |-> [r \in RoomIds |-> [peers |-> count(r), active |-> count(r)]],
                       peers |-> {m \in AllPeers : ~m.stale}]
       /\ UNCHANGED metricsVars

\* buildSnapshot: all rooms, without the stale peers; the counts of the rooms
\* are made again from the peers that are left, by the room each one names.
BuildSnapshot ==
    LET peers == {m \in AllPeers : ~m.stale}
        count(r) == Cardinality({m \in peers : m.room = r})
    IN /\ snapshot' = [rooms |-> [r \in RoomIds |-> [peers |-> count(r), active |-> count(r)]],
                       peers |-> peers]
       /\ UNCHANGED metricsVars

\* buildRoomSnapshot: the stale peers are left out, but peerCount still has them.
BuildRoomSnapshot(r) ==
    /\ r \in keys /\ index[r] # {}
    /\ snapshot' = [rooms |-> [q \in {r} |-> Counts(Aggregated(r))],
                    peers |-> {m \in Aggregated(r) : ~m.stale}]
    /\ UNCHANGED metricsVars

\* filterByMinimumQuality, where good are the peers with the minimum score.
FilterByMinimumQuality(shot, good) ==
    LET peers == {m \in shot.peers : m.peer \in good}
        kept == DOMAIN shot.rooms \cap {m.room : m \in peers}
    IN [rooms |-> [r \in kept |-> Counts({m \in peers : m.room = r})], peers |-> peers]

\* TelemetryService.clear: the builder keeps its last snapshot.
ClearAll == /\ Clear
            /\ UNCHANGED snapshot

TelemetryNext ==
    \/ /\ \/ \E p \in Peers, r \in Rooms, t \in 0 .. MaxNow, measured \in BOOLEAN :
                RegisterPeer(p, r, t, measured)
          \/ \E p \in Peers, kind \in Kinds, t \in 0 .. MaxNow : Record(p, kind, t)
          \/ \E p \in Peers, batch \in Batches : RecordBatch(p, batch)
          \/ \E p \in Peers, r \in Rooms : Update(p, r)
          \/ \E p \in Peers : Delete(p) \/ Prune({p})
          \/ \E r \in Rooms : DeleteByRoom(r)
          \/ Prune(Peers)
          \/ \E t \in 1 .. MaxNow : Tick(t)
       /\ UNCHANGED snapshot
    \/ BuildSnapshot
    \/ \E r \in Rooms : BuildRoomSnapshot(r)
    \/ ClearAll

TelemetrySpec == TelemetryInit /\ [][TelemetryNext]_telemetryVars

-----------------------------------------------------------------------------
AddsUp(shot) ==
    /\ \A m \in shot.peers : m.listed = m.room /\ m.room \in DOMAIN shot.rooms
    /\ \A r \in DOMAIN shot.rooms :
         /\ shot.rooms[r].active = Cardinality({m \in shot.peers : m.room = r})
         /\ shot.rooms[r].active <= shot.rooms[r].peers
    /\ \A d, e \in shot.peers : d.peer = e.peer => d = e

\* A snapshot adds up, of one room or of all, although it is put together from
\* the index and from the records: it lists a peer once, under the room the
\* peer is in, and its total is the sum of the active peers of its rooms.  What
\* filterByMinimumQuality leaves of it adds up as well.
SnapshotAddsUp ==
    /\ AddsUp(snapshot)
    /\ \A good \in SUBSET Peers : AddsUp(FilterByMinimumQuality(snapshot, good))
=============================================================================
