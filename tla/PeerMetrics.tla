---------------------------- MODULE PeerMetrics ----------------------------
(***************************************************************************)
(* PeerMetricsStore (apps/core/src/telemetry), as TelemetryService drives  *)
(* it: a record per peer, an index from rooms to their peers, and rolling  *)
(* lists of samples.                                                       *)
(*                                                                         *)
(* A sample is its timestamp and its number n in the order of recording;   *)
(* a list is the set of its samples, for n gives their order.  Samples may *)
(* be recorded late and out of order, but none is from the future.         *)
(***************************************************************************)
EXTENDS Naturals, FiniteSets

CONSTANTS Peers,
          Rooms,
          NoRoom,        \* the room of a peer without a record
          Kinds,         \* of samples: latency, bandwidth, packet loss
          RetentionMs,   \* rollingWindow.retentionMs
          MaxSamples,    \* rollingWindow.maxSamples
          MaxNow,        \* bound: the last instant
          MaxSerial      \* bound: samples recorded in a behaviour

ASSUME MetricsAssumption ==
    /\ NoRoom \notin Rooms
    /\ RetentionMs \in Nat
    /\ MaxSamples \in Nat \ {0}
    /\ MaxNow \in Nat
    /\ MaxSerial \in Nat

VARIABLES now,       \* Date.now()
          roomOf,    \* peers: peer -> roomId of its record, NoRoom if it has none
          keys,      \* the rooms that roomIndex has an entry for
          index,     \* roomIndex: room -> peers in its entry
          samples,   \* peer -> kind -> the samples in the list
          updated,   \* peer -> lastUpdatedAt of its record, 0 if it has none
          serial,    \* samples recorded so far
          recorded   \* history: peer -> kind -> all samples since create

metricsVars == <<now, roomOf, keys, index, samples, updated, serial, recorded>>

Sample == [at : Nat, n : Nat]
Empty == [kind \in Kinds |-> {}]
Known(p) == roomOf[p] # NoRoom

\* Types; a peer without a record has no samples.
MetricsTypeOK ==
    /\ now \in 0 .. MaxNow
    /\ roomOf \in [Peers -> Rooms \cup {NoRoom}]
    /\ keys \in SUBSET Rooms
    /\ index \in [Rooms -> SUBSET Peers]
    /\ samples \in [Peers -> [Kinds -> SUBSET Sample]]
    /\ updated \in [Peers -> Nat]
    /\ serial \in Nat
    /\ recorded \in [Peers -> [Kinds -> SUBSET Sample]]
    /\ \A p \in Peers : ~Known(p) => samples[p] = Empty

MetricsInit ==
    /\ now = 0
    /\ roomOf = [p \in Peers |-> NoRoom]
    /\ keys = {}
    /\ index = [r \in Rooms |-> {}]
    /\ samples = [p \in Peers |-> Empty]
    /\ updated = [p \in Peers |-> 0]
    /\ serial = 0
    /\ recorded = [p \in Peers |-> Empty]

-----------------------------------------------------------------------------
(* Records and the index. *)

\* unindexPeer for every peer in ps that has a record: it is taken out of its
\* record's room, and an entry that becomes empty is deleted.
Unindexed(ps) == [r \in Rooms |-> {q \in index[r] : ~(q \in ps /\ roomOf[q] = r)}]
KeysLeft(ps) == {r \in keys : (\E q \in ps : roomOf[q] = r) => Unindexed(ps)[r] # {}}

\* PeerMetricsStore.create, and getOrCreate of a peer that has no record; t is
\* the caller's connectedAt, or now.
Create(p, r, t) ==
    /\ ~Known(p)
    /\ t <= now
    /\ roomOf' = [roomOf EXCEPT ![p] = r]
    /\ index' = [index EXCEPT ![r] = @ \cup {p}]
    /\ keys' = keys \cup {r}
    /\ updated' = [updated EXCEPT ![p] = t]
    /\ UNCHANGED <<now, samples, serial, recorded>>

\* Mutant: the peer stays in the entry of the room it left.
UpdateIndexOnly(p, r) ==
    /\ Known(p)
    /\ roomOf' = [roomOf EXCEPT ![p] = r]
    /\ index' = [index EXCEPT ![r] = @ \cup {p}]
    /\ keys' = keys \cup {r}
    /\ updated' = [updated EXCEPT ![p] = now]
    /\ UNCHANGED <<now, samples, serial, recorded>>

\* PeerMetricsStore.update; r may be the room that the peer is in already.
Update(p, r) ==
    /\ Known(p)
    /\ roomOf' = [roomOf EXCEPT ![p] = r]
    /\ IF r = roomOf[p]
       THEN UNCHANGED <<index, keys>>
       ELSE /\ index' = [Unindexed({p}) EXCEPT ![r] = @ \cup {p}]
            /\ keys' = KeysLeft({p}) \cup {r}
    /\ updated' = [updated EXCEPT ![p] = now]
    /\ UNCHANGED <<now, samples, serial, recorded>>

\* The records of ps go, and their samples with them.
Drop(ps) ==
    /\ roomOf' = [p \in Peers |-> IF p \in ps THEN NoRoom ELSE roomOf[p]]
    /\ samples' = [p \in Peers |-> IF p \in ps THEN Empty ELSE samples[p]]
    /\ recorded' = [p \in Peers |-> IF p \in ps THEN Empty ELSE recorded[p]]
    /\ updated' = [p \in Peers |-> IF p \in ps THEN 0 ELSE updated[p]]
    /\ UNCHANGED <<now, serial>>

\* PeerMetricsStore.delete
Delete(p) ==
    /\ Known(p)
    /\ Drop({p})
    /\ index' = Unindexed({p})
    /\ keys' = KeysLeft({p})

\* PeerMetricsStore.deleteByRoom: delete for every peer in the index entry.
DeleteByRoom(r) ==
    /\ r \in keys
    /\ Drop(index[r])
    /\ index' = Unindexed(index[r])
    /\ keys' = KeysLeft(index[r])

\* PeerMetricsStore.clear
Clear ==
    /\ Drop(Peers)
    /\ index' = [r \in Rooms |-> {}]
    /\ keys' = {}

-----------------------------------------------------------------------------
(* Samples. *)

\* Mutant: a list that is too long loses its newest samples.
RetainedOldest(list, t) ==
    LET recent == {s \in list : s.at + RetentionMs >= t}
    IN {s \in recent : Cardinality({u \in recent : u.n < s.n}) < MaxSamples}

\* retainAllSamples and pruneSamples: what is recent enough at t, and of that
\* the maxSamples that were recorded last.  (The last filter of pruneSamples
\* passes every sample, for the list is not longer than maxSamples by then.)
Recent(list, t) == {s \in list : s.at + RetentionMs >= t}
After(list, s) == {u \in list : u.n > s.n}
Retained(list, t) == {s \in Recent(list, t) : Cardinality(After(Recent(list, t), s)) < MaxSamples}

\* recordLatency, recordBandwidth, recordPacketLoss with timestamp t.
Record(p, kind, t) ==
    LET s == [at |-> t, n |-> serial] IN
    /\ Known(p)
    /\ serial < MaxSerial
    /\ t <= now
    /\ samples' = [samples EXCEPT ![p][kind] = Retained(@ \cup {s}, t)]
    /\ recorded' = [recorded EXCEPT ![p][kind] = @ \cup {s}]
    /\ updated' = [updated EXCEPT ![p] = t]
    /\ serial' = serial + 1
    /\ UNCHANGED <<now, roomOf, keys, index>>

\* PeerMetricsStore.prune, of one peer or of all, at the current time.
Prune(ps) ==
    /\ samples' = [p \in Peers |-> IF p \in ps THEN [kind \in Kinds |-> Retained(samples[p][kind], now)]
                                               ELSE samples[p]]
    /\ UNCHANGED <<now, roomOf, keys, index, updated, serial, recorded>>

Tick(t) == /\ t > now
           /\ now' = t
           /\ UNCHANGED <<roomOf, keys, index, samples, updated, serial, recorded>>

MetricsNext ==
    \/ \E p \in Peers : \/ \E r \in Rooms, t \in 0 .. MaxNow : Create(p, r, t)
                        \/ \E r \in Rooms : Update(p, r)
                        \/ Delete(p)
                        \/ \E kind \in Kinds, t \in 0 .. MaxNow : Record(p, kind, t)
                        \/ Prune({p})
    \/ \E r \in Rooms : DeleteByRoom(r)
    \/ Clear
    \/ Prune(Peers)
    \/ \E t \in 1 .. MaxNow : Tick(t)

MetricsSpec == MetricsInit /\ [][MetricsNext]_metricsVars

-----------------------------------------------------------------------------
\* The index is the inverse of the records' rooms and has no empty entries, so
\* that countByRoom, list and deleteByRoom agree with the records.
IndexExact ==
    /\ \A r \in Rooms : index[r] = {p \in Peers : roomOf[p] = r}
    /\ keys = {roomOf[p] : p \in {q \in Peers : Known(q)}}

\* A sample is lost only when it is older than the retention time or when at
\* least maxSamples were recorded after it, however late samples arrive and
\* whenever the store is pruned.
LostOnlyOldOrExcess ==
    \A p \in Peers, kind \in Kinds : \A s \in recorded[p][kind] :
        \/ s \in samples[p][kind]
        \/ s.at + RetentionMs < now
        \/ Cardinality(After(recorded[p][kind], s)) >= MaxSamples

\* No list grows beyond maxSamples.
ListsBounded == \A p \in Peers, kind \in Kinds : Cardinality(samples[p][kind]) <= MaxSamples
=============================================================================
