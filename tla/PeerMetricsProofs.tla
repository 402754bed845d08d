------------------------- MODULE PeerMetricsProofs -------------------------
(***************************************************************************)
(* Proofs about PeerMetrics and Telemetry, for all peers, rooms, kinds,    *)
(* batches and bounds, and about Estimators, for all lists of samples and  *)
(* all figures.                                                            *)
(*                                                                         *)
(* The index part stands on its own.  For the samples, the invariant says  *)
(* of each list that it is a part of what was recorded, whose samples are  *)
(* numbered: a sample that Retained leaves out is then old, or followed by *)
(* maxSamples others, and stays so.  Recording one sample keeps that, and  *)
(* so a batch keeps it, by induction over its length.  Snapshots add up    *)
(* because the index is exact when they are built.  Scores rise with the   *)
(* figures because each of the four scales does.                           *)
(*                                                                         *)
(* The figures of a list rest on two facts: a sum is what its parts sum up *)
(* to and lies between so many times the least and the largest value, and  *)
(* of n numbers, at least k do not exceed the k-th of them when sorted,    *)
(* and fewer than k are smaller.                                           *)
(***************************************************************************)
EXTENDS Telemetry, Estimators, FiniteSetTheorems, WellFoundedInduction, TLAPS

\* What is wanted of a list, where all is what was recorded for it: what was
\* recorded is finite and numbered below n, and the list lacks nothing of it
\* but what is old at t or in excess.
ListOK(items, all, n, t) ==
    /\ all \in SUBSET Sample /\ IsFiniteSet(all)
    /\ \A s \in all : s.n < n
    /\ \A s, u \in all : s.n = u.n => s = u
    /\ items \subseteq all
    /\ \A s \in all : \/ s \in items
                      \/ s.at + RetentionMs < t
                      \/ Cardinality(After(all, s)) >= MaxSamples
    /\ Cardinality(items) <= MaxSamples

SamplesInv ==
    \A p \in Peers, kind \in Kinds : ListOK(samples[p][kind], recorded[p][kind], serial, now)

MetricsInv == MetricsTypeOK /\ IndexExact /\ SamplesInv

-----------------------------------------------------------------------------
(* What Retained does. *)

\* Retained only leaves out.
LEMMA RetainedSubset ==
    ASSUME NEW items, NEW t
    PROVE  Retained(items, t) \subseteq items
  BY DEF Retained, Recent

\* A sample that is left out is old or in excess of what was recorded.
LEMMA RetainedLoss ==
    ASSUME NEW all \in SUBSET Sample, IsFiniteSet(all), NEW items \in SUBSET all,
           NEW t \in Nat, NEW s \in items, s \notin Retained(items, t)
    PROVE  s.at + RetentionMs < t \/ Cardinality(After(all, s)) >= MaxSamples
  <1>1. RetentionMs \in Nat /\ MaxSamples \in Nat
    BY MetricsAssumption
  <1>2. s.at \in Nat
    BY DEF Sample
  <1>3. CASE s \notin Recent(items, t)
    BY <1>1, <1>2, <1>3 DEF Recent
  <1>4. CASE s \in Recent(items, t)
    <2>1. ~(Cardinality(After(Recent(items, t), s)) < MaxSamples)
      BY <1>4 DEF Retained
    <2>2. After(all, s) \subseteq all /\ After(Recent(items, t), s) \subseteq After(all, s)
      BY DEF After, Recent
    <2>3. IsFiniteSet(After(all, s))
      BY <2>2, FS_Subset
    <2>4. /\ Cardinality(After(Recent(items, t), s)) <= Cardinality(After(all, s))
          /\ IsFiniteSet(After(Recent(items, t), s))
      BY <2>2, <2>3, FS_Subset
    <2>5. /\ Cardinality(After(Recent(items, t), s)) \in Nat
          /\ Cardinality(After(all, s)) \in Nat
      BY <2>3, <2>4, FS_CardinalityType
    <2> QED  BY <2>1, <2>4, <2>5, <1>1
  <1> QED  BY <1>3, <1>4

\* A sample in excess stays in excess when more is recorded.
LEMMA ExcessGrows ==
    ASSUME NEW all, NEW more, all \subseteq more, IsFiniteSet(more), NEW s
    PROVE  /\ Cardinality(After(all, s)) <= Cardinality(After(more, s))
           /\ Cardinality(After(all, s)) \in Nat
           /\ Cardinality(After(more, s)) \in Nat
  <1>1. After(more, s) \subseteq more /\ After(all, s) \subseteq After(more, s)
    BY DEF After
  <1>2. IsFiniteSet(After(more, s))
    BY <1>1, FS_Subset
  <1>3. IsFiniteSet(After(all, s)) /\ Cardinality(After(all, s)) <= Cardinality(After(more, s))
    BY <1>1, <1>2, FS_Subset
  <1> QED  BY <1>2, <1>3, FS_CardinalityType

\* The samples left are told apart by how many follow them, which is less than
\* maxSamples.
LEMMA RetainedBounded ==
    ASSUME NEW items \in SUBSET Sample, IsFiniteSet(items), NEW t \in Nat,
           \A s, u \in items : s.n = u.n => s = u
    PROVE  Cardinality(Retained(items, t)) <= MaxSamples
  <1> DEFINE R == Recent(items, t)
             K == Retained(items, t)
             f == [s \in K |-> Cardinality(After(R, s))]
             B == 0 .. (MaxSamples - 1)
  <1>1. MaxSamples \in Nat \ {0}
    BY MetricsAssumption
  <1>2. /\ R \subseteq items
        /\ K \subseteq R
    BY DEF Recent, Retained
  <1>3. IsFiniteSet(R)
    BY <1>2, FS_Subset
  <1>4. \A s \in K : /\ IsFiniteSet(After(R, s))
                     /\ Cardinality(After(R, s)) \in Nat
    <2> SUFFICES ASSUME NEW s \in K
                 PROVE  IsFiniteSet(After(R, s)) /\ Cardinality(After(R, s)) \in Nat
      OBVIOUS
    <2>1. After(R, s) \subseteq R
      BY DEF After
    <2>2. IsFiniteSet(After(R, s))
      BY <2>1, <1>3, FS_Subset
    <2> QED  BY <2>2, FS_CardinalityType
  <1>5. f \in [K -> B]
    <2>1. \A s \in K : Cardinality(After(R, s)) < MaxSamples
      BY DEF Retained
    <2> HIDE DEF R, K
    <2> QED  BY <1>1, <1>4, <2>1
  <1>6. ASSUME NEW s \in K, NEW u \in K, s.n < u.n
        PROVE  f[s] # f[u]
    <2>1. /\ After(R, u) \subseteq After(R, s)
          /\ u \in After(R, s) /\ u \notin After(R, u)
      <3>1. \A v \in R : v.n \in Nat
        BY <1>2 DEF Sample
      <3>2. s \in R /\ u \in R
        BY <1>2
      <3> QED  BY <3>1, <3>2, <1>6 DEF After
    <2>2. Cardinality(After(R, s)) # Cardinality(After(R, u))
      BY <2>1, <1>4, FS_Subset
    <2> QED  BY <2>2
  <1>7. \A s, u \in K : f[s] = f[u] => s = u
    <2> SUFFICES ASSUME NEW s \in K, NEW u \in K, s # u
                 PROVE  f[s] # f[u]
      OBVIOUS
    <2>1. s.n \in Nat /\ u.n \in Nat /\ s.n # u.n
      BY <1>2 DEF Sample
    <2>2. s.n < u.n \/ u.n < s.n
      BY <2>1
    <2> HIDE DEF f
    <2> QED  BY <2>2, <1>6
  <1>8. f \in Injection(K, B)
    BY <1>5, <1>7, Zenon DEF Injection, IsInjective
  <1>9. IsFiniteSet(B) /\ Cardinality(B) = MaxSamples
    BY <1>1, FS_Interval
  <1> HIDE DEF f, K, B
  <1>10. Cardinality(K) <= Cardinality(B)
    BY <1>8, <1>9, FS_Injection
  <1> QED  BY <1>9, <1>10 DEF K

-----------------------------------------------------------------------------
(* The index. *)

\* Taking peers out of the index by their records is exact.
LEMMA UnindexedExact ==
    ASSUME MetricsTypeOK, IndexExact, NEW ps \in SUBSET Peers
    PROVE  /\ Unindexed(ps) \in [Rooms -> SUBSET Peers]
           /\ \A r \in Rooms : Unindexed(ps)[r] = {p \in Peers : roomOf[p] = r /\ p \notin ps}
           /\ KeysLeft(ps) = {roomOf[p] : p \in {q \in Peers : Known(q) /\ q \notin ps}}
  <1>1. Unindexed(ps) \in [Rooms -> SUBSET Peers]
    BY DEF Unindexed, MetricsTypeOK
  <1>2. \A r \in Rooms : Unindexed(ps)[r] = {p \in Peers : roomOf[p] = r /\ p \notin ps}
    BY DEF Unindexed, IndexExact
  <1>3. /\ roomOf \in [Peers -> Rooms \cup {NoRoom}]
        /\ keys = {roomOf[p] : p \in {q \in Peers : Known(q)}}
    BY DEF MetricsTypeOK, IndexExact
  <1>4. KeysLeft(ps) = {r \in keys : (\E q \in ps : roomOf[q] = r) => Unindexed(ps)[r] # {}}
    BY DEF KeysLeft
  <1> HIDE DEF Unindexed
  <1>5. ASSUME NEW r \in keys PROVE r \in Rooms
    BY <1>3 DEF Known
  <1>6. ASSUME NEW r \in KeysLeft(ps)
        PROVE  \E p \in Peers : Known(p) /\ p \notin ps /\ roomOf[p] = r
    <2>1. r \in keys /\ ((\E q \in ps : roomOf[q] = r) => Unindexed(ps)[r] # {})
      BY <1>4
    <2>2. CASE \E q \in ps : roomOf[q] = r
      BY <2>1, <2>2, <1>2, <1>5, MetricsAssumption DEF Known
    <2>3. CASE ~\E q \in ps : roomOf[q] = r
      BY <2>1, <2>3, <1>3
    <2> QED  BY <2>2, <2>3
  <1>7. ASSUME NEW p \in Peers, Known(p), p \notin ps
        PROVE  roomOf[p] \in KeysLeft(ps)
    <2>1. roomOf[p] \in keys /\ roomOf[p] \in Rooms
      BY <1>7, <1>3 DEF Known
    <2>2. p \in Unindexed(ps)[roomOf[p]]
      BY <2>1, <1>2, <1>7
    <2> QED  BY <2>1, <2>2, <1>4
  <1> QED  BY <1>1, <1>2, <1>6, <1>7

\* What create and update do to the record's room and to the index.
Entered(p, r) ==
    /\ roomOf' = [roomOf EXCEPT ![p] = r]
    /\ ~Known(p) => index' = [index EXCEPT ![r] = @ \cup {p}] /\ keys' = keys \cup {r}
    /\ Known(p) /\ roomOf[p] = r => UNCHANGED <<index, keys>>
    /\ Known(p) /\ roomOf[p] # r => /\ index' = [Unindexed({p}) EXCEPT ![r] = @ \cup {p}]
                                    /\ keys' = KeysLeft({p}) \cup {r}

\* They put the peer into its room's entry, and nowhere else.
LEMMA EnterKeepsIndex ==
    ASSUME MetricsTypeOK, IndexExact, NEW p \in Peers, NEW r \in Rooms, Entered(p, r)
    PROVE  /\ IndexExact'
           /\ roomOf' \in [Peers -> Rooms \cup {NoRoom}]
           /\ keys' \in SUBSET Rooms
           /\ index' \in [Rooms -> SUBSET Peers]
           /\ \A q \in Peers : ~Known(q)' => ~Known(q)
  <1>1. /\ roomOf \in [Peers -> Rooms \cup {NoRoom}]
        /\ keys \in SUBSET Rooms
        /\ index \in [Rooms -> SUBSET Peers]
        /\ NoRoom \notin Rooms
    BY MetricsAssumption DEF MetricsTypeOK
  <1>2. roomOf' = [roomOf EXCEPT ![p] = r]
    BY DEF Entered
  <1>3. roomOf' \in [Peers -> Rooms \cup {NoRoom}]
    BY <1>1, <1>2
  <1>4. \A q \in Peers : ~Known(q)' => ~Known(q)
    BY <1>1, <1>2 DEF Known
  <1>5. CASE Known(p) /\ roomOf[p] = r
    <2>1. roomOf' = roomOf /\ index' = index /\ keys' = keys
      BY <1>1, <1>2, <1>5 DEF Entered
    <2> QED  BY <2>1, <1>1, <1>3, <1>4 DEF IndexExact, Known
  <1>6. CASE ~(Known(p) /\ roomOf[p] = r)
    <2> DEFINE idx == IF Known(p) THEN Unindexed({p}) ELSE index
               ks == IF Known(p) THEN KeysLeft({p}) ELSE keys
    <2>1. /\ idx \in [Rooms -> SUBSET Peers]
          /\ \A s \in Rooms : idx[s] = {q \in Peers : roomOf[q] = s /\ q # p}
          /\ ks = {roomOf[q] : q \in {x \in Peers : Known(x) /\ x # p}}
      <3>1. CASE Known(p)
        BY <3>1, UnindexedExact
      <3>2. CASE ~Known(p)
        <4>1. \A s \in Rooms : index[s] = {q \in Peers : roomOf[q] = s /\ q # p}
          BY <3>2, <1>1 DEF IndexExact, Known
        <4>2. keys = {roomOf[q] : q \in {x \in Peers : Known(x) /\ x # p}}
          BY <3>2 DEF IndexExact
        <4> QED  BY <3>2, <4>1, <4>2, <1>1
      <3> QED  BY <3>1, <3>2
    <2>2. index' = [idx EXCEPT ![r] = @ \cup {p}] /\ keys' = ks \cup {r}
      BY <1>6 DEF Entered
    <2> HIDE DEF idx, ks
    <2>3. \A s \in Rooms : index'[s] = {q \in Peers : roomOf'[q] = s}
      BY <2>1, <2>2, <1>1, <1>2
    <2>4. keys' = {roomOf'[q] : q \in {x \in Peers : Known(x)'}}
      <3>1. \A q \in Peers : q # p => roomOf'[q] = roomOf[q]
        BY <1>1, <1>2
      <3>2. roomOf'[p] = r
        BY <1>1, <1>2
      <3> QED  BY <3>1, <3>2, <2>1, <2>2, <1>1 DEF Known
    <2>5. keys' \in SUBSET Rooms /\ index' \in [Rooms -> SUBSET Peers]
      <3>1. ks \in SUBSET Rooms
        BY <2>1, <1>1 DEF Known
      <3> QED  BY <3>1, <2>1, <2>2
    <2> QED  BY <2>3, <2>4, <2>5, <1>3, <1>4 DEF IndexExact
  <1> QED  BY <1>5, <1>6

\* Dropped peers leave the records and the index together.
LEMMA DropKeepsIndex ==
    ASSUME MetricsTypeOK, IndexExact, NEW ps \in SUBSET Peers, Drop(ps),
           index' = Unindexed(ps), keys' = KeysLeft(ps)
    PROVE  MetricsTypeOK' /\ IndexExact'
  <1>1. /\ roomOf \in [Peers -> Rooms \cup {NoRoom}]
        /\ NoRoom \notin Rooms
    BY MetricsAssumption DEF MetricsTypeOK
  <1>2. roomOf' = [p \in Peers |-> IF p \in ps THEN NoRoom ELSE roomOf[p]]
    BY DEF Drop
  <1>3. /\ \A r \in Rooms : index'[r] = {p \in Peers : roomOf'[p] = r}
        /\ keys' = {roomOf'[p] : p \in {q \in Peers : Known(q)'}}
    BY <1>1, <1>2, UnindexedExact DEF Known
  <1>4. index' \in [Rooms -> SUBSET Peers] /\ keys' \in SUBSET Rooms
    BY <1>1, UnindexedExact DEF Known
  <1>5. /\ samples' \in [Peers -> [Kinds -> SUBSET Sample]]
        /\ recorded' \in [Peers -> [Kinds -> SUBSET Sample]]
        /\ updated' \in [Peers -> Nat]
        /\ roomOf' \in [Peers -> Rooms \cup {NoRoom}]
        /\ now' = now /\ serial' = serial
    BY DEF Drop, MetricsTypeOK, Empty
  <1>6. \A p \in Peers : ~Known(p)' => samples'[p] = Empty
    BY <1>2 DEF Drop, Known, MetricsTypeOK
  <1> QED  BY <1>3, <1>4, <1>5, <1>6 DEF MetricsTypeOK, IndexExact

-----------------------------------------------------------------------------
(* The samples. *)

\* The instants and numbers of a state.
LEMMA StateNumbers ==
    ASSUME MetricsTypeOK
    PROVE  /\ now \in Nat /\ serial \in Nat /\ MaxNow \in Nat
           /\ RetentionMs \in Nat /\ MaxSamples \in Nat \ {0}
  <1>1. now \in 0 .. MaxNow /\ MaxNow \in Nat
    BY MetricsAssumption DEF MetricsTypeOK
  <1> QED  BY <1>1, MetricsAssumption DEF MetricsTypeOK

\* Nothing is missing from what is empty.
LEMMA EmptyListOK ==
    ASSUME NEW n, NEW t
    PROVE  ListOK({}, {}, n, t)
  <1>1. IsFiniteSet({}) /\ Cardinality({}) = 0 /\ MaxSamples \in Nat
    BY FS_EmptySet, MetricsAssumption
  <1> QED  BY <1>1 DEF ListOK

\* A list with its only sample.
LEMMA FirstListOK ==
    ASSUME NEW s \in Sample, NEW n \in Nat, s.n < n, NEW t
    PROVE  ListOK({s}, {s}, n, t)
  <1>1. IsFiniteSet({s}) /\ Cardinality({s}) = 1 /\ MaxSamples \in Nat \ {0}
    BY FS_Singleton, MetricsAssumption
  <1> QED  BY <1>1 DEF ListOK

\* What is missing stays old and in excess.
LEMMA LaterListOK ==
    ASSUME NEW items, NEW all, NEW n \in Nat, NEW t \in Nat, ListOK(items, all, n, t),
           NEW m \in Nat, NEW u \in Nat, n <= m, t <= u
    PROVE  ListOK(items, all, m, u)
  <1>1. \A s \in all : s.at \in Nat /\ s.n \in Nat
    BY DEF ListOK, Sample
  <1>2. RetentionMs \in Nat
    BY MetricsAssumption
  <1>3. \A s \in all : s.n < m
    BY <1>1 DEF ListOK
  <1>4. \A s \in all : s.at + RetentionMs < t => s.at + RetentionMs < u
    BY <1>1, <1>2
  <1> QED  BY <1>3, <1>4 DEF ListOK

\* Trimming a list forgets only what is old or in excess.
LEMMA RetainedListOK ==
    ASSUME NEW items, NEW all, NEW n \in Nat, NEW t \in Nat, ListOK(items, all, n, t),
           NEW at \in Nat, at <= t
    PROVE  ListOK(Retained(items, at), all, n, t)
  <1>1. /\ all \in SUBSET Sample /\ IsFiniteSet(all) /\ items \in SUBSET all
        /\ \A s, u \in all : s.n = u.n => s = u
    BY DEF ListOK
  <1>2. Retained(items, at) \subseteq items
    BY RetainedSubset
  <1>3. RetentionMs \in Nat /\ \A s \in all : s.at \in Nat
    BY <1>1, MetricsAssumption DEF Sample
  <1>4. ASSUME NEW s \in all
        PROVE  \/ s \in Retained(items, at)
               \/ s.at + RetentionMs < t
               \/ Cardinality(After(all, s)) >= MaxSamples
    <2>1. CASE s \in items /\ s \notin Retained(items, at)
      <3>1. s.at + RetentionMs < at \/ Cardinality(After(all, s)) >= MaxSamples
        BY <1>1, <2>1, RetainedLoss
      <3>2. s.at + RetentionMs \in Nat
        BY <1>3
      <3>3. s.at + RetentionMs < at => s.at + RetentionMs < t
        BY <3>2
      <3> QED  BY <3>1, <3>3
    <2>2. CASE s \notin items
      BY <2>2 DEF ListOK
    <2> QED  BY <2>1, <2>2
  <1>5. Cardinality(Retained(items, at)) <= MaxSamples
    <2>1. items \in SUBSET Sample /\ IsFiniteSet(items) /\ \A s, u \in items : s.n = u.n => s = u
      BY <1>1, FS_Subset
    <2> QED  BY <2>1, RetainedBounded
  <1> QED  BY <1>1, <1>2, <1>4, <1>5 DEF ListOK

\* A sample that is recorded is not missing, and what it pushes out is in
\* excess.
LEMMA RecordedListOK ==
    ASSUME NEW items, NEW all, NEW n \in Nat, NEW t \in Nat, ListOK(items, all, n, t),
           NEW at \in Nat, at <= t, NEW new, new = [at |-> at, n |-> n]
    PROVE  ListOK(Retained(items \cup {new}, at), all \cup {new}, n + 1, t)
  <1> DEFINE more == all \cup {new}
             longer == items \cup {new}
  <1>1. new \in Sample /\ new.n = n
    BY DEF Sample
  <1>2. /\ all \in SUBSET Sample /\ IsFiniteSet(all) /\ items \subseteq all
        /\ \A s \in all : s.n < n
        /\ \A s, u \in all : s.n = u.n => s = u
    BY DEF ListOK
  <1>3. \A s \in all : s.n \in Nat
    BY <1>2 DEF Sample
  <1>4. more \in SUBSET Sample /\ IsFiniteSet(more) /\ longer \in SUBSET more
    BY <1>1, <1>2, FS_AddElement
  <1>5. \A s \in more : s.n < n + 1
    BY <1>1, <1>2, <1>3
  <1>6. \A s, u \in more : s.n = u.n => s = u
    BY <1>1, <1>2, <1>3
  <1>7. all \subseteq more
    OBVIOUS
  <1>8. RetentionMs \in Nat /\ MaxSamples \in Nat /\ \A s \in more : s.at \in Nat
    BY <1>4, MetricsAssumption DEF Sample
  <1>9. \A s \in more : s \in longer \/ s \in all
    OBVIOUS
  <1>10. \A s \in items : s \in longer
    OBVIOUS
  <1> HIDE DEF more, longer
  <1>11. ASSUME NEW s \in more
         PROVE  \/ s \in Retained(longer, at)
                \/ s.at + RetentionMs < t
                \/ Cardinality(After(more, s)) >= MaxSamples
    <2>1. CASE s \in longer /\ s \notin Retained(longer, at)
      <3>1. s.at + RetentionMs < at \/ Cardinality(After(more, s)) >= MaxSamples
        BY <1>4, <2>1, RetainedLoss
      <3>2. s.at + RetentionMs \in Nat
        BY <1>8
      <3>3. s.at + RetentionMs < at => s.at + RetentionMs < t
        BY <3>2
      <3> QED  BY <3>1, <3>3
    <2>2. CASE s \notin longer
      <3>1. s \in all /\ s \notin items
        BY <1>9, <1>10, <2>2
      <3>2. s.at + RetentionMs < t \/ Cardinality(After(all, s)) >= MaxSamples
        BY <3>1 DEF ListOK
      <3>3. /\ Cardinality(After(all, s)) <= Cardinality(After(more, s))
            /\ Cardinality(After(all, s)) \in Nat
            /\ Cardinality(After(more, s)) \in Nat
        BY <1>4, <1>7, ExcessGrows
      <3> QED  BY <1>8, <3>2, <3>3
    <2> QED  BY <2>1, <2>2
  <1>12. /\ Retained(longer, at) \subseteq more
         /\ Cardinality(Retained(longer, at)) <= MaxSamples
    <2>1. longer \in SUBSET Sample /\ IsFiniteSet(longer) /\ \A s, u \in longer : s.n = u.n => s = u
      BY <1>4, <1>6, FS_Subset
    <2> QED  BY <2>1, <1>4, RetainedBounded, RetainedSubset
  <1>13. ListOK(Retained(longer, at), more, n + 1, t)
    BY <1>4, <1>5, <1>6, <1>11, <1>12 DEF ListOK
  <1> QED  BY <1>13 DEF more, longer

\* Lists that stay as they are, or become empty, stay right.
LEMMA QuietKeepsSamples ==
    ASSUME MetricsTypeOK, SamplesInv, MetricsTypeOK', serial <= serial', now <= now',
           \A p \in Peers, kind \in Kinds :
              \/ samples'[p][kind] = samples[p][kind] /\ recorded'[p][kind] = recorded[p][kind]
              \/ ListOK(samples[p][kind]', recorded[p][kind]', serial', now')
    PROVE  SamplesInv'
  <1>1. now \in Nat /\ serial \in Nat
    BY StateNumbers
  <1>2. now' \in Nat /\ serial' \in Nat
    <2>1. now' \in 0 .. MaxNow /\ MaxNow \in Nat /\ serial' \in Nat
      BY MetricsAssumption DEF MetricsTypeOK
    <2> QED  BY <2>1
  <1>3. \A p \in Peers, kind \in Kinds : ListOK(samples[p][kind], recorded[p][kind], serial', now')
    BY <1>1, <1>2, LaterListOK DEF SamplesInv
  <1>4. ASSUME NEW p \in Peers, NEW kind \in Kinds
        PROVE  ListOK(samples[p][kind], recorded[p][kind], serial, now)'
    BY <1>3 DEF ListOK, After
  <1> QED  BY <1>4 DEF SamplesInv

-----------------------------------------------------------------------------
(* The operations of the store. *)

\* The room and the index of a record change, lists do not.
LEMMA EnterKeepsMetrics ==
    ASSUME MetricsInv, NEW p \in Peers, NEW r \in Rooms,
           (\E t \in 0 .. MaxNow : Create(p, r, t)) \/ Update(p, r)
    PROVE  MetricsInv'
  <1>1. MetricsTypeOK /\ IndexExact /\ SamplesInv
    BY DEF MetricsInv
  <1>2. now \in Nat /\ serial \in Nat /\ MaxNow \in Nat
    BY <1>1, StateNumbers
  <1>3. /\ \E t \in Nat : updated' = [updated EXCEPT ![p] = t]
        /\ UNCHANGED <<now, samples, serial, recorded>>
    BY <1>2 DEF Create, Update
  <1>4. Entered(p, r)
    BY DEF Create, Update, Entered
  <1>5. MetricsTypeOK' /\ IndexExact'
    BY <1>1, <1>3, <1>4, EnterKeepsIndex DEF MetricsTypeOK
  <1>6. SamplesInv'
    BY <1>1, <1>2, <1>3, <1>5, QuietKeepsSamples
  <1> QED  BY <1>5, <1>6 DEF MetricsInv

\* The lists of dropped peers are empty.
LEMMA DropKeepsMetrics ==
    ASSUME MetricsInv, NEW ps \in SUBSET Peers, Drop(ps), MetricsTypeOK', IndexExact'
    PROVE  MetricsInv'
  <1>1. MetricsTypeOK /\ IndexExact /\ SamplesInv
    BY DEF MetricsInv
  <1>2. now \in Nat /\ serial \in Nat
    BY <1>1, StateNumbers
  <1>3. now' = now /\ serial' = serial
    BY DEF Drop
  <1>4. ASSUME NEW p \in Peers, NEW kind \in Kinds
        PROVE  \/ samples'[p][kind] = samples[p][kind] /\ recorded'[p][kind] = recorded[p][kind]
               \/ ListOK(samples[p][kind]', recorded[p][kind]', serial', now')
    <2>1. CASE p \in ps
      <3>1. samples'[p][kind] = {} /\ recorded'[p][kind] = {}
        BY <2>1 DEF Drop, Empty
      <3> QED  BY <3>1, EmptyListOK
    <2>2. CASE p \notin ps
      BY <2>2 DEF Drop
    <2> QED  BY <2>1, <2>2
  <1>5. SamplesInv'
    BY <1>1, <1>2, <1>3, <1>4, QuietKeepsSamples
  <1> QED  BY <1>5 DEF MetricsInv

\* A sample is recorded in one list.
LEMMA RecordKeepsMetrics ==
    ASSUME MetricsInv, NEW p \in Peers, NEW kind \in Kinds, NEW t \in 0 .. MaxNow, Record(p, kind, t)
    PROVE  MetricsInv'
  <1> DEFINE new == [at |-> t, n |-> serial]
             items == samples[p][kind]
             all == recorded[p][kind]
             kept == Retained(items \cup {new}, t)
  <1>1. MetricsTypeOK /\ IndexExact /\ SamplesInv
    BY DEF MetricsInv
  <1>2. now \in Nat /\ serial \in Nat /\ t \in Nat /\ t <= now /\ serial <= serial + 1
    <2>1. now \in Nat /\ serial \in Nat /\ MaxNow \in Nat
      BY <1>1, StateNumbers
    <2> QED  BY <2>1 DEF Record
  <1>3. /\ samples' = [samples EXCEPT ![p][kind] = kept]
        /\ recorded' = [recorded EXCEPT ![p][kind] = all \cup {new}]
        /\ updated' = [updated EXCEPT ![p] = t]
        /\ serial' = serial + 1
        /\ UNCHANGED <<now, roomOf, keys, index>>
        /\ Known(p)
    BY DEF Record
  <1>4. ListOK(items, all, serial, now)
    BY <1>1 DEF SamplesInv
  <1> HIDE DEF items, all
  <1>5. ListOK(kept, all \cup {new}, serial + 1, now)
    BY <1>2, <1>4, RecordedListOK
  <1>6. kept \in SUBSET Sample /\ all \cup {new} \in SUBSET Sample
    BY <1>5 DEF ListOK
  <1> HIDE DEF kept, new
  <1>7. MetricsTypeOK'
    <2>1. /\ samples' \in [Peers -> [Kinds -> SUBSET Sample]]
          /\ recorded' \in [Peers -> [Kinds -> SUBSET Sample]]
      BY <1>1, <1>3, <1>6 DEF MetricsTypeOK
    <2>2. updated' \in [Peers -> Nat]
      BY <1>1, <1>2, <1>3 DEF MetricsTypeOK
    <2>3. \A q \in Peers : ~Known(q)' => samples'[q] = Empty
      BY <1>1, <1>3 DEF MetricsTypeOK, Known
    <2> QED  BY <1>1, <1>2, <1>3, <2>1, <2>2, <2>3 DEF MetricsTypeOK
  <1>8. IndexExact'
    BY <1>1, <1>3 DEF IndexExact, Known
  <1>9. ASSUME NEW q \in Peers, NEW k \in Kinds
        PROVE  \/ samples'[q][k] = samples[q][k] /\ recorded'[q][k] = recorded[q][k]
               \/ ListOK(samples[q][k]', recorded[q][k]', serial', now')
    <2>1. CASE q = p /\ k = kind
      <3>1. samples'[q][k] = kept /\ recorded'[q][k] = all \cup {new}
        BY <1>1, <1>3, <2>1 DEF MetricsTypeOK
      <3> QED  BY <3>1, <1>3, <1>5
    <2>2. CASE ~ (q = p /\ k = kind)
      BY <1>1, <1>3, <2>2 DEF MetricsTypeOK
    <2> QED  BY <2>1, <2>2
  <1>10. SamplesInv'
    <2>1. serial <= serial' /\ now <= now'
      BY <1>2, <1>3
    <2> QED  BY <1>1, <1>7, <1>9, <2>1, QuietKeepsSamples
  <1> QED  BY <1>7, <1>8, <1>10 DEF MetricsInv

\* Pruning forgets only what is old.
LEMMA PruneKeepsMetrics ==
    ASSUME MetricsInv, NEW ps \in SUBSET Peers, Prune(ps)
    PROVE  MetricsInv'
  <1>1. MetricsTypeOK /\ IndexExact /\ SamplesInv
    BY DEF MetricsInv
  <1>2. now \in Nat /\ serial \in Nat
    BY <1>1, StateNumbers
  <1>3. UNCHANGED <<now, roomOf, keys, index, updated, serial, recorded>>
    BY DEF Prune
  <1>4. ASSUME NEW p \in Peers, NEW kind \in Kinds
        PROVE  \/ samples'[p][kind] = samples[p][kind]
               \/ samples'[p][kind] = Retained(samples[p][kind], now)
    BY DEF Prune
  <1>5. MetricsTypeOK'
    <2>1. ASSUME NEW p \in Peers, NEW kind \in Kinds
          PROVE  Retained(samples[p][kind], now) \in SUBSET Sample
      <3>1. samples[p][kind] \in SUBSET Sample
        BY <1>1 DEF MetricsTypeOK
      <3> QED  BY <3>1, RetainedSubset
    <2>2. samples' \in [Peers -> [Kinds -> SUBSET Sample]]
      BY <1>1, <2>1 DEF Prune, MetricsTypeOK
    <2>3. Retained({}, now) = {}
      BY RetainedSubset
    <2>4. \A p \in Peers : ~Known(p) => samples'[p] = Empty
      BY <1>1, <2>3 DEF Prune, MetricsTypeOK, Empty
    <2> QED  BY <1>1, <1>3, <2>2, <2>4 DEF MetricsTypeOK, Known
  <1>6. IndexExact'
    BY <1>1, <1>3 DEF IndexExact, Known
  <1>7. ASSUME NEW p \in Peers, NEW kind \in Kinds
        PROVE  \/ samples'[p][kind] = samples[p][kind] /\ recorded'[p][kind] = recorded[p][kind]
               \/ ListOK(samples[p][kind]', recorded[p][kind]', serial', now')
    <2>1. ListOK(samples[p][kind], recorded[p][kind], serial, now)
      BY <1>1 DEF SamplesInv
    <2>2. ListOK(Retained(samples[p][kind], now), recorded[p][kind], serial, now)
      BY <1>2, <2>1, RetainedListOK
    <2> QED  BY <1>3, <1>4, <2>2
  <1>8. SamplesInv'
    BY <1>1, <1>2, <1>3, <1>5, <1>7, QuietKeepsSamples
  <1> QED  BY <1>5, <1>6, <1>8 DEF MetricsInv

-----------------------------------------------------------------------------
(* The store's invariant holds. *)

\* In the initial state nothing is known and nothing recorded.
LEMMA MetricsInitInv ==
    ASSUME MetricsInit
    PROVE  MetricsInv
  <1>1. MetricsTypeOK
    BY MetricsAssumption DEF MetricsInit, MetricsTypeOK, Empty, Known
  <1>2. IndexExact
    BY MetricsAssumption DEF MetricsInit, IndexExact, Known
  <1>3. \A p \in Peers, kind \in Kinds : samples[p][kind] = {} /\ recorded[p][kind] = {}
    BY DEF MetricsInit, Empty
  <1>4. SamplesInv
    BY <1>3, EmptyListOK DEF SamplesInv
  <1> QED  BY <1>1, <1>2, <1>4 DEF MetricsInv

\* The operations that are steps of the store and of the service alike.
StoreStep ==
    \/ \E p \in Peers, kind \in Kinds, t \in 0 .. MaxNow : Record(p, kind, t)
    \/ \E p \in Peers, r \in Rooms : Update(p, r)
    \/ \E p \in Peers : Delete(p) \/ Prune({p})
    \/ \E r \in Rooms : DeleteByRoom(r)
    \/ Clear
    \/ Prune(Peers)
    \/ \E t \in 1 .. MaxNow : Tick(t)

LEMMA StoreStepInv ==
    ASSUME MetricsInv, StoreStep
    PROVE  MetricsInv'
  <1>1. MetricsTypeOK /\ IndexExact /\ SamplesInv
    BY DEF MetricsInv
  <1>2. now \in Nat /\ serial \in Nat /\ MaxNow \in Nat
    BY <1>1, StateNumbers
  <1>3. ASSUME NEW p \in Peers, Delete(p)
        PROVE  MetricsInv'
    BY <1>1, <1>3, DropKeepsMetrics, DropKeepsIndex DEF Delete
  <1>4. ASSUME NEW r \in Rooms, DeleteByRoom(r)
        PROVE  MetricsInv'
    <2>1. index[r] \in SUBSET Peers
      BY <1>1 DEF MetricsTypeOK
    <2> QED  BY <2>1, <1>1, <1>4, DropKeepsMetrics, DropKeepsIndex DEF DeleteByRoom
  <1>5. CASE Clear
    <2>1. roomOf' = [p \in Peers |-> NoRoom]
      BY <1>5 DEF Clear, Drop
    <2>2. IndexExact'
      BY <1>5, <2>1, MetricsAssumption DEF Clear, IndexExact, Known
    <2>3. MetricsTypeOK'
      BY <1>1, <1>5, <2>1 DEF Clear, Drop, MetricsTypeOK, Empty, Known
    <2> QED  BY <2>2, <2>3, <1>5, DropKeepsMetrics DEF Clear
  <1>6. ASSUME NEW t \in 1 .. MaxNow, Tick(t)
        PROVE  MetricsInv'
    <2>1. /\ now' = t /\ now <= t /\ t \in 0 .. MaxNow
          /\ UNCHANGED <<roomOf, keys, index, samples, updated, serial, recorded>>
      BY <1>2, <1>6 DEF Tick
    <2>2. MetricsTypeOK' /\ IndexExact'
      BY <1>1, <2>1 DEF MetricsTypeOK, IndexExact, Known
    <2>3. SamplesInv'
      BY <1>1, <1>2, <2>1, <2>2, QuietKeepsSamples
    <2> QED  BY <2>2, <2>3 DEF MetricsInv
  <1>7. ASSUME NEW p \in Peers, Prune({p})
        PROVE  MetricsInv'
    BY <1>7, PruneKeepsMetrics
  <1>8. CASE Prune(Peers)
    BY <1>8, PruneKeepsMetrics
  <1>9. ASSUME NEW p \in Peers, NEW kind \in Kinds, NEW t \in 0 .. MaxNow, Record(p, kind, t)
        PROVE  MetricsInv'
    BY <1>9, RecordKeepsMetrics
  <1>10. ASSUME NEW p \in Peers, NEW r \in Rooms, Update(p, r)
         PROVE  MetricsInv'
    BY <1>10, EnterKeepsMetrics
  <1> QED  BY <1>3, <1>4, <1>5, <1>6, <1>7, <1>8, <1>9, <1>10 DEF StoreStep

\* A step that leaves the store alone.
LEMMA StoreStutterInv ==
    ASSUME MetricsInv, UNCHANGED metricsVars
    PROVE  MetricsInv'
  BY DEF metricsVars, MetricsInv, MetricsTypeOK, IndexExact, Known, SamplesInv, ListOK, After

\* The store's inductive invariant holds in every reachable state.
THEOREM MetricsInvariance == MetricsSpec => []MetricsInv
  <1>1. MetricsInit => MetricsInv
    BY MetricsInitInv
  <1>2. ASSUME MetricsInv, [MetricsNext]_metricsVars
        PROVE  MetricsInv'
    <2>1. \/ StoreStep
          \/ \E p \in Peers, r \in Rooms, t \in 0 .. MaxNow : Create(p, r, t)
          \/ UNCHANGED metricsVars
      BY <1>2 DEF MetricsNext, StoreStep
    <2>2. ASSUME NEW p \in Peers, NEW r \in Rooms, NEW t \in 0 .. MaxNow, Create(p, r, t)
          PROVE  MetricsInv'
      BY <1>2, <2>2, EnterKeepsMetrics
    <2> QED  BY <1>2, <2>1, <2>2, StoreStepInv, StoreStutterInv
  <1> QED  BY <1>1, <1>2, PTL DEF MetricsSpec

\* Type correctness; a peer without a record has no samples.
THEOREM MetricsTypes == MetricsSpec => []MetricsTypeOK
  <1>1. MetricsInv => MetricsTypeOK
    BY DEF MetricsInv
  <1> QED  BY <1>1, MetricsInvariance, PTL

\* What the invariant says of all lists.
LEMMA SamplesResults == MetricsInv => IndexExact /\ LostOnlyOldOrExcess /\ ListsBounded
  BY DEF MetricsInv, SamplesInv, ListOK, LostOnlyOldOrExcess, ListsBounded

\* The room index and the records agree, for any number of peers and rooms.
THEOREM IndexStaysExact == MetricsSpec => []IndexExact
  BY SamplesResults, MetricsInvariance, PTL

\* No sample that is young enough and among the last maxSamples is ever lost.
THEOREM NothingLostEarly == MetricsSpec => []LostOnlyOldOrExcess
  BY SamplesResults, MetricsInvariance, PTL

\* No list ever holds more than maxSamples.
THEOREM ListsStayBounded == MetricsSpec => []ListsBounded
  BY SamplesResults, MetricsInvariance, PTL

-----------------------------------------------------------------------------
(* Batches. *)

\* A set of numbers that is not empty has a least one.
LEMMA LeastNumber ==
    ASSUME NEW T \in SUBSET Nat, T # {}
    PROVE  \E x \in T : \A y \in T : x <= y
  <1>1. PICK x \in T : \A y \in T : ~ (<<y, x>> \in OpToRel(<, Nat))
    BY NatLessThanWellFounded, WFMin
  <1>2. \A y \in T : ~ (y < x)
    BY <1>1 DEF OpToRel
  <1> QED  BY <1>2

\* What holds at 0, and at each number when it holds at the one before, holds
\* up to n.
LEMMA HoldsUpTo ==
    ASSUME NEW n \in Nat, NEW T, 0 \in T, \A i \in 1 .. n : i - 1 \in T => i \in T
    PROVE  \A i \in 0 .. n : i \in T
  <1> DEFINE out == {i \in 0 .. n : i \notin T}
  <1> SUFFICES ASSUME out # {} PROVE FALSE
    OBVIOUS
  <1>1. out \in SUBSET Nat
    OBVIOUS
  <1>2. PICK x \in out : \A y \in out : x <= y
    BY <1>1, LeastNumber
  <1>3. x \in 1 .. n /\ x \notin T
    BY <1>2
  <1>4. x - 1 \in 0 .. n /\ x - 1 < x
    BY <1>3
  <1>5. x - 1 \in T
    BY <1>2, <1>4
  <1> QED  BY <1>3, <1>5

\* The functions g[1] .. g[n] on S, applied to a one after the other.
Steps(S, n) == [1 .. n -> [S -> S]]
IsRun(f, a, S, n, g) == f \in [0 .. n -> S] /\ f[0] = a /\ \A i \in 1 .. n : f[i] = g[i][f[i - 1]]

\* There is such a run.
LEMMA RunExists ==
    ASSUME NEW S, NEW a \in S, NEW n \in Nat, NEW g \in Steps(S, n)
    PROVE  \E f : IsRun(f, a, S, n, g)
  <1> DEFINE Upto(k, f) == f \in [0 .. k -> S] /\ f[0] = a /\ \A i \in 1 .. k : f[i] = g[i][f[i - 1]]
             T == {k \in 0 .. n : \E f : Upto(k, f)}
  <1>1. 0 \in T
    <2> DEFINE f == [i \in 0 .. 0 |-> a]
    <2>1. Upto(0, f)
      OBVIOUS
    <2>2. 0 \in 0 .. n
      OBVIOUS
    <2> HIDE DEF Upto, f
    <2> QED  BY <2>1, <2>2
  <1>2. ASSUME NEW k \in 1 .. n, k - 1 \in T  PROVE k \in T
    <2>1. PICK f : Upto(k - 1, f)
      BY <1>2
    <2> DEFINE h == [i \in 0 .. k |-> IF i = k THEN g[k][f[k - 1]] ELSE f[i]]
    <2>2. k - 1 \in 0 .. k - 1 /\ k \in Nat /\ k # 0
      BY <1>2
    <2>3. f[k - 1] \in S /\ g[k] \in [S -> S]
      BY <1>2, <2>1, <2>2 DEF Steps
    <2>4. h \in [0 .. k -> S]
      <3>1. g[k][f[k - 1]] \in S
        BY <2>3
      <3>2. \A i \in 0 .. k : i # k => f[i] \in S
        BY <2>1, <2>2
      <3> QED  BY <3>1, <3>2
    <2>5. h[0] = a
      BY <2>1, <2>2
    <2>6. ASSUME NEW i \in 1 .. k  PROVE h[i] = g[i][h[i - 1]]
      <3>1. i \in 0 .. k /\ i - 1 \in 0 .. k /\ i - 1 # k
        BY <2>2, <2>6
      <3>2. h[i - 1] = f[i - 1]
        BY <3>1
      <3>3. CASE i = k
        BY <3>1, <3>2, <3>3
      <3>4. CASE i # k
        <4>1. i \in 1 .. k - 1
          BY <2>2, <2>6, <3>4
        <4>2. f[i] = g[i][f[i - 1]]
          BY <2>1, <4>1
        <4> QED  BY <3>1, <3>2, <3>4, <4>2
      <3> QED  BY <3>3, <3>4
    <2> HIDE DEF h
    <2>7. Upto(k, h)
      BY <2>4, <2>5, <2>6
    <2>8. k \in 0 .. n
      BY <1>2
    <2>9. \E u : Upto(k, u)
      <3> HIDE DEF Upto
      <3> QED  BY <2>7, Zenon
    <2> HIDE DEF Upto
    <2> QED  BY <2>8, <2>9
  <1> HIDE DEF T
  <1>3. n \in T
    <2>1. \A i \in 0 .. n : i \in T
      BY <1>1, <1>2, HoldsUpTo, Zenon
    <2> QED  BY <2>1
  <1> QED  BY <1>3 DEF T, IsRun

\* What a batch starts from and what it comes to: lists that are right.
Account(first, t) ==
    {acc \in [lists : [Kinds -> SUBSET Sample], all : [Kinds -> SUBSET Sample], n : Nat, last : Nat] :
        /\ first <= acc.n
        /\ \A kind \in Kinds : ListOK(acc.lists[kind], acc.all[kind], acc.n, t)}

\* One sample of a batch.
LEMMA RecordOneKeeps ==
    ASSUME NEW first \in Nat, NEW t \in Nat, NEW acc \in Account(first, t),
           NEW e, e.kind \in Kinds, e.at \in Nat, e.at <= t
    PROVE  RecordOne(acc, e) \in Account(first, t)
  <1> DEFINE new == [at |-> e.at, n |-> acc.n]
             kept == Retained(acc.lists[e.kind] \cup {new}, e.at)
             more == acc.all[e.kind] \cup {new}
             lists == [acc.lists EXCEPT ![e.kind] = kept]
             all == [acc.all EXCEPT ![e.kind] = more]
  <1>1. /\ acc.lists \in [Kinds -> SUBSET Sample] /\ acc.all \in [Kinds -> SUBSET Sample]
        /\ acc.n \in Nat /\ first <= acc.n
        /\ \A kind \in Kinds : ListOK(acc.lists[kind], acc.all[kind], acc.n, t)
    BY DEF Account
  <1>2. RecordOne(acc, e) = [lists |-> lists, all |-> all, n |-> acc.n + 1, last |-> e.at]
    BY DEF RecordOne
  <1>3. acc.n + 1 \in Nat /\ acc.n <= acc.n + 1 /\ first <= acc.n + 1
    BY <1>1
  <1>4. ListOK(kept, more, acc.n + 1, t)
    BY <1>1, RecordedListOK
  <1>5. kept \in SUBSET Sample /\ more \in SUBSET Sample
    BY <1>4 DEF ListOK
  <1> HIDE DEF kept, more, new
  <1>6. lists \in [Kinds -> SUBSET Sample] /\ all \in [Kinds -> SUBSET Sample]
    BY <1>1, <1>5
  <1>7. ASSUME NEW kind \in Kinds
        PROVE  ListOK(lists[kind], all[kind], acc.n + 1, t)
    <2>1. CASE kind = e.kind
      <3>1. lists[kind] = kept /\ all[kind] = more
        BY <1>1, <2>1
      <3> QED  BY <3>1, <1>4
    <2>2. CASE kind # e.kind
      <3>1. lists[kind] = acc.lists[kind] /\ all[kind] = acc.all[kind]
        BY <1>1, <2>2
      <3>2. ListOK(acc.lists[kind], acc.all[kind], acc.n, t)
        BY <1>1
      <3> QED  BY <3>1, <3>2, <1>1, <1>3, LaterListOK
    <2> QED  BY <2>1, <2>2
  <1> HIDE DEF lists, all
  <1> DEFINE res == [lists |-> lists, all |-> all, n |-> acc.n + 1, last |-> e.at]
  <1>8. res.lists = lists /\ res.all = all /\ res.n = acc.n + 1
    OBVIOUS
  <1>9. res \in [lists : [Kinds -> SUBSET Sample], all : [Kinds -> SUBSET Sample], n : Nat, last : Nat]
    BY <1>3, <1>6
  <1> HIDE DEF res
  <1>10. res \in Account(first, t)
    BY <1>3, <1>7, <1>8, <1>9 DEF Account
  <1> QED  BY <1>2, <1>10 DEF res

\* A whole batch.
LEMMA AfterBatchKeeps ==
    ASSUME NEW first \in Nat, NEW t \in Nat, NEW before \in Account(first, t),
           NEW batch \in Seq(BatchSample), \A i \in DOMAIN batch : batch[i].at <= t
    PROVE  AfterBatch(before, batch) \in Account(first, t)
  <1> DEFINE S == Account(first, t)
             n == Len(batch)
             g == [i \in 1 .. n |-> [acc \in S |-> RecordOne(acc, batch[i])]]
             Is(f) == f = [i \in 0 .. n |-> IF i = 0 THEN before ELSE RecordOne(f[i - 1], batch[i])]
             after == CHOOSE f : Is(f)
  <1>1. n \in Nat /\ DOMAIN batch = 1 .. n
    OBVIOUS
  <1>2. ASSUME NEW i \in 1 .. n, NEW acc \in S
        PROVE  RecordOne(acc, batch[i]) \in S
    <2>1. batch[i] \in BatchSample /\ batch[i].at <= t
      BY <1>1
    <2>2. batch[i].kind \in Kinds /\ batch[i].at \in Nat
      <3>1. batch[i].kind \in Kinds /\ batch[i].at \in 0 .. MaxNow
        BY <2>1 DEF BatchSample
      <3> QED  BY <3>1
    <2> HIDE DEF S
    <2> QED  BY <2>1, <2>2, RecordOneKeeps DEF S
  <1> HIDE DEF S, n
  <1>3. g \in [1 .. n -> [S -> S]]
    BY <1>2
  <1>4. before \in S
    BY DEF S
  <1>5. PICK f : IsRun(f, before, S, n, g)
    <2>1. n \in Nat /\ g \in Steps(S, n)
      BY <1>1, <1>3 DEF Steps
    <2> HIDE DEF g
    <2> QED  BY <2>1, <1>4, RunExists
  <1>6. Is(f)
    <2>1. ASSUME NEW i \in 1 .. n  PROVE f[i] = RecordOne(f[i - 1], batch[i])
      <3>1. i - 1 \in 0 .. n
        BY <1>1
      <3>2. f[i - 1] \in S /\ f[i] = g[i][f[i - 1]]
        BY <1>5, <3>1 DEF IsRun
      <3> QED  BY <3>2
    <2>2. ASSUME NEW i \in 0 .. n
          PROVE  f[i] = IF i = 0 THEN before ELSE RecordOne(f[i - 1], batch[i])
      <3>1. i = 0 \/ i \in 1 .. n
        BY <1>1
      <3> QED  BY <3>1, <2>1, <1>5 DEF IsRun
    <2>3. f = [i \in 0 .. n |-> f[i]]
      BY <1>5 DEF IsRun
    <2> QED  BY <2>2, <2>3
  <1>7. Is(after)
    <2> HIDE DEF Is
    <2> QED  BY <1>6
  <1> HIDE DEF after
  <1>8. after[0] = before /\ \A i \in 1 .. n : after[i] = RecordOne(after[i - 1], batch[i])
    <2>1. \A i \in 0 .. n : after[i] = IF i = 0 THEN before ELSE RecordOne(after[i - 1], batch[i])
      BY <1>7
    <2>2. 0 \in 0 .. n /\ \A i \in 1 .. n : i \in 0 .. n /\ i # 0
      BY <1>1
    <2> QED  BY <2>1, <2>2
  <1> DEFINE T == {i \in 0 .. n : after[i] \in S}
  <1>9. 0 \in T
    BY <1>1, <1>4, <1>8
  <1>10. ASSUME NEW i \in 1 .. n, i - 1 \in T  PROVE i \in T
    <2>1. after[i] = RecordOne(after[i - 1], batch[i]) /\ after[i - 1] \in S
      BY <1>8, <1>10
    <2>2. after[i] \in S
      BY <2>1, <1>2
    <2>3. i \in 0 .. n
      BY <1>1
    <2> QED  BY <2>2, <2>3
  <1> HIDE DEF T
  <1>11. n \in 0 .. n /\ \A i \in 0 .. n : i \in T
    <2>1. \A i \in 0 .. n : i \in T
      BY <1>1, <1>9, <1>10, HoldsUpTo, Zenon
    <2> QED  BY <1>1, <2>1
  <1>12. after[n] \in S
    BY <1>11 DEF T
  <1>13. AfterBatch(before, batch) = after[n]
    BY DEF AfterBatch, after, n
  <1> QED  BY <1>12, <1>13 DEF S

\* A batch is recorded in the lists of one peer.
LEMMA BatchKeepsMetrics ==
    ASSUME MetricsInv, NEW p \in Peers, NEW batch \in Batches, RecordBatch(p, batch)
    PROVE  MetricsInv'
  <1> DEFINE before == [lists |-> samples[p], all |-> recorded[p], n |-> serial, last |-> updated[p]]
             after == AfterBatch(before, batch)
  <1>1. MetricsTypeOK /\ IndexExact /\ SamplesInv
    BY DEF MetricsInv
  <1>2. now \in Nat /\ serial \in Nat /\ MaxNow \in Nat
    BY <1>1, StateNumbers
  <1>3. batch \in Seq(BatchSample)
    <2>1. PICK m \in 2 .. MaxBatch : batch \in [1 .. m -> BatchSample]
      BY DEF Batches
    <2>2. m \in Nat
      BY <2>1, TelemetryAssumption
    <2> QED  BY <2>1, <2>2
  <1>4. before \in Account(serial, now)
    <2>1. /\ before.lists = samples[p] /\ before.all = recorded[p]
          /\ before.n = serial /\ before.last = updated[p]
      OBVIOUS
    <2>2. before \in [lists : [Kinds -> SUBSET Sample], all : [Kinds -> SUBSET Sample], n : Nat, last : Nat]
      BY <1>1, <1>2 DEF MetricsTypeOK
    <2>3. \A kind \in Kinds : ListOK(samples[p][kind], recorded[p][kind], serial, now)
      BY <1>1 DEF SamplesInv
    <2> HIDE DEF before
    <2>4. serial <= before.n
      BY <1>2, <2>1
    <2> QED  BY <2>1, <2>2, <2>3, <2>4 DEF Account
  <1>5. /\ samples' = [samples EXCEPT ![p] = after.lists]
        /\ recorded' = [recorded EXCEPT ![p] = after.all]
        /\ updated' = [updated EXCEPT ![p] = after.last]
        /\ serial' = after.n
        /\ UNCHANGED <<now, roomOf, keys, index>>
        /\ Known(p) /\ \A i \in DOMAIN batch : batch[i].at <= now
    BY DEF RecordBatch
  <1> HIDE DEF before
  <1>6. after \in Account(serial, now)
    BY <1>2, <1>3, <1>4, <1>5, AfterBatchKeeps
  <1> HIDE DEF after
  <1>7. /\ after.lists \in [Kinds -> SUBSET Sample] /\ after.all \in [Kinds -> SUBSET Sample]
        /\ after.n \in Nat /\ after.last \in Nat /\ serial <= after.n
        /\ \A kind \in Kinds : ListOK(after.lists[kind], after.all[kind], after.n, now)
    BY <1>6 DEF Account
  <1>8. MetricsTypeOK'
    <2>1. /\ samples' \in [Peers -> [Kinds -> SUBSET Sample]]
          /\ recorded' \in [Peers -> [Kinds -> SUBSET Sample]]
      BY <1>1, <1>5, <1>7 DEF MetricsTypeOK
    <2>2. updated' \in [Peers -> Nat] /\ serial' \in Nat
      BY <1>1, <1>5, <1>7 DEF MetricsTypeOK
    <2>3. \A q \in Peers : ~Known(q)' => samples'[q] = Empty
      BY <1>1, <1>5 DEF MetricsTypeOK, Known
    <2> QED  BY <1>1, <1>5, <2>1, <2>2, <2>3 DEF MetricsTypeOK
  <1>9. IndexExact'
    BY <1>1, <1>5 DEF IndexExact, Known
  <1>10. ASSUME NEW q \in Peers, NEW k \in Kinds
         PROVE  \/ samples'[q][k] = samples[q][k] /\ recorded'[q][k] = recorded[q][k]
                \/ ListOK(samples[q][k]', recorded[q][k]', serial', now')
    <2>1. CASE q = p
      <3>1. samples'[q] = after.lists /\ recorded'[q] = after.all
        BY <1>1, <1>5, <2>1 DEF MetricsTypeOK
      <3> QED  BY <3>1, <1>5, <1>7
    <2>2. CASE q # p
      BY <1>1, <1>5, <2>2 DEF MetricsTypeOK
    <2> QED  BY <2>1, <2>2
  <1>11. SamplesInv'
    <2>1. serial <= serial' /\ now <= now'
      BY <1>2, <1>5, <1>7
    <2> QED  BY <1>1, <1>8, <1>10, <2>1, QuietKeepsSamples
  <1> QED  BY <1>8, <1>9, <1>11 DEF MetricsInv

-----------------------------------------------------------------------------
(* Registration, which records the first sample of a new record. *)

\* A peer's record is created with a list of at most one sample.
LEMMA RegisterKeepsMetrics ==
    ASSUME MetricsInv, NEW p \in Peers, NEW r \in Rooms, NEW t \in 0 .. MaxNow,
           NEW measured \in BOOLEAN, RegisterPeer(p, r, t, measured)
    PROVE  MetricsInv'
  <1> DEFINE first == [at |-> now, n |-> serial]
             added == IF measured THEN {first} ELSE {}
             k == Cardinality(added)
  <1>1. MetricsTypeOK /\ IndexExact /\ SamplesInv
    BY DEF MetricsInv
  <1>2. now \in Nat /\ serial \in Nat /\ t \in Nat
    <2>1. now \in Nat /\ serial \in Nat /\ MaxNow \in Nat
      BY <1>1, StateNumbers
    <2> QED  BY <2>1
  <1>3. /\ samples' = [samples EXCEPT ![p][Latency] = added]
        /\ recorded' = [recorded EXCEPT ![p][Latency] = added]
        /\ updated' = [updated EXCEPT ![p] = IF measured THEN now ELSE t]
        /\ serial' = serial + k
        /\ now' = now /\ ~Known(p)
        /\ roomOf' = [roomOf EXCEPT ![p] = r]
    BY DEF RegisterPeer
  <1>4. Entered(p, r)
    BY DEF RegisterPeer, Entered
  <1>5. first \in Sample /\ first.n = serial
    BY <1>2 DEF Sample
  <1> HIDE DEF first
  <1>6. k \in Nat /\ added \in SUBSET Sample /\ ListOK(added, added, serial + k, now)
    <2>1. CASE measured
      <3>1. k = 1 /\ added = {first}
        BY <2>1, FS_Singleton
      <3>2. first.n < serial + 1 /\ serial + 1 \in Nat
        BY <1>2, <1>5
      <3>3. ListOK({first}, {first}, serial + 1, now)
        BY <1>5, <3>2, FirstListOK
      <3> QED  BY <1>5, <3>1, <3>3
    <2>2. CASE ~measured
      <3>1. k = 0 /\ added = {}
        BY <2>2, FS_EmptySet
      <3> QED  BY <3>1, EmptyListOK
    <2> QED  BY <2>1, <2>2
  <1> HIDE DEF k, added
  <1>7. Latency \in Kinds
    BY TelemetryAssumption
  <1>8. /\ IndexExact' /\ roomOf' \in [Peers -> Rooms \cup {NoRoom}]
        /\ keys' \in SUBSET Rooms /\ index' \in [Rooms -> SUBSET Peers]
    BY <1>1, <1>4, EnterKeepsIndex
  <1>9. MetricsTypeOK'
    <2>1. /\ samples' \in [Peers -> [Kinds -> SUBSET Sample]]
          /\ recorded' \in [Peers -> [Kinds -> SUBSET Sample]]
      BY <1>1, <1>3, <1>6, <1>7 DEF MetricsTypeOK
    <2>2. updated' \in [Peers -> Nat]
      BY <1>1, <1>2, <1>3 DEF MetricsTypeOK
    <2>3. serial' \in Nat
      BY <1>2, <1>3, <1>6
    <2>4. ASSUME NEW q \in Peers, ~Known(q)'  PROVE samples'[q] = Empty
      <3>1. roomOf'[p] = r /\ r # NoRoom
        BY <1>1, <1>3, MetricsAssumption DEF MetricsTypeOK
      <3>2. q # p
        BY <2>4, <3>1 DEF Known
      <3>3. roomOf'[q] = roomOf[q] /\ samples'[q] = samples[q]
        BY <1>1, <1>3, <3>2 DEF MetricsTypeOK
      <3> QED  BY <1>1, <2>4, <3>3 DEF MetricsTypeOK, Known
    <2>5. now' \in 0 .. MaxNow
      BY <1>1, <1>3 DEF MetricsTypeOK
    <2> QED  BY <1>8, <2>1, <2>2, <2>3, <2>4, <2>5 DEF MetricsTypeOK
  <1>10. ASSUME NEW q \in Peers, NEW kind \in Kinds
         PROVE  \/ samples'[q][kind] = samples[q][kind] /\ recorded'[q][kind] = recorded[q][kind]
                \/ ListOK(samples[q][kind]', recorded[q][kind]', serial', now')
    <2>1. CASE q = p /\ kind = Latency
      <3>1. samples'[q][kind] = added /\ recorded'[q][kind] = added
        BY <1>1, <1>3, <1>7, <2>1 DEF MetricsTypeOK
      <3> QED  BY <3>1, <1>3, <1>6
    <2>2. CASE ~ (q = p /\ kind = Latency)
      BY <1>1, <1>3, <2>2 DEF MetricsTypeOK
    <2> QED  BY <2>1, <2>2
  <1>11. SamplesInv'
    <2>1. serial <= serial' /\ now <= now'
      BY <1>2, <1>3, <1>6
    <2> QED  BY <1>1, <1>9, <1>10, <2>1, QuietKeepsSamples
  <1> QED  BY <1>8, <1>9, <1>11 DEF MetricsInv

-----------------------------------------------------------------------------
(* Snapshots. *)

KnownPeers == {p \in Peers : Known(p)}

\* A snapshot that can be filtered: it adds up, and what it lists are finitely
\* many peers, none of them stale.
SnapshotInv ==
    /\ AddsUp(snapshot)
    /\ IsFiniteSet(snapshot.peers)
    /\ \A m \in snapshot.peers : ~m.stale

TelemetryInv == MetricsInv /\ IsFiniteSet(KnownPeers) /\ SnapshotInv

\* Metrics that name different peers are as finite as the peers.
LEMMA FinitelyManyMetrics ==
    ASSUME NEW metrics, NEW K, IsFiniteSet(K), \A m \in metrics : m.peer \in K,
           \A d, e \in metrics : d.peer = e.peer => d = e
    PROVE  IsFiniteSet(metrics)
  <1> DEFINE f == [m \in metrics |-> m.peer]
  <1>1. f \in [metrics -> K]
    OBVIOUS
  <1>2. \A d, e \in metrics : f[d] = f[e] => d = e
    OBVIOUS
  <1> HIDE DEF f
  <1>3. f \in Injection(metrics, K)
    BY <1>1, <1>2, Zenon DEF Injection, IsInjective
  <1> QED  BY <1>3, FS_Injection

\* What filterByMinimumQuality leaves of a snapshot adds up.
LEMMA FilteredAddsUp ==
    ASSUME SnapshotInv, NEW good
    PROVE  AddsUp(FilterByMinimumQuality(snapshot, good))
  <1> DEFINE peers == {m \in snapshot.peers : m.peer \in good}
             In(r) == {m \in peers : m.room = r}
             kept == DOMAIN snapshot.rooms \cap {m.room : m \in peers}
             rooms == [r \in kept |-> Counts(In(r))]
             shot == [rooms |-> rooms, peers |-> peers]
  <1>1. FilterByMinimumQuality(snapshot, good) = shot
    BY DEF FilterByMinimumQuality
  <1>2. /\ peers \subseteq snapshot.peers /\ IsFiniteSet(snapshot.peers)
        /\ \A m \in peers : ~m.stale
        /\ \A m \in peers : m.listed = m.room /\ m.room \in DOMAIN snapshot.rooms
        /\ \A d, e \in peers : d.peer = e.peer => d = e
    BY DEF SnapshotInv, AddsUp
  <1>3. \A m \in peers : m.room \in kept
    BY <1>2
  <1>4. ASSUME NEW r
        PROVE  Counts(In(r)).active = Cardinality(In(r)) /\ Counts(In(r)).active <= Counts(In(r)).peers
    <2>1. {m \in In(r) : ~m.stale} = In(r)
      BY <1>2
    <2>2. In(r) \subseteq snapshot.peers
      BY <1>2
    <2> HIDE DEF In
    <2>3. IsFiniteSet(In(r))
      BY <1>2, <2>2, FS_Subset
    <2>4. Cardinality(In(r)) \in Nat
      BY <2>3, FS_CardinalityType
    <2>5. Counts(In(r)) = [peers |-> Cardinality(In(r)), active |-> Cardinality(In(r))]
      BY <2>1 DEF Counts
    <2> QED  BY <2>4, <2>5
  <1>5. shot.rooms = rooms /\ shot.peers = peers /\ DOMAIN rooms = kept
    OBVIOUS
  <1>6. \A r \in kept : rooms[r] = Counts(In(r))
    OBVIOUS
  <1>7. \A r : In(r) = {m \in peers : m.room = r}
    OBVIOUS
  <1> HIDE DEF shot, rooms, kept, peers, In
  <1>8. AddsUp(shot)
    <2>1. \A m \in shot.peers : m.listed = m.room /\ m.room \in DOMAIN shot.rooms
      BY <1>2, <1>3, <1>5
    <2>2. ASSUME NEW r \in kept
          PROVE  /\ rooms[r].active = Cardinality({m \in peers : m.room = r})
                 /\ rooms[r].active <= rooms[r].peers
      <3>1. {m \in peers : m.room = r} = In(r) /\ rooms[r] = Counts(In(r))
        BY <1>6, <1>7, <2>2
      <3> QED  BY <1>4, <3>1
    <2>3. \A r \in DOMAIN shot.rooms :
             /\ shot.rooms[r].active = Cardinality({m \in shot.peers : m.room = r})
             /\ shot.rooms[r].active <= shot.rooms[r].peers
      BY <1>5, <2>2
    <2>4. \A d, e \in shot.peers : d.peer = e.peer => d = e
      BY <1>2, <1>5
    <2> QED  BY <2>1, <2>3, <2>4 DEF AddsUp
  <1> QED  BY <1>1, <1>8

\* What a snapshot says of a peer.
Metric(p) == [peer |-> p, listed |-> roomOf[p], room |-> roomOf[p], stale |-> IsStale(p)]

\* The index lists in a room the peers whose records name it.
LEMMA AggregatedExact ==
    ASSUME MetricsInv, NEW r \in Rooms
    PROVE  Aggregated(r) = {Metric(p) : p \in {q \in Peers : roomOf[q] = r}}
  <1>1. ListedIn(r) = {q \in Peers : roomOf[q] = r}
    BY MetricsAssumption DEF MetricsInv, IndexExact, ListedIn, Known
  <1>2. Aggregated(r) = {[peer |-> p, listed |-> r, room |-> roomOf[p], stale |-> IsStale(p)] :
                            p \in {q \in Peers : roomOf[q] = r}}
    BY <1>1 DEF Aggregated
  <1>3. \A p \in {q \in Peers : roomOf[q] = r} :
           [peer |-> p, listed |-> r, room |-> roomOf[p], stale |-> IsStale(p)] = Metric(p)
    BY DEF Metric
  <1> QED  BY <1>2, <1>3

\* Metrics that are those of different known peers, and finitely many.
LEMMA MetricsOfPeers ==
    ASSUME MetricsInv, IsFiniteSet(KnownPeers), NEW metrics,
           \A m \in metrics : \E p \in KnownPeers : m = Metric(p)
    PROVE  /\ IsFiniteSet(metrics)
           /\ \A m \in metrics : m.listed = m.room
           /\ \A d, e \in metrics : d.peer = e.peer => d = e
  <1>1. \A m \in metrics : m.peer \in KnownPeers /\ m = Metric(m.peer) /\ m.listed = m.room
    BY DEF Metric
  <1>2. \A d, e \in metrics : d.peer = e.peer => d = e
    BY <1>1
  <1> QED  BY <1>1, <1>2, FinitelyManyMetrics

\* A snapshot of all rooms adds up.
LEMMA BuildAddsUp ==
    ASSUME TelemetryInv, BuildSnapshot
    PROVE  SnapshotInv'
  <1> DEFINE peers == {m \in AllPeers : ~m.stale}
             In(r) == {m \in peers : m.room = r}
             rooms == [r \in RoomIds |-> [peers |-> Cardinality(In(r)), active |-> Cardinality(In(r))]]
             shot == [rooms |-> rooms, peers |-> peers]
  <1>1. snapshot' = shot
    BY DEF BuildSnapshot
  <1>2. MetricsInv /\ IsFiniteSet(KnownPeers)
    BY DEF TelemetryInv
  <1>3. ASSUME NEW m \in AllPeers
        PROVE  (\E p \in KnownPeers : m = Metric(p)) /\ m.room \in RoomIds
    <2>1. PICK r \in RoomIds : m \in Aggregated(r)
      BY <1>3 DEF AllPeers
    <2>2. r \in Rooms /\ r # NoRoom
      BY <1>2, MetricsAssumption DEF RoomIds, MetricsInv, MetricsTypeOK, Known
    <2>3. PICK p \in Peers : roomOf[p] = r /\ m = Metric(p)
      BY <1>2, <2>1, <2>2, AggregatedExact
    <2>4. p \in KnownPeers
      BY <2>2, <2>3 DEF KnownPeers, Known
    <2>5. m.room = r
      BY <2>3 DEF Metric
    <2> QED  BY <2>1, <2>3, <2>4, <2>5
  <1>4. /\ IsFiniteSet(peers)
        /\ \A m \in peers : m.listed = m.room
        /\ \A d, e \in peers : d.peer = e.peer => d = e
    <2>1. \A m \in peers : \E p \in KnownPeers : m = Metric(p)
      BY <1>3
    <2> HIDE DEF peers
    <2> QED  BY <1>2, <2>1, MetricsOfPeers
  <1>5. \A m \in peers : ~m.stale /\ m.room \in RoomIds
    BY <1>3
  <1>6. \A r : In(r) = {m \in peers : m.room = r}
    OBVIOUS
  <1>7. shot.rooms = rooms /\ shot.peers = peers /\ DOMAIN rooms = RoomIds
    OBVIOUS
  <1>8. \A r \in RoomIds : rooms[r].active = Cardinality(In(r)) /\ rooms[r].peers = Cardinality(In(r))
    OBVIOUS
  <1> HIDE DEF peers
  <1>9. \A r : Cardinality(In(r)) \in Nat
    <2>1. \A r : IsFiniteSet(In(r))
      BY <1>4, FS_Subset
    <2> HIDE DEF In
    <2> QED  BY <2>1, FS_CardinalityType
  <1> HIDE DEF shot, rooms, In
  <1>10. \A r \in RoomIds : rooms[r].active <= rooms[r].peers
    BY <1>8, <1>9
  <1>11. AddsUp(shot)
    BY <1>4, <1>5, <1>6, <1>7, <1>8, <1>10 DEF AddsUp
  <1> QED  BY <1>1, <1>4, <1>5, <1>7, <1>11 DEF SnapshotInv, AddsUp

\* A snapshot of one room adds up, and counts its stale peers.
LEMMA BuildRoomAddsUp ==
    ASSUME TelemetryInv, NEW r \in Rooms, BuildRoomSnapshot(r)
    PROVE  SnapshotInv'
  <1> DEFINE here == Aggregated(r)
             peers == {m \in here : ~m.stale}
             rooms == [q \in {r} |-> Counts(here)]
             shot == [rooms |-> rooms, peers |-> peers]
  <1>1. snapshot' = shot
    BY DEF BuildRoomSnapshot
  <1>2. MetricsInv /\ IsFiniteSet(KnownPeers)
    BY DEF TelemetryInv
  <1>3. \A m \in here : (\E p \in KnownPeers : m = Metric(p)) /\ m.room = r
    BY <1>2, AggregatedExact, MetricsAssumption DEF KnownPeers, Known, Metric
  <1> HIDE DEF here
  <1>4. /\ IsFiniteSet(here)
        /\ \A m \in here : m.listed = m.room
        /\ \A d, e \in here : d.peer = e.peer => d = e
    BY <1>2, <1>3, MetricsOfPeers
  <1>5. peers = {m \in peers : m.room = r}
    BY <1>3
  <1>6. /\ Cardinality(peers) \in Nat /\ Cardinality(here) \in Nat
        /\ Cardinality(peers) <= Cardinality(here) /\ IsFiniteSet(peers)
    <2>1. peers \subseteq here
      OBVIOUS
    <2> HIDE DEF peers
    <2> QED  BY <1>4, <2>1, FS_Subset, FS_CardinalityType
  <1>7. rooms[r].peers = Cardinality(here) /\ rooms[r].active = Cardinality(peers)
    BY DEF Counts
  <1>8. shot.rooms = rooms /\ shot.peers = peers /\ DOMAIN rooms = {r}
    OBVIOUS
  <1>9. /\ \A m \in peers : ~m.stale /\ m.listed = m.room /\ m.room \in {r}
        /\ \A d, e \in peers : d.peer = e.peer => d = e
    BY <1>3, <1>4
  <1> HIDE DEF peers, rooms, shot
  <1>10. AddsUp(shot)
    BY <1>5, <1>6, <1>7, <1>8, <1>9 DEF AddsUp
  <1> QED  BY <1>1, <1>6, <1>8, <1>9, <1>10 DEF SnapshotInv, AddsUp

-----------------------------------------------------------------------------
(* The service. *)

\* No step makes more than one peer known.
LEMMA KnownStayFinite ==
    ASSUME MetricsInv, IsFiniteSet(KnownPeers), NEW p, KnownPeers' \subseteq KnownPeers \cup {p}
    PROVE  IsFiniteSet(KnownPeers')
  <1>1. IsFiniteSet(KnownPeers \cup {p})
    BY FS_AddElement
  <1> QED  BY <1>1, FS_Subset

\* The initial snapshot is empty.
LEMMA TelemetryInitInv ==
    ASSUME TelemetryInit
    PROVE  TelemetryInv
  <1>1. MetricsInv
    BY MetricsInitInv DEF TelemetryInit
  <1>2. KnownPeers = {}
    BY DEF TelemetryInit, MetricsInit, KnownPeers, Known
  <1>3. snapshot.peers = {} /\ snapshot.rooms = <<>>
    BY DEF TelemetryInit
  <1>4. DOMAIN snapshot.rooms = {}
    BY <1>3
  <1>5. IsFiniteSet({})
    BY FS_EmptySet
  <1>6. SnapshotInv
    BY <1>3, <1>4, <1>5 DEF SnapshotInv, AddsUp
  <1> QED  BY <1>1, <1>2, <1>5, <1>6 DEF TelemetryInv

LEMMA TelemetryStepInv ==
    ASSUME TelemetryInv, [TelemetryNext]_telemetryVars
    PROVE  TelemetryInv'
  <1>1. MetricsInv /\ IsFiniteSet(KnownPeers) /\ SnapshotInv
    BY DEF TelemetryInv
  <1>2. roomOf \in [Peers -> Rooms \cup {NoRoom}]
    BY <1>1 DEF MetricsInv, MetricsTypeOK
  <1>3. ASSUME snapshot' = snapshot  PROVE SnapshotInv'
    BY <1>1, <1>3 DEF SnapshotInv, AddsUp
  <1>4. ASSUME StoreStep, snapshot' = snapshot
        PROVE  TelemetryInv'
    <2>1. MetricsInv'
      BY <1>1, <1>4, StoreStepInv
    <2>2. KnownPeers' \subseteq KnownPeers
      <3>1. \/ roomOf' = roomOf
            \/ \E p \in Peers, r \in Rooms : Known(p) /\ roomOf' = [roomOf EXCEPT ![p] = r]
            \/ \E ps : Drop(ps)
        BY <1>4 DEF StoreStep, Record, Update, Delete, Prune, DeleteByRoom, Clear, Tick
      <3>2. ASSUME NEW p \in Peers, NEW r \in Rooms, Known(p), roomOf' = [roomOf EXCEPT ![p] = r]
            PROVE  KnownPeers' \subseteq KnownPeers
        BY <1>2, <3>2 DEF KnownPeers, Known
      <3>3. ASSUME NEW ps, Drop(ps)
            PROVE  KnownPeers' \subseteq KnownPeers
        BY <3>3 DEF Drop, KnownPeers, Known
      <3>4. CASE roomOf' = roomOf
        BY <3>4 DEF KnownPeers, Known
      <3> QED  BY <3>1, <3>2, <3>3, <3>4
    <2>3. IsFiniteSet(KnownPeers')
      BY <1>1, <2>2, FS_Subset
    <2> QED  BY <1>3, <1>4, <2>1, <2>3 DEF TelemetryInv
  <1>5. ASSUME NEW p \in Peers, NEW r \in Rooms, NEW t \in 0 .. MaxNow, NEW measured \in BOOLEAN,
               RegisterPeer(p, r, t, measured), snapshot' = snapshot
        PROVE  TelemetryInv'
    <2>1. MetricsInv'
      BY <1>1, <1>5, RegisterKeepsMetrics
    <2>2. KnownPeers' \subseteq KnownPeers \cup {p}
      BY <1>2, <1>5 DEF RegisterPeer, KnownPeers, Known
    <2>3. IsFiniteSet(KnownPeers')
      BY <1>1, <2>2, KnownStayFinite
    <2> QED  BY <1>3, <1>5, <2>1, <2>3 DEF TelemetryInv
  <1>6. ASSUME NEW p \in Peers, NEW batch \in Batches, RecordBatch(p, batch), snapshot' = snapshot
        PROVE  TelemetryInv'
    <2>1. MetricsInv'
      BY <1>1, <1>6, BatchKeepsMetrics
    <2>2. KnownPeers' = KnownPeers
      BY <1>6 DEF RecordBatch, KnownPeers, Known
    <2> QED  BY <1>1, <1>3, <1>6, <2>1, <2>2 DEF TelemetryInv
  <1>7. ASSUME UNCHANGED metricsVars, SnapshotInv'
        PROVE  TelemetryInv'
    <2>1. MetricsInv'
      BY <1>1, <1>7, StoreStutterInv
    <2>2. KnownPeers' = KnownPeers
      BY <1>7 DEF metricsVars, KnownPeers, Known
    <2> QED  BY <1>1, <1>7, <2>1, <2>2 DEF TelemetryInv
  <1>8. ASSUME BuildSnapshot  PROVE TelemetryInv'
    BY <1>7, <1>8, BuildAddsUp DEF BuildSnapshot
  <1>9. ASSUME NEW r \in Rooms, BuildRoomSnapshot(r)  PROVE TelemetryInv'
    BY <1>7, <1>9, BuildRoomAddsUp DEF BuildRoomSnapshot
  <1>10. CASE UNCHANGED telemetryVars
    <2>1. UNCHANGED metricsVars /\ snapshot' = snapshot
      BY <1>10 DEF telemetryVars
    <2> QED  BY <1>3, <1>7, <2>1
  <1>11. CASE TelemetryNext
    <2>1. \/ StoreStep /\ snapshot' = snapshot
          \/ \E p \in Peers, r \in Rooms, t \in 0 .. MaxNow, measured \in BOOLEAN :
                RegisterPeer(p, r, t, measured) /\ snapshot' = snapshot
          \/ \E p \in Peers, batch \in Batches : RecordBatch(p, batch) /\ snapshot' = snapshot
          \/ BuildSnapshot
          \/ \E r \in Rooms : BuildRoomSnapshot(r)
      BY <1>11, Zenon DEF TelemetryNext, StoreStep, ClearAll
    <2> QED  BY <2>1, <1>4, <1>5, <1>6, <1>8, <1>9
  <1> QED  BY <1>10, <1>11

\* The service's inductive invariant: the store's, and what snapshots are made
\* of, for any number of peers and any batches.
THEOREM TelemetryInvariance == TelemetrySpec => []TelemetryInv
  <1>1. TelemetryInit => TelemetryInv
    BY TelemetryInitInv
  <1>2. TelemetryInv /\ [TelemetryNext]_telemetryVars => TelemetryInv'
    BY TelemetryStepInv
  <1> QED  BY <1>1, <1>2, PTL DEF TelemetrySpec

\* The index stays exact under the service, which registers peers and records
\* batches in several calls of the store.
THEOREM ServiceKeepsIndex == TelemetrySpec => []IndexExact
  <1>1. TelemetryInv => IndexExact
    BY SamplesResults DEF TelemetryInv
  <1> QED  BY <1>1, TelemetryInvariance, PTL

\* No sample that is young enough and among the last maxSamples is lost by the
\* service, whatever batches it records.
THEOREM ServiceLosesNothing == TelemetrySpec => []LostOnlyOldOrExcess
  <1>1. TelemetryInv => LostOnlyOldOrExcess
    BY SamplesResults DEF TelemetryInv
  <1> QED  BY <1>1, TelemetryInvariance, PTL

\* The last snapshot adds up, of one room or of all, and so does what
\* filterByMinimumQuality leaves of it.
THEOREM SnapshotsAddUp == TelemetrySpec => []SnapshotAddsUp
  <1>1. TelemetryInv => SnapshotAddsUp
    BY FilteredAddsUp DEF TelemetryInv, SnapshotInv, SnapshotAddsUp
  <1> QED  BY <1>1, TelemetryInvariance, PTL

-----------------------------------------------------------------------------
(* The scores of connections. *)

\* The figures that a member may have.
Figure == [latency : Nat \cup {-1}, jitter : Nat, lost : Nat,
           sent : Nat \cup {-1}, up : Nat \cup {-1}, down : Nat \cup {-1}]

\* The figures of every member are measured ones, or none.
FiguresInv == figures \in [Members -> Figure]

\* A scale has four thresholds.
LEMMA FourThresholds == IsFiniteSet(1 .. 4) /\ Cardinality(1 .. 4) = 4
  <1> DEFINE a == 1
             b == 4
  <1>1. a \in Int /\ b \in Int /\ ~(a > b) /\ b - a + 1 = 4
    OBVIOUS
  <1> HIDE DEF a, b
  <1>2. IsFiniteSet(a .. b) /\ Cardinality(a .. b) = 4
    BY <1>1, FS_Interval
  <1> QED  BY <1>2 DEF a, b

\* A falling scale with four thresholds: who exceeds no more of them than
\* another does not get fewer points.
LEMMA ScaleFalls ==
    ASSUME NEW T, DOMAIN T = 1 .. 4, NEW S, \A i, j \in 1 .. 5 : i <= j => S[j] <= S[i],
           NEW v, NEW p, NEW w, NEW q,
           \A i \in 1 .. 4 : v > T[i] * p => w > T[i] * q
    PROVE  ScoreFromThresholds(w, q, T, S) <= ScoreFromThresholds(v, p, T, S)
  <1> DEFINE A == {i \in DOMAIN T : v > T[i] * p}
             B == {i \in DOMAIN T : w > T[i] * q}
  <1>1. IsFiniteSet(1 .. 4) /\ Cardinality(1 .. 4) = 4
    BY FourThresholds
  <1>2. B \subseteq 1 .. 4 /\ A \subseteq B
    OBVIOUS
  <1>3. IsFiniteSet(B) /\ Cardinality(B) <= 4
    BY <1>1, <1>2, FS_Subset
  <1>4. IsFiniteSet(A) /\ Cardinality(A) <= Cardinality(B)
    BY <1>2, <1>3, FS_Subset
  <1>5. Cardinality(A) \in Nat /\ Cardinality(B) \in Nat
    BY <1>3, <1>4, FS_CardinalityType
  <1> HIDE DEF A, B
  <1>6. S[1 + Cardinality(B)] <= S[1 + Cardinality(A)]
    <2>1. 1 + Cardinality(A) \in 1 .. 5 /\ 1 + Cardinality(B) \in 1 .. 5 /\ 1 + Cardinality(A) <= 1 + Cardinality(B)
      BY <1>3, <1>4, <1>5
    <2> QED  BY <2>1
  <1> QED  BY <1>6 DEF ScoreFromThresholds, A, B

\* Every point of a scale is a percentage.
LEMMA ScaleRange ==
    ASSUME NEW T, DOMAIN T = 1 .. 4, NEW S, \A i \in 1 .. 5 : S[i] \in 0 .. 100, NEW v, NEW p
    PROVE  ScoreFromThresholds(v, p, T, S) \in 0 .. 100
  <1> DEFINE A == {i \in DOMAIN T : v > T[i] * p}
  <1>1. IsFiniteSet(1 .. 4) /\ Cardinality(1 .. 4) = 4
    BY FourThresholds
  <1>2. IsFiniteSet(A) /\ Cardinality(A) <= 4
    BY <1>1, FS_Subset
  <1>3. Cardinality(A) \in Nat
    BY <1>2, FS_CardinalityType
  <1> HIDE DEF A
  <1>4. 1 + Cardinality(A) \in 1 .. 5
    BY <1>2, <1>3
  <1> QED  BY <1>4 DEF ScoreFromThresholds, A

\* A shorter round trip does not lose points.
LEMMA LatencyFalls ==
    ASSUME NEW f \in Figure, NEW g \in Figure, AtLeastAsGood(g, f)
    PROVE  /\ LatencyScore(f) \in 0 .. 100 /\ LatencyScore(g) \in 0 .. 100
           /\ LatencyScore(f) <= LatencyScore(g)
  <1> DEFINE T == <<50, 100, 200, 400>>
             S == <<100, 85, 65, 40, 15>>
  <1>1. /\ f.latency # NoSample /\ g.latency # NoSample /\ g.latency <= f.latency
        /\ f.latency \in Nat /\ g.latency \in Nat
    BY DEF AtLeastAsGood, Figure, NoSample
  <1>2. DOMAIN T = 1 .. 4 /\ \A i \in 1 .. 4 : T[i] \in Nat
    OBVIOUS
  <1>3. /\ \A i \in 1 .. 5 : S[i] \in 0 .. 100
        /\ \A i, j \in 1 .. 5 : i <= j => S[j] <= S[i]
    OBVIOUS
  <1>4. LatencyScore(f) = ScoreFromThresholds(f.latency, 1, T, S) /\ LatencyScore(g) = ScoreFromThresholds(g.latency, 1, T, S)
    BY <1>1 DEF LatencyScore
  <1> HIDE DEF T, S
  <1>5. \A i \in 1 .. 4 : g.latency > T[i] * 1 => f.latency > T[i] * 1
    BY <1>1, <1>2
  <1> QED  BY <1>2, <1>3, <1>4, <1>5, ScaleFalls, ScaleRange

\* Neither does less jitter.
LEMMA JitterFalls ==
    ASSUME NEW f \in Figure, NEW g \in Figure, AtLeastAsGood(g, f)
    PROVE  /\ JitterScore(f) \in 0 .. 100 /\ JitterScore(g) \in 0 .. 100
           /\ JitterScore(f) <= JitterScore(g)
  <1> DEFINE T == <<10, 30, 60, 120>>
             S == <<100, 80, 60, 35, 10>>
  <1>1. /\ f.latency # NoSample /\ g.latency # NoSample /\ g.jitter <= f.jitter
        /\ f.jitter \in Nat /\ g.jitter \in Nat
    BY DEF AtLeastAsGood, Figure
  <1>2. DOMAIN T = 1 .. 4 /\ \A i \in 1 .. 4 : T[i] \in Nat
    OBVIOUS
  <1>3. /\ \A i \in 1 .. 5 : S[i] \in 0 .. 100
        /\ \A i, j \in 1 .. 5 : i <= j => S[j] <= S[i]
    OBVIOUS
  <1>4. JitterScore(f) = ScoreFromThresholds(f.jitter, 1, T, S) /\ JitterScore(g) = ScoreFromThresholds(g.jitter, 1, T, S)
    BY <1>1 DEF JitterScore
  <1> HIDE DEF T, S
  <1>5. \A i \in 1 .. 4 : g.jitter > T[i] * 1 => f.jitter > T[i] * 1
    BY <1>1, <1>2
  <1> QED  BY <1>2, <1>3, <1>4, <1>5, ScaleFalls, ScaleRange

\* The products that compare two rates by cross multiplication.
LEMMA TimesKeepsOrder ==
    ASSUME NEW a \in Nat, NEW b \in Nat, NEW c \in Nat, a <= b
    PROVE  a * c <= b * c /\ c * a <= c * b
  OBVIOUS

\* Neither does a lower rate of loss, compared without dividing.
LEMMA LossFalls ==
    ASSUME NEW f \in Figure, NEW g \in Figure, AtLeastAsGood(g, f)
    PROVE  /\ PacketLossScore(f) \in 0 .. 100 /\ PacketLossScore(g) \in 0 .. 100
           /\ PacketLossScore(f) <= PacketLossScore(g)
  <1> DEFINE T == <<5, 20, 50, 100>>
             S == <<100, 85, 60, 30, 5>>
  <1>1. /\ f.sent \in Nat /\ g.sent \in Nat /\ f.lost \in Nat /\ g.lost \in Nat
        /\ f.sent > 0 /\ g.sent > 0 /\ g.lost * f.sent <= f.lost * g.sent
    BY DEF AtLeastAsGood, Figure
  <1>2. DOMAIN T = 1 .. 4 /\ \A i \in 1 .. 4 : T[i] \in Nat
    OBVIOUS
  <1>3. /\ \A i \in 1 .. 5 : S[i] \in 0 .. 100
        /\ \A i, j \in 1 .. 5 : i <= j => S[j] <= S[i]
    OBVIOUS
  <1>4. /\ PacketLossScore(f) = ScoreFromThresholds(1000 * f.lost, f.sent, T, S)
        /\ PacketLossScore(g) = ScoreFromThresholds(1000 * g.lost, g.sent, T, S)
    BY <1>1 DEF PacketLossScore, NoSample
  <1> HIDE DEF T, S
  <1>5. ASSUME NEW i \in 1 .. 4, 1000 * g.lost > T[i] * g.sent
        PROVE  1000 * f.lost > T[i] * f.sent
    <2> DEFINE t == T[i]
               lf == f.lost
               lg == g.lost
               sf == f.sent
               sg == g.sent
    <2>1. t \in Nat /\ lf \in Nat /\ lg \in Nat /\ sf \in Nat /\ sg \in Nat /\ sf > 0 /\ sg > 0 /\ lg * sf <= lf * sg
      BY <1>1, <1>2
    <2>2. 1000 * lg > t * sg
      BY <1>5
    <2> HIDE DEF t, lf, lg, sf, sg
    <2>3. ASSUME 1000 * lf <= t * sf PROVE FALSE
      <3>1. (1000 * lf) * sg <= (t * sf) * sg
        BY <2>1, <2>3, TimesKeepsOrder
      <3>2. 1000 * (lg * sf) <= 1000 * (lf * sg)
        BY <2>1
      <3>3. (t * sg + 1) * sf <= (1000 * lg) * sf
        BY <2>1, <2>2, TimesKeepsOrder
      <3>4. (t * sg + 1) * sf = (t * sf) * sg + sf
        BY <2>1
      <3>5. (1000 * lg) * sf = 1000 * (lg * sf) /\ (1000 * lf) * sg = 1000 * (lf * sg)
        BY <2>1
      <3> QED  BY <2>1, <3>1, <3>2, <3>3, <3>4, <3>5
    <2>4. 1000 * lf > t * sf
      BY <2>1, <2>3
    <2> QED  BY <2>4 DEF t, lf, sf
  <1> QED  BY <1>2, <1>3, <1>4, <1>5, ScaleFalls, ScaleRange

\* The pieces of the scale of a direction meet without a step down.
LEMMA DirectionRises ==
    ASSUME NEW low \in Nat, NEW high \in Nat, (low = 64 /\ high = 512) \/ (low = 128 /\ high = 1024),
           NEW b \in Nat, NEW c \in Nat, b <= c
    PROVE  /\ DirectionScore(b, low, high) \in 0 .. 100 /\ DirectionScore(c, low, high) \in 0 .. 100
           /\ DirectionScore(b, low, high) <= DirectionScore(c, low, high)
  <1> DEFINE below(x) == Interpolate(x, 0, low, 0, 30)
             above(x) == Interpolate(x, low, high, 30, 100)
  <1>1. low < high /\ ((low = 64 /\ high = 512) \/ (low = 128 /\ high = 1024))
    OBVIOUS
  <1>2. ASSUME NEW x \in Nat
        PROVE  /\ low = 64 => below(x) = (60 * x + 64) \div 128 /\ above(x) = (140 * (x - 64) + 27328) \div 896
               /\ low = 128 => below(x) = (60 * x + 128) \div 256 /\ above(x) = (140 * (x - 128) + 54656) \div 1792
    <2>1. CASE low = 64
      BY <1>1, <2>1 DEF Interpolate, RoundDiv
    <2>2. CASE low = 128
      BY <1>1, <2>2 DEF Interpolate, RoundDiv
    <2> QED  BY <1>1, <2>1, <2>2
  <1> HIDE DEF below, above
  <1>3. ASSUME NEW x \in Nat, x <= low
        PROVE  below(x) \in 0 .. 30
    <2>1. CASE low = 64
      <3>1. below(x) = (60 * x + 64) \div 128
        BY <1>2, <2>1
      <3>2. (60 * x + 64) \div 128 \in 0 .. 30
        BY <1>3, <2>1
      <3> QED  BY <3>1, <3>2
    <2>2. CASE low = 128
      <3>1. below(x) = (60 * x + 128) \div 256
        BY <1>2, <2>2
      <3>2. (60 * x + 128) \div 256 \in 0 .. 30
        BY <1>3, <2>2
      <3> QED  BY <3>1, <3>2
    <2> QED  BY <1>1, <2>1, <2>2
  <1>4. ASSUME NEW x \in Nat, low <= x, x <= high
        PROVE  above(x) \in 30 .. 100
    <2>1. CASE low = 64
      <3>1. above(x) = (140 * (x - 64) + 27328) \div 896
        BY <1>2, <2>1
      <3>2. (140 * (x - 64) + 27328) \div 896 \in 30 .. 100
        BY <1>1, <1>4, <2>1
      <3> QED  BY <3>1, <3>2
    <2>2. CASE low = 128
      <3>1. above(x) = (140 * (x - 128) + 54656) \div 1792
        BY <1>2, <2>2
      <3>2. (140 * (x - 128) + 54656) \div 1792 \in 30 .. 100
        BY <1>1, <1>4, <2>2
      <3> QED  BY <3>1, <3>2
    <2> QED  BY <1>1, <2>1, <2>2
  <1>5. ASSUME NEW x \in Nat, NEW y \in Nat, x <= y, y <= low
        PROVE  below(x) <= below(y)
    <2>1. CASE low = 64
      BY <1>2, <1>5, <2>1
    <2>2. CASE low = 128
      BY <1>2, <1>5, <2>2
    <2> QED  BY <1>1, <2>1, <2>2
  <1>6. ASSUME NEW x \in Nat, NEW y \in Nat, low <= x, x <= y, y <= high
        PROVE  above(x) <= above(y)
    <2>1. CASE low = 64
      BY <1>2, <1>6, <2>1
    <2>2. CASE low = 128
      BY <1>2, <1>6, <2>2
    <2> QED  BY <1>1, <2>1, <2>2
  <1>7. ASSUME NEW x \in Nat
        PROVE  DirectionScore(x, low, high) = IF x >= high THEN 100 ELSE IF x <= low THEN below(x) ELSE above(x)
    BY DEF DirectionScore, below, above
  <1>8. ASSUME NEW x \in Nat
        PROVE  DirectionScore(x, low, high) \in 0 .. 100
    <2>1. CASE x >= high
      BY <1>7, <2>1
    <2>2. CASE x <= low
      BY <1>1, <1>3, <1>7, <2>2
    <2>3. CASE low < x /\ x < high
      BY <1>1, <1>4, <1>7, <2>3
    <2> QED  BY <2>1, <2>2, <2>3
  <1>9. DirectionScore(b, low, high) <= DirectionScore(c, low, high)
    <2>1. CASE c >= high
      BY <1>7, <1>8, <2>1
    <2>2. CASE c <= low
      BY <1>1, <1>5, <1>7, <2>2
    <2>3. CASE b <= low /\ low < c /\ c < high
      <3>1. below(b) \in 0 .. 30 /\ above(c) \in 30 .. 100
        BY <1>3, <1>4, <2>3
      <3>2. DirectionScore(b, low, high) = below(b) /\ DirectionScore(c, low, high) = above(c)
        BY <1>1, <1>7, <2>3
      <3> QED  BY <3>1, <3>2
    <2>4. CASE low < b /\ c < high
      <3>1. above(b) <= above(c)
        BY <1>6, <2>4
      <3>2. DirectionScore(b, low, high) = above(b) /\ DirectionScore(c, low, high) = above(c)
        BY <1>1, <1>7, <2>4
      <3> QED  BY <3>1, <3>2
    <2> QED  BY <1>1, <2>1, <2>2, <2>3, <2>4
  <1> QED  BY <1>8, <1>9

\* A connection with more bandwidth in both directions does not lose points.
LEMMA BandwidthRises ==
    ASSUME NEW f \in Figure, NEW g \in Figure, AtLeastAsGood(g, f)
    PROVE  /\ BandwidthScore(f) \in 0 .. 100 /\ BandwidthScore(g) \in 0 .. 100
           /\ BandwidthScore(f) <= BandwidthScore(g)
  <1>1. /\ f.up # NoSample /\ g.up # NoSample /\ f.down # NoSample /\ g.down # NoSample
        /\ f.up \in Nat /\ g.up \in Nat /\ f.down \in Nat /\ g.down \in Nat
        /\ f.up <= g.up /\ f.down <= g.down
    BY DEF AtLeastAsGood, Figure, NoSample
  <1> DEFINE fu == DirectionScore(f.up, 64, 512)
             gu == DirectionScore(g.up, 64, 512)
             fd == DirectionScore(f.down, 128, 1024)
             gd == DirectionScore(g.down, 128, 1024)
  <1>2. fu \in 0 .. 100 /\ gu \in 0 .. 100 /\ fu <= gu /\ fd \in 0 .. 100 /\ gd \in 0 .. 100 /\ fd <= gd
    <2>1. fu \in 0 .. 100 /\ gu \in 0 .. 100 /\ fu <= gu
      BY <1>1, DirectionRises
    <2>2. fd \in 0 .. 100 /\ gd \in 0 .. 100 /\ fd <= gd
      BY <1>1, DirectionRises
    <2> QED  BY <2>1, <2>2
  <1>3. BandwidthScore(f) = RoundDiv(4 * fu + 6 * fd, 10) /\ BandwidthScore(g) = RoundDiv(4 * gu + 6 * gd, 10)
    BY <1>1 DEF BandwidthScore
  <1> HIDE DEF fu, gu, fd, gd
  <1> QED  BY <1>2, <1>3 DEF RoundDiv

\* Better figures do not lose points.
LEMMA ScoreRises ==
    ASSUME NEW f \in Figure, NEW g \in Figure, AtLeastAsGood(g, f)
    PROVE  Score(f) \in 0 .. 100 /\ Score(g) \in 0 .. 100 /\ Score(f) <= Score(g)
  <1> DEFINE lf == LatencyScore(f)
             lg == LatencyScore(g)
             jf == JitterScore(f)
             jg == JitterScore(g)
             pf == PacketLossScore(f)
             pg == PacketLossScore(g)
             bf == BandwidthScore(f)
             bg == BandwidthScore(g)
  <1>1. /\ lf \in 0 .. 100 /\ lg \in 0 .. 100 /\ lf <= lg /\ jf \in 0 .. 100 /\ jg \in 0 .. 100 /\ jf <= jg
        /\ pf \in 0 .. 100 /\ pg \in 0 .. 100 /\ pf <= pg /\ bf \in 0 .. 100 /\ bg \in 0 .. 100 /\ bf <= bg
    BY LatencyFalls, JitterFalls, LossFalls, BandwidthRises
  <1>2. /\ Score(f) = RoundDiv(30 * lf + 25 * jf + 30 * pf + 15 * bf, 100)
        /\ Score(g) = RoundDiv(30 * lg + 25 * jg + 30 * pg + 15 * bg, 100)
    BY DEF Score
  <1> HIDE DEF lf, lg, jf, jg, pf, pg, bf, bg
  <1> QED  BY <1>1, <1>2 DEF RoundDiv

\* More points are no lower grade.
LEMMA GradeRises ==
    ASSUME NEW x \in Nat, NEW y \in Nat, x <= y
    PROVE  Grade(x) \in Nat /\ Grade(y) \in Nat /\ Grade(x) <= Grade(y)
  <1> DEFINE B(s) == {b \in {30, 55, 75, 90} : s >= b}
  <1>1. B(x) \subseteq B(y)
    OBVIOUS
  <1>2. IsFiniteSet({30, 55, 75, 90})
    <2> DEFINE one == {30}
               two == one \cup {55}
               three == two \cup {75}
               four == three \cup {90}
    <2>1. four = {30, 55, 75, 90}
      OBVIOUS
    <2>2. IsFiniteSet(one)
      BY FS_Singleton
    <2> HIDE DEF one
    <2>3. IsFiniteSet(two)
      BY <2>2, FS_AddElement
    <2> HIDE DEF two
    <2>4. IsFiniteSet(three)
      BY <2>3, FS_AddElement
    <2> HIDE DEF three
    <2>5. IsFiniteSet(four)
      BY <2>4, FS_AddElement
    <2> QED  BY <2>1, <2>5
  <1>3. IsFiniteSet(B(x)) /\ IsFiniteSet(B(y))
    BY <1>2, FS_Subset
  <1>4. Cardinality(B(x)) <= Cardinality(B(y))
    BY <1>1, <1>3, FS_Subset
  <1>5. Cardinality(B(x)) \in Nat /\ Cardinality(B(y)) \in Nat
    BY <1>3, FS_CardinalityType
  <1> QED  BY <1>4, <1>5 DEF Grade

\* The figures of a member are measured ones, or none.
LEMMA FiguresStayTyped == EstimatorSpec => []FiguresInv
  <1>1. EstimatorInit => FiguresInv
    BY DEF EstimatorInit, FiguresInv, Figure, NoFigures, NoSample
  <1>2. ASSUME FiguresInv, [EstimatorNext]_estimatorVars  PROVE FiguresInv'
    <2>1. ASSUME NEW m \in Members, NEW f \in Figures, Measure(m, f)  PROVE FiguresInv'
      <3>1. f \in Figure
        BY EstimatorAssumption DEF Figure
      <3> QED  BY <1>2, <2>1, <3>1 DEF Measure, FiguresInv
    <2>2. CASE UNCHANGED figures
      BY <1>2, <2>2 DEF FiguresInv
    <2> QED  BY <1>2, <2>1, <2>2 DEF EstimatorNext, AddSample, estimatorVars
  <1> QED  BY <1>1, <1>2, PTL DEF EstimatorSpec

\* A connection that gets better in every figure, or stays, neither loses points
\* nor falls to a lower grade, whatever the figures are
\* (ConnectionQualityScorer.score, gradeFromScore).
THEOREM ScoresAreMonotone == EstimatorSpec => BetterNeverScoresLess
  <1>1. ASSUME FiguresInv, FiguresInv', NEW m \in Members, AtLeastAsGood(figures'[m], figures[m])
        PROVE  /\ Score(figures'[m]) >= Score(figures[m])
               /\ Grade(Score(figures'[m])) >= Grade(Score(figures[m]))
    <2> DEFINE f == figures[m]
               g == figures'[m]
    <2>1. f \in Figure /\ g \in Figure /\ AtLeastAsGood(g, f)
      BY <1>1 DEF FiguresInv
    <2> HIDE DEF f, g
    <2>2. Score(f) \in 0 .. 100 /\ Score(g) \in 0 .. 100 /\ Score(f) <= Score(g)
      BY <2>1, ScoreRises
    <2>3. Score(f) \in Nat /\ Score(g) \in Nat
      BY <2>2
    <2>4. Grade(Score(f)) \in Nat /\ Grade(Score(g)) \in Nat /\ Grade(Score(f)) <= Grade(Score(g))
      BY <2>2, <2>3, GradeRises
    <2>5. Score(g) >= Score(f) /\ Grade(Score(g)) >= Grade(Score(f))
      BY <2>2, <2>4
    <2> QED  BY <2>5 DEF f, g
  <1>2. ASSUME FiguresInv, FiguresInv'
        PROVE  [\A m \in Members : AtLeastAsGood(figures'[m], figures[m]) =>
                  /\ Score(figures'[m]) >= Score(figures[m])
                  /\ Grade(Score(figures'[m])) >= Grade(Score(figures[m]))]_estimatorVars
    BY <1>1, <1>2
  <1> QED  BY <1>2, FiguresStayTyped, PTL DEF BetterNeverScoresLess

-----------------------------------------------------------------------------
(* Sums over a list. *)

\* g holds the sums of the values of v at P, up to each position.
IsSum(g, v, P) ==
    /\ g \in [0 .. Len(v) -> Int] /\ g[0] = 0
    /\ \A i \in 1 .. Len(v) : g[i] = g[i - 1] + (IF i \in P THEN v[i] ELSE 0)

\* There are such sums, and SumOf is the last of them.
LEMMA SumOfIsSum ==
    ASSUME NEW v \in Seq(Int), NEW P
    PROVE  \E g : IsSum(g, v, P) /\ SumOf(v, P) = g[Len(v)]
  <1> DEFINE n == Len(v)
             at(i) == IF i \in P THEN v[i] ELSE 0
             step == [i \in 1 .. n |-> [x \in Int |-> x + at(i)]]
             Is(f) == f = [i \in 0 .. n |-> IF i = 0 THEN 0 ELSE f[i - 1] + (IF i \in P THEN v[i] ELSE 0)]
             sum == CHOOSE f : Is(f)
  <1>1. n \in Nat /\ \A i \in 1 .. n : v[i] \in Int
    OBVIOUS
  <1>2. \A i \in 1 .. n : at(i) \in Int
    BY <1>1
  <1>3. step \in Steps(Int, n)
    <2> HIDE DEF at
    <2> QED  BY <1>2 DEF Steps
  <1>4. PICK f : IsRun(f, 0, Int, n, step)
    <2> DEFINE S == Int
               zero == 0
    <2>1. zero \in S /\ step \in Steps(S, n) /\ n \in Nat
      BY <1>1, <1>3
    <2> HIDE DEF step, n, S, zero
    <2>2. \E f : IsRun(f, zero, S, n, step)
      BY <2>1, RunExists
    <2> QED  BY <2>2 DEF S, zero
  <1>5. \A i \in 1 .. n : f[i] = f[i - 1] + at(i)
    <2> SUFFICES ASSUME NEW i \in 1 .. n PROVE f[i] = f[i - 1] + at(i)
      OBVIOUS
    <2> HIDE DEF at
    <2>1. i - 1 \in 0 .. n
      BY <1>1
    <2>2. f[i - 1] \in Int /\ f[i] = step[i][f[i - 1]]
      BY <1>4, <2>1 DEF IsRun
    <2> QED  BY <2>2
  <1>6. Is(f)
    <2>1. ASSUME NEW i \in 0 .. n
          PROVE  f[i] = IF i = 0 THEN 0 ELSE f[i - 1] + (IF i \in P THEN v[i] ELSE 0)
      <3>1. i = 0 \/ i \in 1 .. n
        BY <1>1
      <3> QED  BY <3>1, <1>4, <1>5 DEF IsRun
    <2>2. f = [i \in 0 .. n |-> f[i]]
      BY <1>4 DEF IsRun
    <2> QED  BY <2>1, <2>2
  <1>7. Is(sum)
    <2> HIDE DEF Is
    <2> QED  BY <1>6
  <1> HIDE DEF sum
  <1>8. /\ sum[0] = 0 /\ DOMAIN sum = 0 .. n
        /\ sum = [i \in 0 .. n |-> sum[i]]
        /\ \A i \in 1 .. n : sum[i] = sum[i - 1] + at(i)
    <2>1. \A i \in 0 .. n : sum[i] = IF i = 0 THEN 0 ELSE sum[i - 1] + (IF i \in P THEN v[i] ELSE 0)
      BY <1>7
    <2>2. 0 \in 0 .. n /\ \A i \in 1 .. n : i \in 0 .. n /\ i # 0
      BY <1>1
    <2> QED  BY <1>7, <2>1, <2>2
  <1> HIDE DEF Is
  <1> DEFINE T == {i \in 0 .. n : sum[i] \in Int}
  <1>9. 0 \in T
    BY <1>1, <1>8
  <1>10. ASSUME NEW i \in 1 .. n, i - 1 \in T  PROVE i \in T
    <2> HIDE DEF at
    <2>1. sum[i - 1] \in Int /\ i \in 0 .. n
      BY <1>1, <1>10
    <2>2. sum[i] = sum[i - 1] + at(i) /\ at(i) \in Int
      BY <1>2, <1>8
    <2> QED  BY <2>1, <2>2
  <1> HIDE DEF T
  <1>11. \A i \in 0 .. n : i \in T
    BY <1>1, <1>9, <1>10, HoldsUpTo, Zenon
  <1>12. sum \in [0 .. n -> Int]
    BY <1>8, <1>11 DEF T
  <1>13. SumOf(v, P) = sum[n]
    BY DEF SumOf, sum, Is, n
  <1>14. IsSum(sum, v, P)
    BY <1>8, <1>12 DEF IsSum
  <1> QED  BY <1>13, <1>14

\* The sum of a list of numbers is a number.
LEMMA SumType ==
    ASSUME NEW v \in Seq(Int), NEW P
    PROVE  SumOf(v, P) \in Int
  <1>1. PICK g : IsSum(g, v, P) /\ SumOf(v, P) = g[Len(v)]
    BY SumOfIsSum
  <1>2. Len(v) \in 0 .. Len(v)
    OBVIOUS
  <1> QED  BY <1>1, <1>2 DEF IsSum

\* What is at no position sums up to 0.
LEMMA SumOfNone ==
    ASSUME NEW v \in Seq(Int)
    PROVE  SumOf(v, {}) = 0
  <1>1. PICK g : IsSum(g, v, {}) /\ SumOf(v, {}) = g[Len(v)]
    BY SumOfIsSum
  <1> DEFINE n == Len(v)
             T == {i \in 0 .. n : g[i] = 0}
  <1>2. n \in Nat /\ 0 \in T
    BY <1>1 DEF IsSum
  <1>3. ASSUME NEW i \in 1 .. n, i - 1 \in T  PROVE i \in T
    BY <1>1, <1>3 DEF IsSum
  <1> HIDE DEF T
  <1>4. \A i \in 0 .. n : i \in T
    BY <1>2, <1>3, HoldsUpTo, Zenon
  <1> QED  BY <1>1, <1>2, <1>4 DEF T

\* The sum over two parts is that of their sums.
LEMMA SumAdds ==
    ASSUME NEW v \in Seq(Int), NEW P, NEW Q, P \cap Q = {}
    PROVE  SumOf(v, P \cup Q) = SumOf(v, P) + SumOf(v, Q)
  <1>1. PICK a : IsSum(a, v, P) /\ SumOf(v, P) = a[Len(v)]
    BY SumOfIsSum
  <1>2. PICK b : IsSum(b, v, Q) /\ SumOf(v, Q) = b[Len(v)]
    BY SumOfIsSum
  <1>3. PICK c : IsSum(c, v, P \cup Q) /\ SumOf(v, P \cup Q) = c[Len(v)]
    BY SumOfIsSum
  <1> DEFINE n == Len(v)
             T == {i \in 0 .. n : c[i] = a[i] + b[i]}
  <1>4. n \in Nat /\ 0 \in T
    BY <1>1, <1>2, <1>3 DEF IsSum
  <1>5. ASSUME NEW i \in 1 .. n, i - 1 \in T  PROVE i \in T
    <2>1. i - 1 \in 0 .. n /\ i \in 0 .. n /\ v[i] \in Int
      BY <1>4
    <2>2. a[i - 1] \in Int /\ b[i - 1] \in Int /\ c[i - 1] = a[i - 1] + b[i - 1]
      BY <1>1, <1>2, <1>5, <2>1 DEF IsSum
    <2>3. a[i] = a[i - 1] + (IF i \in P THEN v[i] ELSE 0)
      BY <1>1 DEF IsSum
    <2>4. b[i] = b[i - 1] + (IF i \in Q THEN v[i] ELSE 0)
      BY <1>2 DEF IsSum
    <2>5. c[i] = c[i - 1] + (IF i \in P \cup Q THEN v[i] ELSE 0)
      BY <1>3 DEF IsSum
    <2>6. c[i] = a[i] + b[i]
      <3>1. CASE i \in P
        BY <3>1, <2>1, <2>2, <2>3, <2>4, <2>5
      <3>2. CASE i \in Q
        BY <3>2, <2>1, <2>2, <2>3, <2>4, <2>5
      <3>3. CASE i \notin P \cup Q
        BY <3>3, <2>1, <2>2, <2>3, <2>4, <2>5
      <3> QED  BY <3>1, <3>2, <3>3
    <2> QED  BY <2>1, <2>6
  <1> HIDE DEF T
  <1>6. \A i \in 0 .. n : i \in T
    BY <1>4, <1>5, HoldsUpTo, Zenon
  <1>7. n \in 0 .. n
    BY <1>4
  <1> QED  BY <1>1, <1>2, <1>3, <1>6, <1>7 DEF T

\* One more value between c and d.
LEMMA SumBetweenNext ==
    ASSUME NEW c \in Int, NEW d \in Int, NEW k \in Nat, NEW s \in Int, NEW x \in Int,
           c * k <= s, s <= d * k, c <= x, x <= d
    PROVE  c * (k + 1) <= s + x /\ s + x <= d * (k + 1)
  <1>1. c * (k + 1) = c * k + c /\ d * (k + 1) = d * k + d /\ c * k \in Int /\ d * k \in Int
    OBVIOUS
  <1> QED  BY <1>1

\* Values of at least c, and of at most d, sum up to so many times as much.
LEMMA SumBetween ==
    ASSUME NEW v \in Seq(Int), NEW P \in SUBSET (1 .. Len(v)), NEW c \in Int, NEW d \in Int,
           \A i \in P : c <= v[i] /\ v[i] <= d
    PROVE  /\ IsFiniteSet(P) /\ Cardinality(P) \in Nat
           /\ c * Cardinality(P) <= SumOf(v, P) /\ SumOf(v, P) <= d * Cardinality(P)
  <1>1. PICK g : IsSum(g, v, P) /\ SumOf(v, P) = g[Len(v)]
    BY SumOfIsSum
  <1> DEFINE n == Len(v)
             Good(S, s) == IsFiniteSet(S) /\ Cardinality(S) \in Nat /\ c * Cardinality(S) <= s /\ s <= d * Cardinality(S)
             T == {i \in 0 .. n : Good(P \cap (1 .. i), g[i])}
  <1>2. n \in Nat
    OBVIOUS
  <1>3. 0 \in T
    <2>1. P \cap (1 .. 0) = {} /\ g[0] = 0
      BY <1>1 DEF IsSum
    <2>2. Good({}, 0)
      BY FS_EmptySet
    <2> HIDE DEF Good
    <2> QED  BY <1>2, <2>1, <2>2
  <1>4. ASSUME NEW i \in 1 .. n, i - 1 \in T  PROVE i \in T
    <2> DEFINE A == P \cap (1 .. i - 1)
               B == P \cap (1 .. i)
    <2>1. i - 1 \in 0 .. n /\ Good(A, g[i - 1])
      BY <1>4
    <2>2. g[i] = g[i - 1] + (IF i \in P THEN v[i] ELSE 0)
      BY <1>1 DEF IsSum
    <2>3. g[i - 1] \in Int /\ v[i] \in Int /\ i \in 0 .. n
      <3>1. g \in [0 .. n -> Int]
        BY <1>1 DEF IsSum
      <3>2. v[i] \in Int /\ i \in 0 .. n
        BY <1>2
      <3> QED  BY <2>1, <3>1, <3>2
    <2>4. Good(B, g[i])
      <3>1. CASE i \in P
        <4>1. B = A \cup {i} /\ i \notin A
          BY <1>2, <3>1
        <4>2. c <= v[i] /\ v[i] <= d /\ g[i] = g[i - 1] + v[i]
          BY <2>2, <3>1
        <4> HIDE DEF A, B
        <4>3. IsFiniteSet(B) /\ Cardinality(B) = Cardinality(A) + 1
          BY <2>1, <4>1, FS_AddElement
        <4> DEFINE k == Cardinality(A)
                   s == g[i - 1]
                   x == v[i]
        <4>4. k \in Nat /\ c * k <= s /\ s <= d * k /\ s \in Int /\ x \in Int /\ c <= x /\ x <= d
          BY <2>1, <2>3, <4>2
        <4> HIDE DEF k, s, x
        <4>5. c * (k + 1) <= s + x /\ s + x <= d * (k + 1)
          BY <4>4, SumBetweenNext
        <4> QED  BY <4>2, <4>3, <4>4, <4>5 DEF k, s, x
      <3>2. CASE i \notin P
        <4>1. B = A /\ g[i] = g[i - 1]
          BY <1>2, <2>2, <2>3, <3>2
        <4> QED  BY <2>1, <4>1
      <3> QED  BY <3>1, <3>2
    <2> HIDE DEF Good
    <2> QED  BY <2>3, <2>4
  <1> HIDE DEF T
  <1>5. \A i \in 0 .. n : i \in T
    BY <1>2, <1>3, <1>4, HoldsUpTo, Zenon
  <1>6. P \cap (1 .. n) = P /\ n \in T
    <2>1. P \cap (1 .. n) = P
      OBVIOUS
    <2>2. n \in 0 .. n
      BY <1>2
    <2> QED  BY <1>5, <2>1, <2>2
  <1>7. Good(P, g[n])
    <2> HIDE DEF Good
    <2> QED  BY <1>6 DEF T
  <1> QED  BY <1>1, <1>7

-----------------------------------------------------------------------------
(* Sorting. *)

\* n numbered elements, none of which comes twice, are n.
LEMMA FirstNumbers ==
    ASSUME NEW n \in Nat
    PROVE  IsFiniteSet(1 .. n) /\ Cardinality(1 .. n) = n
  <1> DEFINE a == 1
  <1>1. a \in Int /\ n \in Int /\ (a > n => n = 0) /\ n - a + 1 = n
    OBVIOUS
  <1> HIDE DEF a
  <1>2. IsFiniteSet(a .. n) /\ Cardinality(a .. n) = IF a > n THEN 0 ELSE n - a + 1
    BY <1>1, FS_Interval
  <1> QED  BY <1>1, <1>2 DEF a

\* The positions of values, by value and then by position.
Precedes(values, i, j) == values[i] < values[j] \/ (values[i] = values[j] /\ i <= j)
UpTo(values, D, j) == {i \in D : Precedes(values, i, j)}

\* The place of a position in that order.
LEMMA PlacesDiffer ==
    ASSUME NEW D \in SUBSET Nat, IsFiniteSet(D), NEW values \in [D -> Int],
           NEW i \in D, NEW j \in D, i # j, Precedes(values, i, j)
    PROVE  Cardinality(UpTo(values, D, i)) < Cardinality(UpTo(values, D, j))
  <1>1. \A a \in D : a \in Nat /\ values[a] \in Int
    OBVIOUS
  <1> DEFINE A == UpTo(values, D, i)
             B == UpTo(values, D, j)
  <1>2. A \subseteq D /\ B \subseteq D
    BY DEF UpTo
  <1>3. ASSUME NEW a \in A PROVE a \in B
    <2>1. a \in D /\ Precedes(values, a, i)
      BY <1>3 DEF UpTo
    <2>2. values[a] \in Int /\ values[i] \in Int /\ values[j] \in Int /\ a \in Nat /\ i \in Nat /\ j \in Nat
      BY <1>1, <2>1
    <2>3. Precedes(values, a, j)
      BY <2>1, <2>2 DEF Precedes
    <2> QED  BY <2>1, <2>3 DEF UpTo
  <1>4. j \in B /\ j \notin A
    <2>1. values[i] \in Int /\ values[j] \in Int /\ i \in Nat /\ j \in Nat
      BY <1>1
    <2>2. Precedes(values, j, j) /\ ~Precedes(values, j, i)
      BY <2>1 DEF Precedes
    <2> QED  BY <2>2 DEF UpTo
  <1> HIDE DEF A, B
  <1>5. IsFiniteSet(A) /\ IsFiniteSet(B) /\ Cardinality(A) <= Cardinality(B) /\ Cardinality(A) # Cardinality(B)
    <2>1. IsFiniteSet(B)
      BY <1>2, FS_Subset
    <2>2. A \in SUBSET B /\ A # B
      BY <1>3, <1>4
    <2> QED  BY <2>1, <2>2, FS_Subset
  <1>6. Cardinality(A) \in Nat /\ Cardinality(B) \in Nat
    BY <1>5, FS_CardinalityType
  <1>7. Cardinality(A) < Cardinality(B)
    BY <1>5, <1>6
  <1> QED  BY <1>7 DEF A, B

\* Numbers can be sorted.
Sorts(q, values, D) ==
    /\ q \in Bijection(1 .. Cardinality(D), D)
    /\ \A i, j \in 1 .. Cardinality(D) : i < j => values[q[i]] <= values[q[j]]

LEMMA CanBeSorted ==
    ASSUME NEW D \in SUBSET Nat, IsFiniteSet(D), NEW values \in [D -> Int]
    PROVE  \E q : Sorts(q, values, D)
  <1> DEFINE n == Cardinality(D)
             place(i) == Cardinality(UpTo(values, D, i))
             f == [i \in D |-> place(i)]
  <1>1. n \in Nat /\ IsFiniteSet(1 .. n) /\ Cardinality(1 .. n) = n
    BY FS_CardinalityType, FirstNumbers
  <1>2. \A a \in D : a \in Nat /\ values[a] \in Int
    OBVIOUS
  <1>3. ASSUME NEW i \in D PROVE place(i) \in 1 .. n
    <2>1. UpTo(values, D, i) \in SUBSET D /\ i \in UpTo(values, D, i)
      BY <1>2 DEF UpTo, Precedes
    <2>2. IsFiniteSet(UpTo(values, D, i)) /\ Cardinality(UpTo(values, D, i)) <= n
      BY <2>1, FS_Subset
    <2>3. Cardinality(UpTo(values, D, i)) \in Nat /\ Cardinality(UpTo(values, D, i)) # 0
      BY <2>1, <2>2, FS_CardinalityType, FS_EmptySet
    <2> HIDE DEF n
    <2> QED  BY <1>1, <2>2, <2>3
  <1>4. ASSUME NEW i \in D, NEW j \in D, i # j
        PROVE  Precedes(values, i, j) \/ Precedes(values, j, i)
    <2>1. values[i] \in Int /\ values[j] \in Int /\ i \in Nat /\ j \in Nat
      BY <1>2
    <2> QED  BY <2>1 DEF Precedes
  <1>5. ASSUME NEW i \in D, NEW j \in D, i # j, Precedes(values, i, j)
        PROVE  place(i) < place(j)
    BY <1>5, PlacesDiffer
  <1> HIDE DEF place
  <1>6. f \in [D -> 1 .. n]
    BY <1>3
  <1>7. ASSUME NEW i \in D, NEW j \in D, f[i] = f[j] PROVE i = j
    <2> SUFFICES ASSUME i # j PROVE FALSE
      OBVIOUS
    <2>1. place(i) = place(j) /\ place(i) \in Nat
      BY <1>1, <1>3, <1>7
    <2>2. place(i) < place(j) \/ place(j) < place(i)
      BY <1>4, <1>5
    <2> QED  BY <2>1, <2>2
  <1>8. f \in Injection(D, 1 .. n)
    BY <1>6, <1>7 DEF Injection, IsInjective
  <1>9. f \in Surjection(D, 1 .. n)
    BY <1>1, <1>8, FS_Injection
  <1> DEFINE q == [k \in 1 .. n |-> CHOOSE i \in D : f[i] = k]
  <1>10. ASSUME NEW k \in 1 .. n PROVE q[k] \in D /\ f[q[k]] = k
    <2>1. \E i \in D : f[i] = k
      BY <1>6, <1>9 DEF Surjection
    <2> HIDE DEF f, n
    <2> QED  BY <2>1
  <1>11. \A i \in D : f[i] \in 1 .. n /\ f[i] = place(i)
    BY <1>6
  <1> HIDE DEF f
  <1>12. q \in [1 .. n -> D]
    BY <1>10
  <1>13. DOMAIN q = 1 .. n
    OBVIOUS
  <1> HIDE DEF q, n
  <1>14. \A a, b \in 1 .. n : q[a] = q[b] => a = b
    BY <1>10
  <1>15. \A i \in D : q[f[i]] = i
    BY <1>7, <1>10, <1>11
  <1>16. q \in Bijection(1 .. n, D)
    <2>1. q \in Injection(1 .. n, D)
      BY <1>12, <1>13, <1>14 DEF Injection, IsInjective
    <2>2. \A i \in D : \E k \in 1 .. n : q[k] = i
      BY <1>11, <1>15
    <2>3. q \in Surjection(1 .. n, D)
      BY <1>12, <1>13, <2>2 DEF Surjection
    <2> QED  BY <2>1, <2>3 DEF Bijection
  <1>17. ASSUME NEW a \in 1 .. n, NEW b \in 1 .. n, a < b
         PROVE  values[q[a]] <= values[q[b]]
    <2>1. q[a] \in D /\ q[b] \in D /\ f[q[a]] = a /\ f[q[b]] = b
      BY <1>10
    <2>2. values[q[a]] \in Int /\ values[q[b]] \in Int
      BY <1>2, <2>1
    <2> SUFFICES ASSUME values[q[b]] < values[q[a]] PROVE FALSE
      BY <2>2
    <2>3. Precedes(values, q[b], q[a]) /\ q[a] # q[b]
      BY <2>2 DEF Precedes
    <2>4. place(q[b]) < place(q[a])
      BY <1>5, <2>1, <2>3
    <2>5. b < a
      BY <1>11, <2>1, <2>4
    <2> QED  BY <1>1, <1>17, <2>5
  <1> QED  BY <1>16, <1>17 DEF Sorts, n

\* The positions of the values that do not exceed v, are smaller, are no smaller.
AtMost(values, D, v) == {i \in D : values[i] <= v}
Below(values, D, v) == {i \in D : values[i] < v}
AtLeast(values, D, v) == {i \in D : values[i] >= v}

\* The k-th of a sorted array: k of the values do not exceed it, fewer than k
\* are smaller, and all those from the k-th on are no smaller.
LEMMA SortedRanks ==
    ASSUME NEW D \in SUBSET Nat, IsFiniteSet(D), NEW values \in [D -> Int],
           NEW k \in 1 .. Cardinality(D)
    PROVE  /\ Len(Ascending(values)) = Cardinality(D)
           /\ \E i \in D : Ascending(values)[k] = values[i]
           /\ \A l \in k .. Cardinality(D) : Ascending(values)[k] <= Ascending(values)[l]
           /\ k <= Cardinality(AtMost(values, D, Ascending(values)[k]))
           /\ Cardinality(Below(values, D, Ascending(values)[k])) < k
           /\ Cardinality(D) - k < Cardinality(AtLeast(values, D, Ascending(values)[k]))
  <1> DEFINE n == Cardinality(D)
             p == CHOOSE q \in Bijection(1 .. n, D) : \A i, j \in 1 .. n : i < j => values[q[i]] <= values[q[j]]
             s == [m \in 1 .. n |-> values[p[m]]]
  <1>1. n \in Nat /\ k \in 1 .. n
    BY FS_CardinalityType
  <1>2. \A i \in D : values[i] \in Int
    OBVIOUS
  <1>3. /\ p \in Bijection(1 .. n, D)
        /\ \A i, j \in 1 .. n : i < j => values[p[i]] <= values[p[j]]
    BY CanBeSorted DEF Sorts
  <1>4. Ascending(values) = s
    BY DEF Ascending
  <1> HIDE DEF p
  <1>5. /\ p \in [1 .. n -> D]
        /\ \A i, j \in 1 .. n : p[i] = p[j] => i = j
        /\ \A d \in D : \E j \in 1 .. n : p[j] = d
    BY <1>3 DEF Bijection, Injection, Surjection, IsInjective
  <1>6. /\ \A m \in 1 .. n : s[m] = values[p[m]] /\ p[m] \in D /\ s[m] \in Int
        /\ \A i, j \in 1 .. n : i <= j => s[i] <= s[j]
    <2>1. \A m \in 1 .. n : s[m] = values[p[m]] /\ p[m] \in D /\ s[m] \in Int
      BY <1>5
    <2>2. ASSUME NEW i \in 1 .. n, NEW j \in 1 .. n, i <= j PROVE s[i] <= s[j]
      <3>1. CASE i = j
        BY <2>1, <3>1
      <3>2. CASE i < j
        BY <1>3, <2>1, <3>2
      <3> QED  BY <1>1, <2>2, <3>1, <3>2
    <2> QED  BY <2>1, <2>2
  <1>7. Len(s) = n
    BY <1>1
  <1> HIDE DEF s
  <1> DEFINE Low == {i \in D : values[i] <= s[k]}
             Less == {i \in D : values[i] < s[k]}
             High == {i \in D : values[i] >= s[k]}
  <1>8. /\ IsFiniteSet(Low) /\ IsFiniteSet(Less) /\ IsFiniteSet(High)
        /\ Cardinality(Low) \in Nat /\ Cardinality(Less) \in Nat /\ Cardinality(High) \in Nat
    <2>1. Low \subseteq D /\ Less \subseteq D /\ High \subseteq D
      OBVIOUS
    <2> HIDE DEF Low, Less, High
    <2>2. IsFiniteSet(Low) /\ IsFiniteSet(Less) /\ IsFiniteSet(High)
      BY <2>1, FS_Subset
    <2> QED  BY <2>2, FS_CardinalityType
  <1>9. k <= Cardinality(Low)
    <2> DEFINE f == [j \in 1 .. k |-> p[j]]
    <2>1. \A j \in 1 .. k : j \in 1 .. n /\ j <= k
      BY <1>1
    <2>2. \A j \in 1 .. k : p[j] \in Low
      BY <1>1, <1>6, <2>1
    <2> HIDE DEF Low
    <2>3. f \in [1 .. k -> Low]
      BY <2>2
    <2>4. \A i, j \in 1 .. k : f[i] = f[j] => i = j
      BY <1>5, <2>1
    <2>5. f \in Injection(1 .. k, Low)
      BY <2>3, <2>4 DEF Injection, IsInjective
    <2> HIDE DEF f
    <2>6. Cardinality(1 .. k) <= Cardinality(Low)
      BY <1>8, <2>5, FS_Injection
    <2> QED  BY <1>1, <2>6, FirstNumbers
  <1>10. Cardinality(Less) < k
    <2> DEFINE J == {j \in 1 .. n : p[j] \in Less}
               f == [j \in J |-> p[j]]
               m == k - 1
    <2>1. m \in Nat /\ IsFiniteSet(1 .. m) /\ Cardinality(1 .. m) = m
      BY <1>1, FirstNumbers
    <2>2. ASSUME NEW j \in J PROVE j \in 1 .. m
      <3>1. j \in 1 .. n /\ s[j] < s[k]
        BY <1>6, <2>2
      <3>2. s[j] \in Int /\ s[k] \in Int /\ (k <= j => s[k] <= s[j])
        BY <1>1, <1>6, <3>1
      <3> QED  BY <1>1, <3>1, <3>2
    <2>3. \A i \in Less : \E j \in J : f[j] = i
      BY <1>5
    <2>4. f \in [J -> Less]
      OBVIOUS
    <2>5. f \in Surjection(J, Less)
      <3> HIDE DEF f, J, Less
      <3> QED  BY <2>3, <2>4 DEF Surjection
    <2> HIDE DEF f, J, Less
    <2>6. IsFiniteSet(J) /\ Cardinality(J) <= m
      <3>1. J \in SUBSET (1 .. m)
        BY <2>2
      <3> HIDE DEF m
      <3> QED  BY <2>1, <3>1, FS_Subset
    <2>7. Cardinality(Less) <= Cardinality(J) /\ Cardinality(J) \in Nat
      BY <2>5, <2>6, FS_Surjection, FS_CardinalityType
    <2> QED  BY <1>1, <1>8, <2>6, <2>7
  <1>11. n - k < Cardinality(High)
    <2>1. \A i \in D : values[i] < s[k] <=> ~(values[i] >= s[k])
      BY <1>1, <1>2, <1>6
    <2>2. Less \cup High = D /\ Less \cap High = {}
      BY <2>1
    <2> HIDE DEF Less, High
    <2>3. n = Cardinality(Less) + Cardinality(High) - Cardinality({})
      BY <1>8, <2>2, FS_Union
    <2> QED  BY <1>1, <1>8, <1>10, <2>3, FS_EmptySet
  <1>12. \A l \in k .. n : s[k] <= s[l]
    BY <1>1, <1>6
  <1>13. \E i \in D : s[k] = values[i]
    BY <1>1, <1>6
  <1> QED  BY <1>4, <1>7, <1>9, <1>10, <1>11, <1>12, <1>13 DEF AtMost, Below, AtLeast

-----------------------------------------------------------------------------
(* The figures of a list of samples. *)

\* The samples of the list are as they come.
ListInv == list \in Seq([at : Int, value : Nat])

\* Positions and values of a list.
LEMMA ListTypes ==
    ASSUME ListInv
    PROVE  /\ Len(list) \in Nat /\ DOMAIN list = 1 .. Len(list)
           /\ \A i \in DOMAIN list : list[i].at \in Int /\ list[i].value \in Nat
           /\ [i \in DOMAIN list |-> list[i].value] \in Seq(Int)
           /\ Len([i \in DOMAIN list |-> list[i].value]) = Len(list)
           /\ InWindow(list) \in SUBSET (1 .. Len(list)) /\ InWindow(list) \in SUBSET Nat
           /\ IsFiniteSet(InWindow(list))
  <1> DEFINE n == Len(list)
             val == [i \in DOMAIN list |-> list[i].value]
  <1>1. n \in Nat /\ DOMAIN list = 1 .. n
    BY DEF ListInv
  <1>2. \A i \in 1 .. n : list[i] \in [at : Int, value : Nat]
    <2> DEFINE S == [at : Int, value : Nat]
    <2>1. list \in Seq(S)
      BY DEF ListInv
    <2> HIDE DEF S
    <2>2. \A i \in 1 .. n : list[i] \in S
      BY <1>1, <2>1
    <2> QED  BY <2>2 DEF S
  <1>3. \A i \in 1 .. n : list[i].at \in Int /\ list[i].value \in Nat
    BY <1>2
  <1>4. val \in [1 .. n -> Int] /\ val \in Seq(Int) /\ Len(val) = n
    <2>1. val \in [1 .. n -> Int]
      BY <1>1, <1>3
    <2> HIDE DEF val, n
    <2> QED  BY <1>1, <2>1
  <1>5. InWindow(list) \in SUBSET (1 .. n)
    BY <1>1 DEF InWindow
  <1>6. IsFiniteSet(InWindow(list)) /\ InWindow(list) \in SUBSET Nat
    <2>1. IsFiniteSet(1 .. n)
      BY <1>1, FirstNumbers
    <2> QED  BY <1>5, <2>1, FS_Subset
  <1> QED  BY <1>1, <1>3, <1>4, <1>5, <1>6

\* The rank of a percentile.
LEMMA RankOfPercentile ==
    ASSUME NEW n \in Nat, n # 0, NEW p \in {50, 90, 95, 99}
    PROVE  LET rank == (p * n + 99) \div 100
           IN rank \in 1 .. n /\ 100 * rank >= p * n /\ 100 * (rank - 1) < p * n
  <1>1. CASE p = 50
    BY <1>1
  <1>2. CASE p = 90
    BY <1>2
  <1>3. CASE p = 95
    BY <1>3
  <1>4. CASE p = 99
    BY <1>4
  <1> QED  BY <1>1, <1>2, <1>3, <1>4

\* Percentiles are what their name says, for any samples.
LEMMA PercentilesRight ==
    ASSUME ListInv
    PROVE  PercentilesExact
  <1> DEFINE D == InWindow(list)
             values == [i \in D |-> list[i].value]
             n == Cardinality(D)
             s == Ascending(values)
             atMost(v) == Cardinality({i \in D : values[i] <= v})
  <1>1. D \in SUBSET Nat /\ IsFiniteSet(D) /\ \A i \in D : list[i].value \in Nat
    BY ListTypes
  <1> HIDE DEF D
  <1>2. values \in [D -> Int] /\ DOMAIN values = D
    BY <1>1
  <1> HIDE DEF values
  <1>3. \A i \in D : values[i] \in Int
    BY <1>2
  <1>4. ASSUME D # {}, NEW p \in {50, 90, 95, 99}
        PROVE  /\ 100 * atMost(Percentile(s, p)) >= p * n
               /\ \A i \in D : values[i] < Percentile(s, p) => 100 * atMost(values[i]) < p * n
    <2> DEFINE k == (p * n + 99) \div 100
               Less == {j \in D : values[j] < s[k]}
    <2>1. n \in Nat /\ n # 0
      BY <1>1, <1>4, FS_CardinalityType, FS_EmptySet
    <2>2. k \in 1 .. n /\ 100 * k >= p * n /\ 100 * (k - 1) < p * n /\ p * n \in Nat
      <3> HIDE DEF n
      <3>1. k \in 1 .. n /\ 100 * k >= p * n /\ 100 * (k - 1) < p * n
        BY <2>1, RankOfPercentile
      <3> QED  BY <2>1, <3>1
    <2> HIDE DEF k
    <2>3. /\ Len(s) = n /\ \E i \in D : s[k] = values[i]
          /\ k <= atMost(s[k]) /\ Cardinality(Less) < k
      <3>1. k \in 1 .. Cardinality(D)
        BY <2>2
      <3>2. /\ Len(Ascending(values)) = Cardinality(D)
            /\ \E i \in D : Ascending(values)[k] = values[i]
            /\ k <= Cardinality(AtMost(values, D, Ascending(values)[k]))
            /\ Cardinality(Below(values, D, Ascending(values)[k])) < k
        BY <1>1, <1>2, <3>1, SortedRanks
      <3> QED  BY <3>2 DEF AtMost, Below
    <2>4. Percentile(s, p) = s[k]
      <3>1. k = (p * Len(s) + 99) \div 100
        BY <2>3 DEF k
      <3>2. ~(k < 1) /\ ~(k > Len(s))
        BY <2>1, <2>2, <2>3
      <3> HIDE DEF s
      <3> QED  BY <3>1, <3>2 DEF Percentile
    <2>5. s[k] \in Int
      BY <1>3, <2>3
    <2>6. ASSUME NEW v PROVE IsFiniteSet({i \in D : values[i] <= v}) /\ atMost(v) \in Nat
      <3>1. {i \in D : values[i] <= v} \in SUBSET D
        OBVIOUS
      <3> QED  BY <1>1, <3>1, FS_Subset, FS_CardinalityType
    <2>7. IsFiniteSet(Less) /\ Cardinality(Less) \in Nat
      <3>1. Less \in SUBSET D
        OBVIOUS
      <3> HIDE DEF Less
      <3> QED  BY <1>1, <3>1, FS_Subset, FS_CardinalityType
    <2>8. ASSUME NEW i \in D, values[i] < s[k] PROVE atMost(values[i]) <= Cardinality(Less)
      <3> DEFINE A == {j \in D : values[j] <= values[i]}
      <3>1. A \in SUBSET Less
        BY <1>3, <2>5, <2>8
      <3> HIDE DEF Less, A
      <3>2. Cardinality(A) <= Cardinality(Less)
        BY <2>7, <3>1, FS_Subset
      <3> QED  BY <3>2 DEF A
    <2>9. 100 * atMost(s[k]) >= p * n
      <3>1. atMost(s[k]) \in Nat
        BY <2>6
      <3> HIDE DEF atMost, n, s
      <3> QED  BY <2>2, <2>3, <3>1
    <2>10. ASSUME NEW i \in D, values[i] < s[k] PROVE 100 * atMost(values[i]) < p * n
      <3>1. atMost(values[i]) \in Nat /\ atMost(values[i]) <= Cardinality(Less)
        BY <2>6, <2>8, <2>10
      <3> HIDE DEF atMost, n, s, Less
      <3> QED  BY <2>2, <2>3, <2>7, <3>1
    <2> QED  BY <2>4, <2>9, <2>10
  <1> QED  BY <1>2, <1>4 DEF PercentilesExact, D, values

\* A place in the window, counted in parts of a bucket, and what it is the same as.
LEMMA PlaceInBuckets ==
    ASSUME NEW x \in Int, NEW w \in Nat \ {0}, NEW b \in Nat \ {0}
    PROVE  /\ x >= 0 => x * b >= 0
           /\ x * b < b * w <=> x < w
           /\ x * b \in Int
  <1>1. x * b \in Int /\ b * w \in Int
    OBVIOUS
  <1>2. x >= 0 => x * b >= 0
    OBVIOUS
  <1>3. ASSUME x < w PROVE x * b < b * w
    <2> DEFINE d == w - x
    <2>1. d \in Nat /\ d >= 1 /\ w = x + d
      BY <1>3
    <2> HIDE DEF d
    <2>2. b * (x + d) = x * b + b * d /\ b * d >= b
      BY <2>1
    <2> QED  BY <1>1, <2>1, <2>2
  <1>4. ASSUME x >= w PROVE x * b >= b * w
    <2> DEFINE d == x - w
    <2>1. d \in Nat /\ x = w + d
      BY <1>4
    <2> HIDE DEF d
    <2>2. (w + d) * b = b * w + d * b /\ d * b >= 0
      BY <2>1
    <2> QED  BY <1>1, <2>1, <2>2
  <1> QED  BY <1>1, <1>2, <1>3, <1>4

\* The buckets of a window cover it up to the instant, without overlap.
LEMMA WindowsRight ==
    ASSUME ListInv
    PROVE  WindowsExact
  <1> DEFINE D == InWindow(list)
             B == BucketCount
             W == WindowMs
             x(i) == list[i].at - (Figured - W)
             val == [i \in DOMAIN list |-> list[i].value]
             bucket(b) == {i \in D : b * W <= x(i) * B /\ x(i) * B < (b + 1) * W}
             before(b) == {i \in D : x(i) * B < b * W}
             w == [b \in 1 .. B |-> Windows(list)[b - 1]]
  <1>1. B \in Nat \ {0} /\ W \in Nat \ {0} /\ Figured \in Int
    BY EstimatorAssumption
  <1>2. val \in Seq(Int) /\ \A i \in D : x(i) \in Int /\ x(i) >= 0
    <2>1. \A i \in D : list[i].at \in Int /\ list[i].at >= Figured - W
      BY ListTypes DEF InWindow
    <2> QED  BY <1>1, <2>1, ListTypes
  <1>3. ASSUME NEW i \in D
        PROVE  x(i) * B \in Int /\ x(i) * B >= 0 /\ (x(i) * B < B * W <=> list[i].at < Figured)
    <2>1. list[i].at \in Int
      BY ListTypes DEF InWindow
    <2>2. x(i) < W <=> list[i].at < Figured
      BY <1>1, <2>1
    <2> QED  BY <1>1, <1>2, <2>2, PlaceInBuckets
  <1>4. \A b \in 1 .. B : w[b] = SumOf(val, bucket(b - 1))
    <2> SUFFICES ASSUME NEW b \in 1 .. B PROVE w[b] = SumOf(val, bucket(b - 1))
      OBVIOUS
    <2>1. b - 1 \in 0 .. B - 1
      BY <1>1
    <2>2. w[b] = LostIn(list, {i \in D : InBucket(list[i], b - 1)})
      BY <2>1 DEF Windows
    <2>3. {i \in D : InBucket(list[i], b - 1)} = bucket(b - 1)
      BY DEF InBucket
    <2> QED  BY <2>2, <2>3 DEF LostIn
  <1> HIDE DEF x
  <1>5. w \in Seq(Int) /\ Len(w) = B
    <2>1. \A b \in 1 .. B : w[b] \in Int
      BY <1>2, <1>4, SumType
    <2>2. w \in [1 .. B -> Int]
      BY <2>1
    <2> HIDE DEF w
    <2> QED  BY <1>1, <2>2
  <1> HIDE DEF w
  <1>6. PICK g : IsSum(g, w, 1 .. B) /\ SumOf(w, 1 .. B) = g[B]
    <2> HIDE DEF B
    <2> QED  BY <1>5, SumOfIsSum
  <1>7. g[0] = 0 /\ \A b \in 1 .. B : g[b] = g[b - 1] + w[b]
    BY <1>5, <1>6 DEF IsSum
  <1> DEFINE T == {b \in 0 .. B : g[b] = SumOf(val, before(b))}
  <1>8. 0 \in T
    <2>1. before(0) = {}
      BY <1>1, <1>3
    <2>2. SumOf(val, {}) = 0
      <3> HIDE DEF val
      <3> QED  BY <1>2, SumOfNone
    <2>3. SumOf(val, before(0)) = 0
      BY <2>1, <2>2
    <2> HIDE DEF before, val
    <2> QED  BY <1>1, <1>7, <2>3
  <1>9. ASSUME NEW b \in 1 .. B, b - 1 \in T  PROVE b \in T
    <2> DEFINE c == b - 1
    <2>1. c \in Nat /\ b = c + 1 /\ g[c] = SumOf(val, before(c))
      BY <1>1, <1>9
    <2>2. (c + 1) * W = c * W + W /\ c * W \in Int
      BY <1>1, <2>1
    <2>3. before(c + 1) = before(c) \cup bucket(c) /\ before(c) \cap bucket(c) = {}
      <3> HIDE DEF c
      <3>1. \A i \in D : (x(i) * B < (c + 1) * W) <=> (x(i) * B < c * W) \/ (c * W <= x(i) * B /\ x(i) * B < (c + 1) * W)
        BY <1>1, <1>3, <2>2
      <3>2. \A i \in D : ~((x(i) * B < c * W) /\ (c * W <= x(i) * B))
        BY <1>1, <1>3, <2>2
      <3> QED  BY <3>1, <3>2
    <2> HIDE DEF c, before, bucket, val
    <2>4. SumOf(val, before(c + 1)) = SumOf(val, before(c)) + SumOf(val, bucket(c))
      BY <1>2, <2>3, SumAdds
    <2>5. g[b] = g[c] + SumOf(val, bucket(c))
      BY <1>4, <1>7 DEF c
    <2>6. b \in 0 .. B
      BY <1>1
    <2> QED  BY <2>1, <2>4, <2>5, <2>6
  <1> HIDE DEF T
  <1>10. B \in T
    <2>1. \A b \in 0 .. B : b \in T
      BY <1>1, <1>8, <1>9, HoldsUpTo, Zenon
    <2> QED  BY <1>1, <2>1
  <1>11. before(B) = {i \in D : list[i].at < Figured}
    BY <1>3
  <1>12. SumOf(w, 1 .. B) = SumOf(val, {i \in D : list[i].at < Figured})
    BY <1>6, <1>10, <1>11 DEF T
  <1> QED  BY <1>12 DEF WindowsExact, LostIn, w

-----------------------------------------------------------------------------
(* Trends. *)

\* Averages on either side of a value, compared by cross multiplication.
LEMMA AveragesApart ==
    ASSUME NEW s \in Int, NEW u \in Int, NEW m \in Int, NEW a \in Nat, NEW b \in Nat
    PROVE  /\ s <= m * a /\ m * b <= u => s * b <= u * a
           /\ m * a <= s /\ u <= m * b => u * a <= s * b
  <1>1. ASSUME NEW x \in Int, NEW y \in Int, NEW c \in Nat, x <= y  PROVE x * c <= y * c
    <2> DEFINE d == y - x
    <2>1. d \in Nat /\ y = x + d
      BY <1>1
    <2> HIDE DEF d
    <2>2. (x + d) * c = x * c + d * c /\ d * c >= 0 /\ x * c \in Int
      BY <2>1
    <2> QED  BY <2>1, <2>2
  <1>2. m * a \in Int /\ m * b \in Int /\ (m * a) * b = (m * b) * a
    OBVIOUS
  <1>3. s * b \in Int /\ u * a \in Int /\ (m * a) * b \in Int
    OBVIOUS
  <1>4. ASSUME s <= m * a, m * b <= u PROVE s * b <= u * a
    <2>1. s * b <= (m * a) * b /\ (m * b) * a <= u * a
      BY <1>1, <1>2, <1>4
    <2> QED  BY <1>2, <1>3, <2>1
  <1>5. ASSUME m * a <= s, u <= m * b PROVE u * a <= s * b
    <2>1. u * a <= (m * b) * a /\ (m * a) * b <= s * b
      BY <1>1, <1>2, <1>5
    <2> QED  BY <1>2, <1>3, <2>1
  <1> QED  BY <1>4, <1>5

\* The values of a list have an upper bound.
LEMMA ListBounded ==
    ASSUME NEW v \in Seq(Int)
    PROVE  \E c \in Int : \A i \in 1 .. Len(v) : v[i] <= c
  <1> DEFINE n == Len(v)
             T == {k \in 0 .. n : \E c \in Int : \A i \in 1 .. k : v[i] <= c}
  <1>1. n \in Nat /\ \A i \in 1 .. n : v[i] \in Int
    OBVIOUS
  <1> HIDE DEF n
  <1>2. 0 \in T
    BY <1>1
  <1>3. ASSUME NEW k \in 1 .. n, k - 1 \in T PROVE k \in T
    <2>1. PICK c \in Int : \A i \in 1 .. k - 1 : v[i] <= c
      BY <1>3
    <2> DEFINE e == IF c <= v[k] THEN v[k] ELSE c
    <2>2. e \in Int /\ c <= e /\ v[k] <= e
      BY <1>1
    <2> HIDE DEF e
    <2>3. \A i \in 1 .. k : v[i] <= e
      <3> SUFFICES ASSUME NEW i \in 1 .. k PROVE v[i] <= e
        OBVIOUS
      <3>1. i = k \/ i \in 1 .. k - 1
        BY <1>1
      <3>2. v[i] \in Int
        BY <1>1
      <3> QED  BY <2>1, <2>2, <3>1, <3>2
    <2> QED  BY <1>1, <2>2, <2>3
  <1> HIDE DEF T
  <1>4. \A k \in 0 .. n : k \in T
    BY <1>1, <1>2, <1>3, HoldsUpTo, Zenon
  <1>5. n \in T
    BY <1>1, <1>4
  <1> QED  BY <1>5 DEF T, n

\* Of two parts of a list with a value between them, the average of the one
\* below is not more than that of the one above.
LEMMA PartsApart ==
    ASSUME NEW v \in Seq(Int), \A i \in 1 .. Len(v) : v[i] >= 0,
           NEW P \in SUBSET (1 .. Len(v)), NEW Q \in SUBSET (1 .. Len(v)), NEW m \in Int,
           \A i \in P : v[i] <= m, \A i \in Q : m <= v[i]
    PROVE  SumOf(v, P) * Cardinality(Q) <= SumOf(v, Q) * Cardinality(P)
  <1>1. PICK c \in Int : \A i \in 1 .. Len(v) : v[i] <= c
    BY ListBounded
  <1>2. Cardinality(P) \in Nat /\ SumOf(v, P) <= m * Cardinality(P)
    <2>1. 0 \in Int /\ \A i \in P : 0 <= v[i] /\ v[i] <= m
      OBVIOUS
    <2> QED  BY <2>1, SumBetween
  <1>3. Cardinality(Q) \in Nat /\ m * Cardinality(Q) <= SumOf(v, Q)
    <2>1. \A i \in Q : m <= v[i] /\ v[i] <= c
      BY <1>1
    <2> QED  BY <2>1, SumBetween
  <1>4. SumOf(v, P) \in Int /\ SumOf(v, Q) \in Int
    BY SumType
  <1> QED  BY <1>2, <1>3, <1>4, AveragesApart

\* Rates that never go down are not falling, and those that never go up not rising.
LEMMA RateTrendRight ==
    ASSUME NEW v \in Seq(Int), \A i \in 1 .. Len(v) : v[i] >= 0
    PROVE  /\ (\A i, j \in DOMAIN v : i <= j => v[i] <= v[j]) => RateTrend(v) # "falling"
           /\ (\A i, j \in DOMAIN v : i <= j => v[i] >= v[j]) => RateTrend(v) # "rising"
  <1> DEFINE n == Len(v)
             h == n \div 2
             F == 1 .. h
             S == 1 + h .. n
             s == SumOf(v, F)
             u == SumOf(v, S)
             a == Cardinality(F)
             b == Cardinality(S)
             base == IF s > a THEN s ELSE a
             margin == 15 * base * b
             delta == 100 * (u * a - s * b)
  <1>1. RateTrend(v) = IF n < 3 THEN "stable"
                       ELSE IF delta > margin THEN "rising" ELSE IF delta < -margin THEN "falling" ELSE "stable"
    BY Zenon DEF RateTrend
  <1>2. CASE n < 3
    BY <1>1, <1>2
  <1>3. CASE ~(n < 3)
    <2>1. n \in Nat /\ DOMAIN v = 1 .. n
      OBVIOUS
    <2>2. h \in 1 .. n /\ F \in SUBSET (1 .. n) /\ S \in SUBSET (1 .. n) /\ v[h] \in Int
      BY <1>3, <2>1
    <2>3. F = {i \in 1 .. n : i <= h} /\ S \in SUBSET {i \in 1 .. n : h <= i}
      BY <2>1, <2>2
    <2> HIDE DEF h, F, S
    <2>4. s \in Int /\ u \in Int
      BY SumType
    <2>5. a \in Nat /\ b \in Nat
      <3>1. IsFiniteSet(1 .. n)
        BY <2>1, FirstNumbers
      <3>2. IsFiniteSet(F) /\ IsFiniteSet(S)
        BY <2>2, <3>1, FS_Subset
      <3> QED  BY <3>2, FS_CardinalityType
    <2> HIDE DEF s, u, a, b, n
    <2>6. u * a \in Int /\ s * b \in Int
      BY <2>4, <2>5
    <2>7. margin \in Int /\ margin >= 0
      <3>1. base \in Nat
        BY <2>4, <2>5
      <3> HIDE DEF base
      <3> QED  BY <2>5, <3>1
    <2> HIDE DEF margin
    <2>8. ASSUME \A i, j \in DOMAIN v : i <= j => v[i] <= v[j]
          PROVE  RateTrend(v) # "falling"
      <3>1. (\A i \in F : v[i] <= v[h]) /\ (\A i \in S : v[h] <= v[i])
        BY <2>1, <2>2, <2>3, <2>8
      <3>2. s * b <= u * a
        BY <2>2, <3>1, PartsApart DEF n, s, u, a, b
      <3>3. ~(delta < -margin)
        BY <2>6, <2>7, <3>2
      <3> HIDE DEF delta
      <3> QED  BY <1>1, <3>3
    <2>9. ASSUME \A i, j \in DOMAIN v : i <= j => v[i] >= v[j]
          PROVE  RateTrend(v) # "rising"
      <3>1. (\A i \in F : v[h] <= v[i]) /\ (\A i \in S : v[i] <= v[h])
        BY <2>1, <2>2, <2>3, <2>9
      <3>2. u * a <= s * b
        BY <2>2, <3>1, PartsApart DEF n, s, u, a, b
      <3>3. ~(delta > margin)
        BY <2>6, <2>7, <3>2
      <3> HIDE DEF delta
      <3> QED  BY <1>1, <3>3
    <2> QED  BY <2>8, <2>9
  <1> QED  BY <1>2, <1>3

\* The trends of the list.
LEMMA TrendsRight ==
    ASSUME ListInv
    PROVE  TrendsExact
  <1> DEFINE val == [i \in DOMAIN list |-> list[i].value]
             D == InWindow(list)
             older(i) == 2 * list[i].at < 2 * Figured - WindowMs
             R == {i \in D : 2 * list[i].at >= 2 * Figured - WindowMs}
             O == {i \in D : 2 * list[i].at < 2 * Figured - WindowMs}
  <1>1. /\ val \in Seq(Int) /\ Len(val) = Len(list) /\ \A i \in DOMAIN list : list[i].at \in Int /\ list[i].value \in Nat
        /\ D \in SUBSET (1 .. Len(list)) /\ DOMAIN list = 1 .. Len(list)
    BY ListTypes
  <1>2. \A i \in 1 .. Len(val) : val[i] = list[i].value /\ val[i] \in Nat /\ val[i] >= 0
    BY <1>1
  <1>3. /\ (\A i, j \in DOMAIN val : i <= j => val[i] <= val[j]) => RateTrend(val) # "falling"
        /\ (\A i, j \in DOMAIN val : i <= j => val[i] >= val[j]) => RateTrend(val) # "rising"
    <2> HIDE DEF val
    <2> QED  BY <1>1, <1>2, RateTrendRight
  <1>4. ASSUME \A i, j \in D : list[i].value = list[j].value, NEW o \in D, NEW r \in D, older(o), ~older(r)
        PROVE  LossTrend(list) = "stable"
    <2> DEFINE c == val[o]
               a == Cardinality(R)
               b == Cardinality(O)
    <2>1. Sent \in Nat /\ Sent > 0 /\ Figured \in Int /\ WindowMs \in Int
      BY EstimatorAssumption
    <2>2. o \in O /\ r \in R /\ R \in SUBSET (1 .. Len(val)) /\ O \in SUBSET (1 .. Len(val))
      BY <1>1, <1>4, <2>1
    <2>3. c \in Int /\ \A i \in D : val[i] = c
      BY <1>1, <1>2, <1>4
    <2>4. \A i \in R \cup O : c <= val[i] /\ val[i] <= c
      BY <2>3
    <2> HIDE DEF c, val, R, O
    <2>5. /\ IsFiniteSet(R) /\ a \in Nat /\ SumOf(val, R) = c * a
          /\ IsFiniteSet(O) /\ b \in Nat /\ SumOf(val, O) = c * b
      <3>1. /\ IsFiniteSet(R) /\ Cardinality(R) \in Nat
            /\ c * Cardinality(R) <= SumOf(val, R) /\ SumOf(val, R) <= c * Cardinality(R)
        BY <1>1, <2>2, <2>3, <2>4, SumBetween
      <3>2. /\ IsFiniteSet(O) /\ Cardinality(O) \in Nat
            /\ c * Cardinality(O) <= SumOf(val, O) /\ SumOf(val, O) <= c * Cardinality(O)
        BY <1>1, <2>2, <2>3, <2>4, SumBetween
      <3>3. SumOf(val, R) \in Int /\ SumOf(val, O) \in Int
        BY <1>1, SumType
      <3>4. c * a \in Int /\ c * b \in Int
        BY <2>3, <3>1, <3>2
      <3> QED  BY <3>1, <3>2, <3>3, <3>4
    <2>6. a > 0 /\ b > 0 /\ R # {} /\ O # {}
      BY <2>2, <2>5, FS_EmptySet
    <2> DEFINE lossR == SumOf(val, R)
               lossO == SumOf(val, O)
               delta == 100 * (lossR * (Sent * b) - lossO * (Sent * a))
               margin == (Sent * b) * (Sent * a)
    <2>7. LossTrend(list) = IF delta < -margin THEN "improving" ELSE IF delta > margin THEN "degrading" ELSE "stable"
      BY <2>6 DEF LossTrend, LostIn, R, O, val
    <2> HIDE DEF a, b
    <2>8. delta = 0
      <3>1. lossR * (Sent * b) = (c * a) * (Sent * b) /\ lossO * (Sent * a) = (c * b) * (Sent * a)
        BY <2>5
      <3>2. (c * a) * (Sent * b) = (c * b) * (Sent * a) /\ (c * a) * (Sent * b) \in Int
        BY <2>1, <2>3, <2>5
      <3> HIDE DEF lossR, lossO
      <3> QED  BY <3>1, <3>2
    <2>9. margin \in Nat
      BY <2>1, <2>5
    <2> HIDE DEF delta, margin
    <2> QED  BY <2>7, <2>8, <2>9
  <1> QED  BY <1>3, <1>4 DEF TrendsExact

-----------------------------------------------------------------------------
(* The scores of a room. *)

\* The score of a peer is a percentage, whatever has been measured of it.
LEMMA ScoreRange ==
    ASSUME NEW f \in Figure
    PROVE  Score(f) \in 0 .. 100
  <1> DEFINE lf == LatencyScore(f)
             jf == JitterScore(f)
             pf == PacketLossScore(f)
             bf == BandwidthScore(f)
  <1>1. lf \in 0 .. 100
    <2> DEFINE T == <<50, 100, 200, 400>>
               S == <<100, 85, 65, 40, 15>>
    <2>1. DOMAIN T = 1 .. 4 /\ \A i \in 1 .. 5 : S[i] \in 0 .. 100
      OBVIOUS
    <2>2. lf = 0 \/ lf = ScoreFromThresholds(f.latency, 1, T, S)
      BY DEF LatencyScore
    <2> HIDE DEF T, S, lf
    <2>3. ScoreFromThresholds(f.latency, 1, T, S) \in 0 .. 100
      BY <2>1, ScaleRange
    <2> QED  BY <2>2, <2>3
  <1>2. jf \in 0 .. 100
    <2> DEFINE T == <<10, 30, 60, 120>>
               S == <<100, 80, 60, 35, 10>>
    <2>1. DOMAIN T = 1 .. 4 /\ \A i \in 1 .. 5 : S[i] \in 0 .. 100
      OBVIOUS
    <2>2. jf = 0 \/ jf = ScoreFromThresholds(f.jitter, 1, T, S)
      BY DEF JitterScore
    <2> HIDE DEF T, S, jf
    <2>3. ScoreFromThresholds(f.jitter, 1, T, S) \in 0 .. 100
      BY <2>1, ScaleRange
    <2> QED  BY <2>2, <2>3
  <1>3. pf \in 0 .. 100
    <2> DEFINE T == <<5, 20, 50, 100>>
               S == <<100, 85, 60, 30, 5>>
               x == IF f.sent = 0 THEN 0 ELSE 1000 * f.lost
    <2>1. DOMAIN T = 1 .. 4 /\ \A i \in 1 .. 5 : S[i] \in 0 .. 100
      OBVIOUS
    <2>2. pf = 50 \/ pf = ScoreFromThresholds(x, f.sent, T, S)
      BY Zenon DEF PacketLossScore
    <2> HIDE DEF T, S, x, pf
    <2>3. ScoreFromThresholds(x, f.sent, T, S) \in 0 .. 100
      BY <2>1, ScaleRange
    <2> QED  BY <2>2, <2>3
  <1>4. bf \in 0 .. 100
    <2> DEFINE up == DirectionScore(f.up, 64, 512)
               down == DirectionScore(f.down, 128, 1024)
    <2>1. /\ f.up = NoSample \/ f.up \in Nat
          /\ f.down = NoSample \/ f.down \in Nat
      BY DEF Figure, NoSample
    <2>2. f.up \in Nat => up \in 0 .. 100
      BY DirectionRises
    <2>3. f.down \in Nat => down \in 0 .. 100
      BY DirectionRises
    <2>4. CASE f.up = NoSample /\ f.down = NoSample
      BY <2>4 DEF BandwidthScore
    <2>5. CASE f.up = NoSample /\ f.down # NoSample
      <3>1. bf = down
        BY <2>5 DEF BandwidthScore
      <3> HIDE DEF bf, down
      <3> QED  BY <2>1, <2>3, <2>5, <3>1
    <2>6. CASE f.up # NoSample /\ f.down = NoSample
      <3>1. bf = up
        BY <2>6 DEF BandwidthScore
      <3> HIDE DEF bf, up
      <3> QED  BY <2>1, <2>2, <2>6, <3>1
    <2>7. CASE f.up # NoSample /\ f.down # NoSample
      <3>1. bf = RoundDiv(4 * up + 6 * down, 10)
        BY <2>7 DEF BandwidthScore
      <3>2. up \in 0 .. 100 /\ down \in 0 .. 100
        BY <2>1, <2>2, <2>3, <2>7
      <3> HIDE DEF up, down
      <3> QED  BY <3>1, <3>2 DEF RoundDiv
    <2> QED  BY <2>4, <2>5, <2>6, <2>7
  <1>5. Score(f) = RoundDiv(30 * lf + 25 * jf + 30 * pf + 15 * bf, 100)
    BY DEF Score
  <1> HIDE DEF lf, jf, pf, bf
  <1> QED  BY <1>1, <1>2, <1>3, <1>4, <1>5 DEF RoundDiv

\* A rounded quotient is between the integers that the quotient is between.
LEMMA RoundDivBetween ==
    ASSUME NEW s \in Int, NEW n \in Nat, n # 0, NEW c \in Int, NEW d \in Int,
           c * n <= s, s <= d * n
    PROVE  RoundDiv(s, n) \in Int /\ c <= RoundDiv(s, n) /\ RoundDiv(s, n) <= d
  <1> DEFINE a == 2 * s + n
             b == 2 * n
             q == a \div b
  <1>1. a \in Int /\ b \in Int /\ b > 0
    OBVIOUS
  <1>2. RoundDiv(s, n) = q
    BY DEF RoundDiv
  <1>3. q \in Int /\ b * q <= a /\ a < b * (q + 1)
    <2> HIDE DEF a, b
    <2>1. q \in Int
      BY <1>1
    <2>2. b * q <= a
      BY <1>1
    <2>3. a < b * (q + 1)
      BY <1>1
    <2> QED  BY <2>1, <2>2, <2>3
  <1> HIDE DEF q
  <1>4. c <= q
    <2> SUFFICES ASSUME q + 1 <= c PROVE FALSE
      BY <1>3
    <2>1. n * (q + 1) <= n * c
      BY <1>3
    <2> DEFINE x == n * (q + 1)
               y == n * c
    <2>2. x \in Int /\ y \in Int /\ y <= s /\ b * (q + 1) = 2 * x
      BY <1>3
    <2> HIDE DEF x, y
    <2> QED  BY <1>3, <2>1, <2>2
  <1>5. q <= d
    <2> SUFFICES ASSUME d + 1 <= q PROVE FALSE
      BY <1>3
    <2>1. n * (d + 1) <= n * q
      BY <1>3
    <2> DEFINE x == n * d
               y == n * q
    <2>2. x \in Int /\ y \in Int /\ s <= x /\ b * q = 2 * y /\ n * (d + 1) = x + n
      BY <1>3
    <2> HIDE DEF x, y
    <2> QED  BY <1>3, <2>1, <2>2
  <1> QED  BY <1>2, <1>3, <1>4, <1>5

\* A list of n scores.
LEMMA ScoreList ==
    ASSUME NEW n \in Nat, NEW v \in [1 .. n -> Int]
    PROVE  /\ v \in Seq(Int) /\ Len(v) = n /\ DOMAIN v = 1 .. n
           /\ \A i \in 1 .. n : v[i] \in Int
           /\ v = <<>> <=> n = 0
           /\ 1 .. n \in SUBSET Nat /\ IsFiniteSet(1 .. n) /\ Cardinality(1 .. n) = n
  <1>1. v \in Seq(Int) /\ Len(v) = n /\ DOMAIN v = 1 .. n
    OBVIOUS
  <1>2. v = <<>> <=> n = 0
    BY <1>1
  <1> QED  BY <1>1, <1>2, FirstNumbers

\* At least half of the scores do not exceed the median, and half are not below it.
LEMMA MedianRight ==
    ASSUME NEW n \in Nat, NEW v \in [1 .. n -> Int]
    PROVE  /\ 2 * Cardinality(AtMost(v, 1 .. n, MedianScore(v))) >= n
           /\ 2 * Cardinality(AtLeast(v, 1 .. n, MedianScore(v))) >= n
  <1> DEFINE D == 1 .. n
             m == MedianScore(v)
             s == Ascending(v)
             mid == n \div 2
  <1>1. /\ D \in SUBSET Nat /\ IsFiniteSet(D) /\ Cardinality(D) = n /\ v \in [D -> Int]
        /\ Len(v) = n /\ (v = <<>> <=> n = 0)
        /\ \A i \in D : v[i] \in Int
    BY ScoreList
  <1>2. ASSUME NEW x
        PROVE  /\ IsFiniteSet(AtMost(v, D, x)) /\ Cardinality(AtMost(v, D, x)) \in Nat
               /\ IsFiniteSet(AtLeast(v, D, x)) /\ Cardinality(AtLeast(v, D, x)) \in Nat
    <2>1. AtMost(v, D, x) \in SUBSET D /\ AtLeast(v, D, x) \in SUBSET D
      BY DEF AtMost, AtLeast
    <2>2. IsFiniteSet(AtMost(v, D, x)) /\ IsFiniteSet(AtLeast(v, D, x))
      BY <1>1, <2>1, FS_Subset
    <2> QED  BY <2>2, FS_CardinalityType
  <1> HIDE DEF D
  <1>3. ASSUME NEW k \in 1 .. n
        PROVE  /\ s[k] \in Int /\ k <= Cardinality(AtMost(v, D, s[k]))
               /\ n - k < Cardinality(AtLeast(v, D, s[k]))
               /\ \A l \in k .. n : s[k] <= s[l]
    <2>1. k \in 1 .. Cardinality(D)
      BY <1>1
    <2>2. /\ \E i \in D : s[k] = v[i]
          /\ \A l \in k .. Cardinality(D) : s[k] <= s[l]
          /\ k <= Cardinality(AtMost(v, D, s[k]))
          /\ Cardinality(D) - k < Cardinality(AtLeast(v, D, s[k]))
      <3> HIDE DEF s
      <3> QED  BY <1>1, <2>1, SortedRanks DEF s
    <2> HIDE DEF s
    <2> QED  BY <1>1, <2>2
  <1> HIDE DEF s
  <1>4. CASE n = 0
    BY <1>2, <1>4 DEF D
  <1>5. CASE n # 0 /\ n % 2 = 0
    <2> DEFINE a == s[mid]
               b == s[mid + 1]
    <2>1. mid \in 1 .. n /\ mid + 1 \in mid .. n /\ mid + 1 \in 1 .. n /\ n = 2 * mid
      BY <1>5
    <2>2. m = RoundDiv(a + b, 2)
      BY <1>1, <1>5 DEF MedianScore, s
    <2>3. /\ a \in Int /\ b \in Int /\ a <= b /\ mid <= Cardinality(AtMost(v, D, a))
          /\ n - (mid + 1) < Cardinality(AtLeast(v, D, b))
      BY <1>3, <2>1
    <2> HIDE DEF a, b, m
    <2>4. m \in Int /\ a <= m /\ m <= b
      BY <2>2, <2>3 DEF RoundDiv
    <2>5. AtMost(v, D, a) \in SUBSET AtMost(v, D, m) /\ AtLeast(v, D, b) \in SUBSET AtLeast(v, D, m)
      BY <1>1, <2>3, <2>4 DEF AtMost, AtLeast
    <2>6. /\ Cardinality(AtMost(v, D, a)) <= Cardinality(AtMost(v, D, m))
          /\ Cardinality(AtLeast(v, D, b)) <= Cardinality(AtLeast(v, D, m))
      BY <1>2, <2>5, FS_Subset
    <2>7. /\ Cardinality(AtMost(v, D, m)) \in Nat /\ Cardinality(AtMost(v, D, a)) \in Nat
          /\ Cardinality(AtLeast(v, D, m)) \in Nat /\ Cardinality(AtLeast(v, D, b)) \in Nat
      BY <1>2
    <2> HIDE DEF mid
    <2>8. mid \in Nat
      BY <2>1
    <2> QED  BY <2>1, <2>3, <2>6, <2>7, <2>8 DEF D, m
  <1>6. CASE n # 0 /\ n % 2 # 0
    <2>1. mid + 1 \in 1 .. n /\ n = 2 * mid + 1 /\ mid \in Nat
      BY <1>6
    <2>2. m = s[mid + 1]
      BY <1>1, <1>6 DEF MedianScore, s
    <2>3. mid + 1 <= Cardinality(AtMost(v, D, m)) /\ n - (mid + 1) < Cardinality(AtLeast(v, D, m))
      BY <1>3, <2>1, <2>2
    <2>4. Cardinality(AtMost(v, D, m)) \in Nat /\ Cardinality(AtLeast(v, D, m)) \in Nat
      BY <1>2
    <2> HIDE DEF mid, m
    <2> QED  BY <2>1, <2>3, <2>4 DEF D, m
  <1> QED  BY <1>4, <1>5, <1>6

\* The average is between the worst and the best of the scores.
LEMMA AverageRight ==
    ASSUME NEW n \in Nat, NEW v \in [1 .. n -> Int], \A i \in 1 .. n : v[i] \in 0 .. 100
    PROVE  /\ WorstScore(v) <= AverageScore(v)
           /\ v # <<>> => \E i \in 1 .. n : AverageScore(v) <= v[i]
  <1>1. /\ v \in Seq(Int) /\ Len(v) = n /\ DOMAIN v = 1 .. n /\ (v = <<>> <=> n = 0)
        /\ \A i \in 1 .. n : v[i] \in Int
        /\ 1 .. n \in SUBSET Nat /\ IsFiniteSet(1 .. n) /\ Cardinality(1 .. n) = n
    BY ScoreList
  <1>2. ASSUME NEW i \in 1 .. n PROVE 0 <= v[i] /\ v[i] <= 100
    <2> DEFINE x == v[i]
    <2>1. x \in 0 .. 100
      OBVIOUS
    <2> HIDE DEF x
    <2>2. 0 <= x /\ x <= 100
      BY <2>1
    <2> QED  BY <2>2 DEF x
  <1>3. CASE n = 0
    BY <1>1, <1>3 DEF WorstScore, AverageScore
  <1>4. CASE n # 0
    <2> DEFINE D == 1 .. n
               w == WorstScore(v)
               a == AverageScore(v)
               t == SumOf(v, D)
    <2>1. w \in Int /\ \A i \in D : w <= v[i]
      <3> DEFINE x == Ascending(v)[1]
      <3>1. 1 \in 1 .. Cardinality(D) /\ D \in SUBSET Nat /\ IsFiniteSet(D) /\ v \in [D -> Int]
        BY <1>1, <1>4
      <3>2. (\E i \in D : x = v[i]) /\ Cardinality(Below(v, D, x)) < 1
        <4> HIDE DEF D
        <4> QED  BY <3>1, SortedRanks
      <3> HIDE DEF x
      <3>3. Below(v, D, x) \in SUBSET D /\ IsFiniteSet(Below(v, D, x))
        <4>1. Below(v, D, x) \in SUBSET D
          BY DEF Below
        <4> QED  BY <3>1, <4>1, FS_Subset
      <3>4. Below(v, D, x) = {}
        <4>1. Cardinality(Below(v, D, x)) = 0
          BY <3>2, <3>3, FS_CardinalityType
        <4> QED  BY <3>3, <4>1, FS_EmptySet
      <3>5. x \in Range(v) /\ \A i \in DOMAIN v : x <= v[i]
        <4>1. x \in Int /\ \A i \in D : ~(v[i] < x)
          BY <1>1, <3>2, <3>4 DEF Below
        <4> QED  BY <1>1, <3>2, <4>1 DEF Range
      <3>6. w \in Range(v) /\ \A i \in DOMAIN v : w <= v[i]
        BY <1>1, <1>4, <3>5 DEF WorstScore
      <3>7. \E i \in D : w = v[i]
        BY <1>1, <3>6 DEF Range
      <3> QED  BY <1>1, <3>6, <3>7
    <2>2. a = RoundDiv(t, n) /\ t \in Int
      BY <1>1, <1>4, SumType DEF AverageScore
    <2>3. D \in SUBSET (1 .. Len(v)) /\ Cardinality(D) = n /\ 100 \in Int
      BY <1>1
    <2> HIDE DEF D, w, a, t
    <2>4. w <= a /\ a \in Int
      <3>1. \A i \in D : w <= v[i] /\ v[i] <= 100
        BY <1>2, <2>1 DEF D
      <3>2. w * Cardinality(D) <= t /\ t <= 100 * Cardinality(D)
        BY <1>1, <2>1, <2>3, <3>1, SumBetween DEF t
      <3>3. w * n <= t /\ t <= 100 * n
        BY <2>3, <3>2
      <3> QED  BY <1>4, <2>1, <2>2, <2>3, <3>3, RoundDivBetween
    <2>5. \E i \in D : a <= v[i]
      <3> SUFFICES ASSUME \A i \in D : ~(a <= v[i]) PROVE FALSE
        OBVIOUS
      <3> DEFINE d == a - 1
      <3>1. d \in Int /\ d < a
        BY <2>4
      <3>2. \A i \in D : 0 <= v[i] /\ v[i] <= d
        BY <1>1, <1>2, <2>4 DEF D, d
      <3> HIDE DEF d
      <3>3. 0 * Cardinality(D) <= t /\ t <= d * Cardinality(D)
        <4> DEFINE z == 0
        <4>1. z \in Int /\ \A i \in D : z <= v[i] /\ v[i] <= d
          BY <3>2
        <4> HIDE DEF z
        <4>2. z * Cardinality(D) <= t /\ t <= d * Cardinality(D)
          BY <1>1, <2>3, <3>1, <4>1, SumBetween DEF t
        <4> QED  BY <4>2 DEF z
      <3>4. 0 * n <= t /\ t <= d * n /\ 0 \in Int
        BY <2>3, <3>3
      <3>5. a <= d
        BY <1>4, <2>2, <3>1, <3>4, RoundDivBetween
      <3> QED  BY <2>4, <3>1, <3>5
    <2> QED  BY <2>4, <2>5 DEF D, w, a
  <1> QED  BY <1>3, <1>4

\* The scores of a room lie where their names say, in every order of its peers.
LEMMA RoomScoresRight ==
    ASSUME FiguresInv
    PROVE  RoomScoresExact
  <1> DEFINE n == Cardinality(Members)
  <1>1. n \in Nat
    BY EstimatorAssumption, FS_CardinalityType
  <1>2. ASSUME NEW order \in Bijection(1 .. n, Members)
        PROVE  LET v == [i \in 1 .. n |-> Score(figures[order[i]])]
               IN v \in [1 .. n -> Int] /\ \A i \in 1 .. n : v[i] \in 0 .. 100
    <2>1. \A i \in 1 .. n : order[i] \in Members
      BY DEF Bijection, Injection
    <2>2. \A i \in 1 .. n : figures[order[i]] \in Figure
      BY <2>1 DEF FiguresInv
    <2>3. \A i \in 1 .. n : Score(figures[order[i]]) \in 0 .. 100
      BY <2>2, ScoreRange
    <2> QED  BY <2>3
  <1> HIDE DEF n
  <1>3. ASSUME NEW v, v \in [1 .. n -> Int], \A i \in 1 .. n : v[i] \in 0 .. 100
        PROVE  LET median == MedianScore(v)
                   half(P) == 2 * Cardinality(P) >= n
               IN /\ \A i \in DOMAIN v : v[i] \in 0 .. 100
                  /\ half({i \in DOMAIN v : v[i] <= median})
                  /\ half({i \in DOMAIN v : v[i] >= median})
                  /\ WorstScore(v) <= AverageScore(v)
                  /\ v # <<>> => \E i \in DOMAIN v : AverageScore(v) <= v[i]
    <2>1. DOMAIN v = 1 .. n
      BY <1>3
    <2>2. /\ 2 * Cardinality(AtMost(v, 1 .. n, MedianScore(v))) >= n
          /\ 2 * Cardinality(AtLeast(v, 1 .. n, MedianScore(v))) >= n
      BY <1>1, <1>3, MedianRight
    <2>3. /\ WorstScore(v) <= AverageScore(v)
          /\ v # <<>> => \E i \in 1 .. n : AverageScore(v) <= v[i]
      BY <1>1, <1>3, AverageRight
    <2> QED  BY <1>3, <2>1, <2>2, <2>3, Zenon DEF AtMost, AtLeast
  <1> QED  BY <1>2, <1>3, Zenon DEF RoomScoresExact, n

\* The list holds samples, at any times.
LEMMA ListStaysTyped == EstimatorSpec => []ListInv
  <1>1. EstimatorInit => ListInv
    BY DEF EstimatorInit, ListInv
  <1>2. ASSUME ListInv, [EstimatorNext]_estimatorVars  PROVE ListInv'
    <2> DEFINE S == [at : Int, value : Nat]
    <2>1. ASSUME NEW at \in SampleTimes, NEW value \in SampleValues,
                 AddSample([at |-> at, value |-> value])
          PROVE  ListInv'
      <3>1. at \in Int /\ value \in Nat
        BY EstimatorAssumption
      <3> DEFINE s == [at |-> at, value |-> value]
      <3>2. s \in S
        BY <3>1
      <3> HIDE DEF s, S
      <3>3. list \in Seq(S) /\ list' = Append(list, s)
        BY <1>2, <2>1 DEF ListInv, AddSample, S, s
      <3>4. list' \in Seq(S)
        BY <3>2, <3>3
      <3> QED  BY <3>4 DEF ListInv, S
    <2>2. CASE UNCHANGED list
      BY <1>2, <2>2 DEF ListInv
    <2> QED  BY <1>2, <2>1, <2>2 DEF EstimatorNext, Measure, estimatorVars
  <1> QED  BY <1>1, <1>2, PTL DEF EstimatorSpec

\* The percentiles, loss windows and trends of every list of samples, and the
\* scores of every mix of peers, are what their names say (JitterCalculator,
\* PacketLossTracker, BandwidthEstimator, computeRoomMetrics).
THEOREM FiguresAreExact == EstimatorSpec => []FiguresExact
  <1>1. ListInv /\ FiguresInv => FiguresExact
    BY PercentilesRight, WindowsRight, TrendsRight, RoomScoresRight DEF FiguresExact
  <1> QED  BY <1>1, ListStaysTyped, FiguresStayTyped, PTL
=============================================================================
