--------------------------- MODULE AdmissionProofs ---------------------------
(***************************************************************************)
(* The limiter for all keys, windows, maxima and bounds, and the admission *)
(* layer for any number of addresses and requests.                         *)
(*                                                                         *)
(* The invariant that carries the limiter is StampsCurrent: among the      *)
(* requests ever admitted for a key, those that still count are among the  *)
(* stamps the bucket keeps.  Forgetting a stamp is then no loss, now or    *)
(* later, because the clock does not run backwards.  The layer above uses  *)
(* its limiters as they expect, and whatever they admitted was paid for.   *)
(*                                                                         *)
(* At the end, the tokens that get a request that far: how long one can be *)
(* used for any clock skew and lifetime, and that the three places that    *)
(* judge it agree.                                                         *)
(***************************************************************************)
EXTENDS Admission, Auth, FiniteSetTheorems, WellFoundedInduction, TLAPS

\* The bucket keeps every stamp that counts, and no stamp is made up.
StampsCurrent ==
    \A k \in Keys : /\ stamps[k] \subseteq admitted[k]
                    /\ \A a \in admitted[k] : a.at + WindowMs[k] > now => a \in stamps[k]

\* Stamps are in the past, and pushed in the order of the clock.
StampsOrdered ==
    \A k \in Keys : \A a \in admitted[k] :
        /\ a.at <= now
        /\ a.n < serial
        /\ \A b \in admitted[k] : a.n <= b.n => a.at <= b.at

AdmittedFinite == \A k \in Keys : IsFiniteSet(admitted[k])

LimiterInv ==
    /\ LimiterTypeOK
    /\ StampsCurrent
    /\ StampsOrdered
    /\ AdmittedFinite
    /\ WindowBound

-----------------------------------------------------------------------------
\* A bucket's active stamps are the requests that count in the contract.
LEMMA ActiveIsRecent ==
    ASSUME LimiterInv, NEW k \in Keys
    PROVE  /\ Active(k, now) = Contract!Recent(k, now)
           /\ Active(k, now) = AdmittedWithin(k, now)
           /\ IsFiniteSet(Active(k, now))
           /\ Active(k, now) \in SUBSET Stamp
  <1>1. /\ admitted[k] \in SUBSET Stamp
        /\ WindowMs[k] \in Nat
        /\ now \in Nat
    BY LimiterAssumption DEF LimiterInv, LimiterTypeOK
  <1>2. \A a \in Stamp : a.at \in Nat
    BY DEF Stamp
  <1>3. /\ stamps[k] \subseteq admitted[k]
        /\ \A a \in admitted[k] : a.at + WindowMs[k] > now => a \in stamps[k]
        /\ \A a \in admitted[k] : a.at <= now
    BY DEF LimiterInv, StampsCurrent, StampsOrdered
  <1>4. Active(k, now) = Contract!Recent(k, now)
    BY <1>3 DEF Active, Contract!Recent
  <1>5. Active(k, now) = AdmittedWithin(k, now)
    <2>1. \A a \in admitted[k] : a.at + WindowMs[k] > now <=> (a.at <= now /\ now < a.at + WindowMs[k])
      BY <1>1, <1>2, <1>3
    <2> QED  BY <2>1, <1>3 DEF Active, AdmittedWithin
  <1>6. Active(k, now) \in SUBSET admitted[k]
    BY <1>3 DEF Active
  <1>7. IsFiniteSet(Active(k, now))
    BY <1>6, FS_Subset DEF LimiterInv, AdmittedFinite
  <1> QED  BY <1>1, <1>4, <1>5, <1>6, <1>7

-----------------------------------------------------------------------------
(* Each action preserves the invariant. *)

\* One more request fits into every window that it falls into.
LEMMA CheckKeepsWindowBound ==
    ASSUME LimiterInv, NEW k \in Keys, Check(k)
    PROVE  WindowBound'
  <1> DEFINE stamp == [at |-> now, n |-> serial]
  <1>1. /\ admitted \in [Keys -> SUBSET Stamp]
        /\ now \in Nat
        /\ serial \in Nat
        /\ \A j \in Keys : WindowMs[j] \in Nat /\ MaxRequests[j] \in Nat
    BY LimiterAssumption DEF LimiterInv, LimiterTypeOK
  <1>2. SUFFICES ASSUME NEW j \in Keys, NEW t \in 0 .. MaxNow
                 PROVE  Cardinality(AdmittedWithin(j, t)') <= MaxRequests[j]
    BY DEF WindowBound
  <1>3. Cardinality(AdmittedWithin(j, t)) <= MaxRequests[j]
    BY DEF LimiterInv, WindowBound
  <1>4. CASE j # k \/ ~(Cardinality(Active(k, now)) < MaxRequests[k])
    <2>1. admitted'[j] = admitted[j]
      BY <1>1, <1>4 DEF Check
    <2> QED  BY <2>1, <1>3 DEF AdmittedWithin
  <1>5. CASE j = k /\ Cardinality(Active(k, now)) < MaxRequests[k]
    <2>1. admitted'[k] = admitted[k] \cup {stamp}
      BY <1>1, <1>5 DEF Check
    <2>2. CASE t < now
      <3>1. AdmittedWithin(k, t)' = AdmittedWithin(k, t)
        BY <2>1, <2>2, <1>1 DEF AdmittedWithin
      <3> QED  BY <3>1, <1>3, <1>5
    <2>3. CASE ~(t < now)
      <3>1. AdmittedWithin(k, t)' \subseteq Active(k, now) \cup {stamp}
        <4>1. ASSUME NEW a \in admitted[k], t < a.at + WindowMs[k]
              PROVE  a \in AdmittedWithin(k, now)
          <5>1. a.at \in Nat /\ a.at <= now
            BY <1>1 DEF Stamp, LimiterInv, StampsOrdered
          <5> QED  BY <4>1, <5>1, <2>3, <1>1 DEF AdmittedWithin
        <4> QED  BY <4>1, <2>1, ActiveIsRecent DEF AdmittedWithin
      <3>2. /\ IsFiniteSet(Active(k, now) \cup {stamp})
            /\ Cardinality(Active(k, now) \cup {stamp}) <= Cardinality(Active(k, now)) + 1
            /\ Cardinality(Active(k, now)) \in Nat
        <4>1. IsFiniteSet(Active(k, now))
          BY ActiveIsRecent
        <4> HIDE DEF stamp
        <4>2. /\ IsFiniteSet(Active(k, now) \cup {stamp})
              /\ Cardinality(Active(k, now) \cup {stamp}) =
                   IF stamp \in Active(k, now) THEN Cardinality(Active(k, now)) ELSE Cardinality(Active(k, now)) + 1
          BY <4>1, FS_AddElement
        <4>3. Cardinality(Active(k, now)) \in Nat
          BY <4>1, FS_CardinalityType
        <4> QED  BY <4>2, <4>3
      <3>3. /\ Cardinality(AdmittedWithin(k, t)') <= Cardinality(Active(k, now) \cup {stamp})
            /\ IsFiniteSet(AdmittedWithin(k, t)')
        BY <3>1, <3>2, FS_Subset
      <3>4. /\ Cardinality(AdmittedWithin(k, t)') \in Nat
            /\ Cardinality(Active(k, now) \cup {stamp}) \in Nat
        BY <3>2, <3>3, FS_CardinalityType
      <3> HIDE DEF stamp
      <3> QED  BY <3>2, <3>3, <3>4, <1>1, <1>5
    <2> QED  BY <2>2, <2>3
  <1> QED  BY <1>4, <1>5

\* A check keeps the rest of the invariant.
LEMMA CheckKeepsStamps ==
    ASSUME LimiterInv, NEW k \in Keys, Check(k)
    PROVE  LimiterTypeOK' /\ StampsCurrent' /\ StampsOrdered' /\ AdmittedFinite'
  <1> DEFINE stamp == [at |-> now, n |-> serial]
             allowed == Cardinality(Active(k, now)) < MaxRequests[k]
  <1>1. /\ LimiterTypeOK /\ StampsCurrent /\ StampsOrdered /\ AdmittedFinite
        /\ now' = now /\ now \in Nat /\ serial \in Nat
        /\ WindowMs[k] \in Nat \ {0} /\ MaxRequests[k] \in Nat \ {0}
    <2>1. now \in 0 .. MaxNow /\ MaxNow \in Nat /\ serial \in Nat
      BY LimiterAssumption DEF LimiterInv, LimiterTypeOK
    <2>2. now' = now
      BY DEF Check
    <2>3. WindowMs[k] \in Nat \ {0} /\ MaxRequests[k] \in Nat \ {0}
      BY LimiterAssumption
    <2> QED  BY <2>1, <2>2, <2>3 DEF LimiterInv
  <1>2. stamp \in Stamp
    BY <1>1 DEF Stamp
  <1>3. /\ stamps' = [stamps EXCEPT ![k] = IF allowed THEN Active(k, now) \cup {stamp} ELSE Active(k, now)]
        /\ admitted' = IF allowed THEN [admitted EXCEPT ![k] = @ \cup {stamp}] ELSE admitted
        /\ serial' = IF allowed THEN serial + 1 ELSE serial
        /\ buckets' = buckets \cup {k}
        /\ verdict' = [key |-> k, allowed |-> allowed]
    BY DEF Check
  <1>4. stamps'[k] # {}
    <2>1. CASE allowed
      BY <2>1, <1>1, <1>3 DEF LimiterTypeOK
    <2>2. CASE ~allowed
      <3>1. Active(k, now) # {}
        BY <2>2, <1>1, FS_EmptySet
      <3> QED  BY <3>1, <2>2, <1>1, <1>3 DEF LimiterTypeOK
    <2> QED  BY <2>1, <2>2
  <1>5. /\ stamps' \in [Keys -> SUBSET Stamp]
        /\ admitted' \in [Keys -> SUBSET Stamp]
    BY <1>1, <1>2, <1>3, ActiveIsRecent DEF LimiterTypeOK
  <1>6. buckets' = {j \in Keys : stamps'[j] # {}}
    BY <1>1, <1>3, <1>4 DEF LimiterTypeOK
  <1>7. LimiterTypeOK'
    <2>1. serial' \in Nat
      BY <1>1, <1>3
    <2>2. verdict' \in [key : Keys, allowed : BOOLEAN]
      BY <1>3
    <2> QED  BY <2>1, <2>2, <1>1, <1>5, <1>6 DEF LimiterTypeOK
  <1>8. StampsCurrent'
    <2> SUFFICES ASSUME NEW j \in Keys
                 PROVE  /\ stamps'[j] \subseteq admitted'[j]
                        /\ \A a \in admitted'[j] : a.at + WindowMs[j] > now => a \in stamps'[j]
      BY <1>1 DEF StampsCurrent
    <2>1. CASE j # k
      BY <2>1, <1>1, <1>3 DEF LimiterTypeOK, StampsCurrent
    <2>2. CASE j = k
      BY <2>2, <1>1, <1>3 DEF LimiterTypeOK, StampsCurrent, Active
    <2> QED  BY <2>1, <2>2
  <1>9. StampsOrdered'
    <2>1. \A j \in Keys : \A a \in admitted[j] : a.at \in Nat /\ a.n \in Nat /\ a.at <= now /\ a.n < serial
      BY <1>1 DEF LimiterTypeOK, Stamp, StampsOrdered
    <2> SUFFICES ASSUME NEW j \in Keys, NEW a \in admitted'[j]
                 PROVE  /\ a.at <= now
                        /\ a.n < serial'
                        /\ \A b \in admitted'[j] : a.n <= b.n => a.at <= b.at
      BY <1>1 DEF StampsOrdered
    <2>2. CASE ~(j = k /\ allowed)
      <3>1. admitted'[j] = admitted[j] /\ serial' >= serial
        BY <2>2, <1>1, <1>3 DEF LimiterTypeOK
      <3>2. serial' \in Nat
        BY <1>7 DEF LimiterTypeOK
      <3> QED  BY <3>1, <3>2, <2>1, <1>1 DEF StampsOrdered
    <2>3. CASE j = k /\ allowed
      <3>1. admitted'[k] = admitted[k] \cup {stamp} /\ serial' = serial + 1
        BY <2>3, <1>1, <1>3 DEF LimiterTypeOK
      <3>2. CASE a = stamp
        <4>1. a.at = now /\ a.n = serial
          BY <3>2
        <4>2. \A b \in admitted'[k] : a.n <= b.n => b = stamp
          BY <4>1, <3>1, <2>1, <1>1
        <4> QED  BY <4>1, <4>2, <3>1, <2>3, <1>1
      <3>3. CASE a # stamp
        <4>1. a \in admitted[k]
          BY <3>1, <3>3, <2>3
        <4>2. a.at <= now /\ a.n < serial + 1
          BY <4>1, <2>1, <1>1
        <4>3. \A b \in admitted[k] : a.n <= b.n => a.at <= b.at
          BY <4>1, <1>1 DEF StampsOrdered
        <4> QED  BY <4>2, <4>3, <3>1, <2>3
      <3> QED  BY <3>2, <3>3
    <2> QED  BY <2>2, <2>3
  <1>10. AdmittedFinite'
    <2> SUFFICES ASSUME NEW j \in Keys PROVE IsFiniteSet(admitted'[j])
      BY DEF AdmittedFinite
    <2>1. admitted'[j] = admitted[j] \/ admitted'[j] = admitted[j] \cup {stamp}
      BY <1>1, <1>3 DEF LimiterTypeOK
    <2>2. IsFiniteSet(admitted[j]) /\ IsFiniteSet(admitted[j] \cup {stamp})
      BY <1>1, FS_AddElement DEF AdmittedFinite
    <2> QED  BY <2>1, <2>2
  <1> QED  BY <1>7, <1>8, <1>9, <1>10

\* A reset forgets stamps together with what they stand for.
LEMMA ResetKeepsInv ==
    ASSUME LimiterInv, NEW ks \in SUBSET Keys, Reset(ks)
    PROVE  LimiterInv'
  <1>1. /\ LimiterTypeOK /\ StampsCurrent /\ StampsOrdered /\ AdmittedFinite /\ WindowBound
        /\ now' = now /\ serial' = serial /\ verdict' = None /\ buckets' = buckets \ ks
        /\ \A j \in Keys : WindowMs[j] \in Nat /\ MaxRequests[j] \in Nat
    BY LimiterAssumption DEF LimiterInv, Reset
  <1>2. \A j \in ks : stamps'[j] = {} /\ admitted'[j] = {}
    BY DEF Reset
  <1>3. \A j \in Keys \ ks : stamps'[j] = stamps[j] /\ admitted'[j] = admitted[j]
    BY DEF Reset
  <1>4. LimiterTypeOK'
    <2>1. stamps' \in [Keys -> SUBSET Stamp] /\ admitted' \in [Keys -> SUBSET Stamp]
      BY <1>1 DEF Reset, LimiterTypeOK
    <2>2. buckets' = {j \in Keys : stamps'[j] # {}}
      BY <1>1, <1>2, <1>3 DEF LimiterTypeOK
    <2> QED  BY <2>1, <2>2, <1>1 DEF LimiterTypeOK
  <1>5. StampsCurrent' /\ StampsOrdered'
    BY <1>1, <1>2, <1>3 DEF StampsCurrent, StampsOrdered
  <1>6. AdmittedFinite'
    BY <1>1, <1>2, <1>3, FS_EmptySet DEF AdmittedFinite
  <1>7. WindowBound'
    <2> SUFFICES ASSUME NEW j \in Keys, NEW t \in 0 .. MaxNow
                 PROVE  Cardinality(AdmittedWithin(j, t)') <= MaxRequests[j]
      BY DEF WindowBound
    <2>1. CASE j \in ks
      <3>1. AdmittedWithin(j, t)' = {}
        BY <2>1, <1>2 DEF AdmittedWithin
      <3> QED  BY <3>1, <1>1, FS_EmptySet
    <2>2. CASE j \notin ks
      BY <2>2, <1>1, <1>3 DEF WindowBound, AdmittedWithin
    <2> QED  BY <2>1, <2>2
  <1> QED  BY <1>4, <1>5, <1>6, <1>7 DEF LimiterInv

\* Pruning forgets only stamps that no longer count.
LEMMA PruneKeepsInv ==
    ASSUME LimiterInv, Prune
    PROVE  LimiterInv'
  <1>1. /\ LimiterTypeOK /\ StampsCurrent /\ StampsOrdered /\ AdmittedFinite /\ WindowBound
        /\ now' = now /\ serial' = serial /\ verdict' = verdict /\ admitted' = admitted
    BY DEF LimiterInv, Prune
  <1>2. \A j \in Keys : stamps'[j] = Active(j, now)
    BY DEF Prune
  <1>3. LimiterTypeOK'
    <2>1. stamps' \in [Keys -> SUBSET Stamp]
      BY ActiveIsRecent DEF Prune
    <2>2. buckets' = {j \in Keys : stamps'[j] # {}}
      BY <1>1, <1>2 DEF Prune, LimiterTypeOK, Active
    <2> QED  BY <2>1, <2>2, <1>1 DEF LimiterTypeOK
  <1>4. StampsCurrent'
    BY <1>1, <1>2 DEF StampsCurrent, Active
  <1>5. StampsOrdered' /\ AdmittedFinite'
    BY <1>1 DEF StampsOrdered, AdmittedFinite
  <1>6. WindowBound'
    BY <1>1 DEF WindowBound, AdmittedWithin
  <1> QED  BY <1>3, <1>4, <1>5, <1>6 DEF LimiterInv

\* What does not count now does not count later.
LEMMA TickKeepsInv ==
    ASSUME LimiterInv, NEW t \in 1 .. MaxNow, Tick(t)
    PROVE  LimiterInv'
  <1>1. /\ LimiterTypeOK /\ StampsCurrent /\ StampsOrdered /\ AdmittedFinite /\ WindowBound
        /\ now' = t /\ t > now /\ now \in Nat
        /\ UNCHANGED <<buckets, stamps, serial, admitted, verdict>>
        /\ \A j \in Keys : WindowMs[j] \in Nat
        /\ MaxNow \in Nat
    BY LimiterAssumption DEF LimiterInv, LimiterTypeOK, Tick
  <1>2. \A j \in Keys : \A a \in admitted[j] : a.at \in Nat /\ a.n \in Nat
    BY <1>1 DEF LimiterTypeOK, Stamp
  <1>3. t \in Nat
    BY <1>1
  <1>4. LimiterTypeOK'
    BY <1>1, <1>3 DEF LimiterTypeOK
  <1>5. StampsCurrent'
    BY <1>1, <1>2, <1>3 DEF StampsCurrent
  <1>6. StampsOrdered' /\ AdmittedFinite' /\ WindowBound'
    BY <1>1, <1>2, <1>3 DEF StampsOrdered, AdmittedFinite, WindowBound, AdmittedWithin
  <1> QED  BY <1>4, <1>5, <1>6 DEF LimiterInv

-----------------------------------------------------------------------------
(* The invariant holds. *)

LEMMA InitInv ==
    ASSUME LimiterInit
    PROVE  LimiterInv
  <1>1. \A k \in Keys : MaxRequests[k] \in Nat /\ MaxNow \in Nat
    BY LimiterAssumption
  <1>2. LimiterTypeOK
    BY <1>1, LimiterAssumption DEF LimiterInit, LimiterTypeOK
  <1>3. StampsCurrent /\ StampsOrdered
    BY DEF LimiterInit, StampsCurrent, StampsOrdered
  <1>4. AdmittedFinite
    BY FS_EmptySet DEF LimiterInit, AdmittedFinite
  <1>5. \A k \in Keys, t \in 0 .. MaxNow : AdmittedWithin(k, t) = {}
    BY DEF LimiterInit, AdmittedWithin
  <1>6. WindowBound
    BY <1>1, <1>5, FS_EmptySet DEF WindowBound
  <1> QED  BY <1>2, <1>3, <1>4, <1>6 DEF LimiterInv

LEMMA StepKeepsInv ==
    ASSUME LimiterInv, [LimiterNext]_limiterVars
    PROVE  LimiterInv'
  <1>1. ASSUME NEW k \in Keys, Check(k) PROVE LimiterInv'
    BY <1>1, CheckKeepsStamps, CheckKeepsWindowBound DEF LimiterInv
  <1>2. ASSUME NEW k \in Keys, Reset({k}) PROVE LimiterInv'
    BY <1>2, ResetKeepsInv
  <1>3. CASE Reset(Keys)
    BY <1>3, ResetKeepsInv
  <1>4. CASE Prune
    BY <1>4, PruneKeepsInv
  <1>5. ASSUME NEW t \in 1 .. MaxNow, Tick(t) PROVE LimiterInv'
    BY <1>5, TickKeepsInv
  <1>6. CASE UNCHANGED limiterVars
    BY <1>6 DEF limiterVars, LimiterInv, LimiterTypeOK, StampsCurrent, StampsOrdered,
                AdmittedFinite, WindowBound, AdmittedWithin
  <1> QED  BY <1>1, <1>2, <1>3, <1>4, <1>5, <1>6 DEF LimiterNext

\* The limiter's inductive invariant holds in every reachable state.
THEOREM LimiterInvariance == LimiterSpec => []LimiterInv
  <1>1. LimiterInit => LimiterInv
    BY InitInv
  <1>2. LimiterInv /\ [LimiterNext]_limiterVars => LimiterInv'
    BY StepKeepsInv
  <1> QED  BY <1>1, <1>2, PTL DEF LimiterSpec

\* Type correctness; the Map holds no empty bucket.
THEOREM LimiterTypes == LimiterSpec => []LimiterTypeOK
  <1>1. LimiterInv => LimiterTypeOK
    BY DEF LimiterInv
  <1> QED  BY <1>1, LimiterInvariance, PTL

\* No window ever holds more admitted requests than the maximum, for all
\* windows and maxima and whatever check, reset and prune are called.
THEOREM WindowsBounded == LimiterSpec => []WindowBound
  <1>1. LimiterInv => WindowBound
    BY DEF LimiterInv
  <1> QED  BY <1>1, LimiterInvariance, PTL

-----------------------------------------------------------------------------
(* resetAt is exact. *)

\* A set of numbers that is not empty has a least one.
LEMMA LeastNumber ==
    ASSUME NEW T \in SUBSET Nat, T # {}
    PROVE  \E x \in T : \A y \in T : x <= y
  <1>1. PICK x \in T : \A y \in T : ~ (<<y, x>> \in OpToRel(<, Nat))
    BY NatLessThanWellFounded, WFMin
  <1>2. \A y \in T : ~ (y < x)
    BY <1>1 DEF OpToRel
  <1> QED  BY <1>2

\* A bucket that refuses is full, and its first stamp is its oldest one.
LEMMA OldestStamp ==
    ASSUME LimiterInv, NEW k \in Keys, ~PeekAllowed(k, now)
    PROVE  /\ Cardinality(Active(k, now)) = MaxRequests[k]
           /\ \E o \in Active(k, now) :
                 /\ ResetAt(k, now) = o.at + WindowMs[k]
                 /\ \A a \in Active(k, now) : o.at <= a.at
  <1> DEFINE active == Active(k, now)
             oldest == CHOOSE a \in active : \A b \in active : a.n <= b.n
  <1>1. /\ MaxRequests[k] \in Nat \ {0}
        /\ now \in 0 .. MaxNow
    BY LimiterAssumption DEF LimiterInv, LimiterTypeOK
  <1>2. /\ IsFiniteSet(active)
        /\ active \in SUBSET Stamp
        /\ Cardinality(active) \in Nat
        /\ active = AdmittedWithin(k, now)
    BY ActiveIsRecent, FS_CardinalityType
  <1>3. Cardinality(active) <= MaxRequests[k]
    BY <1>1, <1>2 DEF LimiterInv, WindowBound
  <1>4. Cardinality(active) = MaxRequests[k]
    BY <1>1, <1>2, <1>3 DEF PeekAllowed
  <1>5. active # {}
    BY <1>1, <1>4, FS_EmptySet
  <1>6. \E a \in active : \A b \in active : a.n <= b.n
    <2> DEFINE T == {a.n : a \in active}
    <2>1. T \in SUBSET Nat /\ T # {}
      BY <1>2, <1>5 DEF Stamp
    <2> HIDE DEF T
    <2>2. PICK x \in T : \A y \in T : x <= y
      BY <2>1, LeastNumber
    <2>3. PICK a \in active : a.n = x
      BY <2>2 DEF T
    <2>4. \A b \in active : b.n \in T
      BY DEF T
    <2> QED  BY <2>2, <2>3, <2>4
  <1>7. oldest \in active /\ \A b \in active : oldest.n <= b.n
    BY <1>6
  <1>8. \A b \in active : oldest.at <= b.at
    <2>1. active \subseteq admitted[k]
      BY <1>2 DEF AdmittedWithin
    <2> HIDE DEF oldest
    <2> QED  BY <2>1, <1>7 DEF LimiterInv, StampsOrdered
  <1>9. ResetAt(k, now) = oldest.at + WindowMs[k]
    BY <1>5 DEF ResetAt
  <1> QED  BY <1>4, <1>7, <1>8, <1>9

\* A refused client that comes back at resetAt gets in, and not before: for
\* all windows and maxima.
THEOREM ResetAtExact == LimiterSpec => []RetryAfterExact
  <1>1. LimiterInv => RetryAfterExact
    <2> SUFFICES ASSUME LimiterInv, NEW k \in Keys, ~PeekAllowed(k, now)
                 PROVE  /\ PeekAllowed(k, ResetAt(k, now))
                        /\ \A t \in now .. ResetAt(k, now) - 1 : ~PeekAllowed(k, t)
      BY DEF RetryAfterExact
    <2>1. PICK o \in Active(k, now) :
                 /\ ResetAt(k, now) = o.at + WindowMs[k]
                 /\ \A a \in Active(k, now) : o.at <= a.at
      BY OldestStamp
    <2>2. Cardinality(Active(k, now)) = MaxRequests[k]
      BY OldestStamp
    <2>3. /\ IsFiniteSet(Active(k, now))
          /\ WindowMs[k] \in Nat \ {0} /\ MaxRequests[k] \in Nat \ {0}
          /\ now \in Nat
          /\ stamps[k] \in SUBSET Stamp
          /\ stamps[k] \subseteq admitted[k]
      BY LimiterAssumption, ActiveIsRecent DEF LimiterInv, LimiterTypeOK, StampsCurrent
    <2>4. \A a \in stamps[k] : a.at \in Nat /\ a.at <= now
      BY <2>3 DEF Stamp, LimiterInv, StampsOrdered
    <2>5. o \in stamps[k] /\ o.at + WindowMs[k] > now
      BY DEF Active
    <2>6. PeekAllowed(k, ResetAt(k, now))
      <3>1. Active(k, ResetAt(k, now)) \subseteq Active(k, now) \ {o}
        BY <2>1, <2>3, <2>4, <2>5 DEF Active
      <3>2. /\ IsFiniteSet(Active(k, now) \ {o})
            /\ Cardinality(Active(k, now) \ {o}) = Cardinality(Active(k, now)) - 1
        BY <2>3, FS_RemoveElement
      <3>3. /\ Cardinality(Active(k, ResetAt(k, now))) <= Cardinality(Active(k, now) \ {o})
            /\ IsFiniteSet(Active(k, ResetAt(k, now)))
        BY <3>1, <3>2, FS_Subset
      <3>4. Cardinality(Active(k, ResetAt(k, now))) \in Nat
        BY <3>3, FS_CardinalityType
      <3> QED  BY <2>2, <2>3, <3>2, <3>3, <3>4 DEF PeekAllowed
    <2>7. ASSUME NEW t \in now .. ResetAt(k, now) - 1
          PROVE  ~PeekAllowed(k, t)
      <3>1. t \in Int /\ now <= t /\ t < o.at + WindowMs[k]
        BY <2>1, <2>3, <2>4, <2>5
      <3>2. \A a \in Active(k, now) : a \in stamps[k] /\ a.at + WindowMs[k] > t
        BY <2>1, <2>3, <2>4, <2>5, <3>1 DEF Active
      <3>3. \A a \in stamps[k] : a.at + WindowMs[k] > t => a.at + WindowMs[k] > now
        BY <2>3, <2>4, <3>1
      <3>4. Active(k, t) = Active(k, now)
        BY <3>2, <3>3 DEF Active
      <3> QED  BY <2>2, <2>3, <3>4 DEF PeekAllowed
    <2> QED  BY <2>6, <2>7
  <1> QED  BY <1>1, LimiterInvariance, PTL

-----------------------------------------------------------------------------
\* The contract counts with the same operator.
LEMMA SameCount == \A S : Contract!Cardinality(S) = Cardinality(S)
  BY DEF Contract!Cardinality, Cardinality

\* The limiter, which forgets, implements the contract, which does not: each
\* of its steps is a step of the contract or changes nothing there.
THEOREM LimiterImplementsContract == LimiterSpec => ContractSpec
  <1>1. LimiterInit => Contract!Init
    BY DEF LimiterInit, Contract!Init
  <1>2. LimiterInv /\ [LimiterNext]_limiterVars => [Contract!Next]_(Contract!contractVars)
    <2> SUFFICES ASSUME LimiterInv, [LimiterNext]_limiterVars
                 PROVE  [Contract!Next]_(Contract!contractVars)
      OBVIOUS
    <2>1. ASSUME NEW k \in Keys, Check(k) PROVE Contract!Next
      <3>1. serial \in 0 .. MaxSerial
        BY <2>1, LimiterAssumption DEF LimiterInv, LimiterTypeOK, Check
      <3>2. Contract!Request(k, serial)
        BY <2>1, ActiveIsRecent, SameCount DEF Check, Contract!Request
      <3> QED  BY <3>1, <3>2 DEF Contract!Next
    <2>2. ASSUME NEW ks \in SUBSET Keys, Reset(ks) PROVE Contract!Next
      BY <2>2 DEF Reset, Contract!Forget, Contract!Next
    <2>3. CASE Prune
      BY <2>3 DEF Prune, Contract!contractVars
    <2>4. ASSUME NEW t \in 1 .. MaxNow, Tick(t) PROVE Contract!Next
      BY <2>4 DEF Tick, Contract!Pass, Contract!Next
    <2>5. CASE UNCHANGED limiterVars
      BY <2>5 DEF limiterVars, Contract!contractVars
    <2> QED  BY <2>1, <2>2, <2>3, <2>4, <2>5 DEF LimiterNext
  <1> QED  BY <1>1, <1>2, LimiterInvariance, PTL DEF LimiterSpec, ContractSpec, Contract!Spec

-----------------------------------------------------------------------------
(* Admission: what requests paid, and what the limiters admitted. *)

Paid == Nat \cup {None, Forgotten}
Request == [n : Nat, address : Keys, step : {"checking", "passed", "refused", "direct"},
            global : Paid, ip : Paid]

\* What a request paid, by how far it has come.
PaidSoFar(r) ==
    /\ r.n < serial
    /\ r.step = "checking" => r.global # None /\ r.ip = None /\ r.address # Global
    /\ r.step = "passed" => r.global # None /\ r.ip # None
    /\ r.address = Global => r.ip = None

RequestsTyped ==
    /\ requests \subseteq Request
    /\ \A r \in requests : PaidSoFar(r)
    /\ \A q, r \in requests : q.n = r.n => q = r

HasStamp(k, x) == \E s \in admitted[k] : s.n = x
PaidGlobally(x) == \E r \in requests : r.global = x
PaidAt(a, x) == \E r \in requests : r.address = a /\ r.ip = x

\* A stamp of a limiter is what a request paid there, and the reverse.
StampsPaid ==
    /\ \A x \in Nat : HasStamp(Global, x) <=> PaidGlobally(x)
    /\ \A a \in Addresses, x \in Nat : HasStamp(a, x) <=> PaidAt(a, x)

QuotaInv == LimiterInv /\ RequestsTyped /\ StampsPaid

-----------------------------------------------------------------------------
(* The limiters. *)

\* A step of the admission layer is a step of its limiters, or none.
LEMMA AdmissionCallsLimiter ==
    ASSUME RequestsTyped, [AdmissionNext]_admissionVars
    PROVE  [LimiterNext]_limiterVars
  <1>1. CASE QuotaNext
    <2>1. ASSUME NEW a \in Addresses, GlobalCheck(a) PROVE LimiterNext
      BY <2>1, AdmissionAssumption DEF GlobalCheck, LimiterNext
    <2>2. ASSUME NEW r \in requests, AddressCheck(r) PROVE LimiterNext
      <3>1. r.address \in Keys
        BY <2>2 DEF RequestsTyped, Request
      <3> QED  BY <2>2, <3>1 DEF AddressCheck, LimiterNext
    <2>3. ASSUME NEW k \in Keys, CheckRateLimit(k) \/ ResetRateLimits({k}) PROVE LimiterNext
      BY <2>3 DEF CheckRateLimit, ResetRateLimits, LimiterNext
    <2>4. CASE ResetRateLimits(Keys)
      BY <2>4 DEF ResetRateLimits, LimiterNext
    <2>5. ASSUME NEW t \in 1 .. MaxNow, Tick(t) PROVE LimiterNext
      BY <2>5 DEF LimiterNext
    <2>6. CASE Prune
      BY <2>6 DEF LimiterNext
    <2> QED  BY <1>1, <2>1, <2>2, <2>3, <2>4, <2>5, <2>6 DEF QuotaNext
  <1>2. CASE PeerNext
    BY <1>2 DEF PeerNext, LimiterNext, quotaVars
  <1>3. CASE UNCHANGED admissionVars
    BY <1>3 DEF admissionVars, quotaVars
  <1> QED  BY <1>1, <1>2, <1>3 DEF AdmissionNext

\* What a check of k adds to the stamps: its serial number, if it is allowed.
LEMMA CheckStamps ==
    ASSUME LimiterInv, NEW k \in Keys, Check(k)
    PROVE  /\ verdict'.allowed \in BOOLEAN
           /\ serial \in Nat /\ serial' \in Nat /\ serial <= serial'
           /\ verdict'.allowed => serial < serial'
           /\ \A j \in Keys, x \in Nat :
                HasStamp(j, x)' <=> HasStamp(j, x) \/ (j = k /\ verdict'.allowed /\ x = serial)
  <1> DEFINE stamp == [at |-> now, n |-> serial]
             allowed == Cardinality(Active(k, now)) < MaxRequests[k]
  <1>1. /\ serial \in Nat
        /\ admitted \in [Keys -> SUBSET Stamp]
    BY DEF LimiterInv, LimiterTypeOK
  <1>2. /\ admitted' = IF allowed THEN [admitted EXCEPT ![k] = @ \cup {stamp}] ELSE admitted
        /\ serial' = IF allowed THEN serial + 1 ELSE serial
        /\ verdict' = [key |-> k, allowed |-> allowed]
    BY DEF Check
  <1>3. verdict'.allowed = allowed /\ allowed \in BOOLEAN
    BY <1>2
  <1> HIDE DEF allowed
  <1>4. ASSUME NEW j \in Keys, NEW x \in Nat
        PROVE  HasStamp(j, x)' <=> HasStamp(j, x) \/ (j = k /\ allowed /\ x = serial)
    <2>1. CASE j = k /\ allowed
      <3>1. admitted'[k] = admitted[k] \cup {stamp}
        BY <2>1, <1>1, <1>2
      <3>2. stamp.n = serial
        OBVIOUS
      <3> QED  BY <3>1, <3>2, <2>1 DEF HasStamp
    <2>2. CASE ~(j = k /\ allowed)
      <3>1. admitted'[j] = admitted[j]
        BY <2>2, <1>1, <1>2
      <3> QED  BY <3>1, <2>2 DEF HasStamp
    <2> QED  BY <2>1, <2>2
  <1>5. serial' \in Nat /\ serial <= serial' /\ (allowed => serial < serial')
    BY <1>1, <1>2
  <1> QED  BY <1>1, <1>3, <1>4, <1>5

-----------------------------------------------------------------------------
(* Each action keeps the books. *)

\* A request that a limiter admits pays the number it has itself.
LEMMA NewRequest ==
    ASSUME QuotaInv, NEW a \in Keys, NEW k \in Keys, NEW step \in {"checking", "direct"},
           Check(k), k = Global \/ k = a, a = Global => k = Global,
           step = "checking" => k = Global /\ a # Global,
           requests' = IF verdict'.allowed THEN requests \cup {Admitted(a, step, k, serial)} ELSE requests
    PROVE  RequestsTyped' /\ StampsPaid'
  <1> DEFINE q == Admitted(a, step, k, serial)
             allowed == verdict'.allowed
  <1>1. /\ allowed \in BOOLEAN
        /\ serial \in Nat /\ serial' \in Nat /\ serial <= serial'
        /\ allowed => serial < serial'
        /\ \A j \in Keys, x \in Nat :
             HasStamp(j, x)' <=> HasStamp(j, x) \/ (j = k /\ allowed /\ x = serial)
    BY CheckStamps DEF QuotaInv
  <1>2. /\ RequestsTyped /\ StampsPaid
        /\ Global \in Keys /\ None \notin Nat /\ Forgotten \notin Nat
    BY AdmissionAssumption DEF QuotaInv
  <1>3. /\ q.n = serial /\ q.address = a /\ q.step = step
        /\ k = Global => q.global = serial /\ q.ip = None
        /\ k # Global => q.global = None /\ q.ip = serial
        /\ q \in Request
    BY <1>1 DEF Admitted, Request, Paid
  <1>4. requests' = IF allowed THEN requests \cup {q} ELSE requests
    OBVIOUS
  <1> HIDE DEF q, allowed
  <1>5. \A r \in requests : r.n \in Nat /\ r.n < serial
    BY <1>2 DEF RequestsTyped, Request, PaidSoFar
  <1>6. RequestsTyped'
    <2>1. requests' \subseteq Request
      BY <1>2, <1>3, <1>4 DEF RequestsTyped
    <2>2. ASSUME NEW r \in requests' PROVE PaidSoFar(r)'
      <3>1. CASE r \in requests
        <4>1. PaidSoFar(r) /\ r.n < serial'
          BY <3>1, <1>1, <1>2, <1>5 DEF RequestsTyped
        <4> QED  BY <4>1 DEF PaidSoFar
      <3>2. CASE r \notin requests
        <4>1. r = q /\ allowed
          BY <3>2, <1>4
        <4> QED  BY <4>1, <1>1, <1>2, <1>3 DEF PaidSoFar
      <3> QED  BY <3>1, <3>2
    <2>3. \A p, r \in requests' : p.n = r.n => p = r
      BY <1>2, <1>3, <1>4, <1>5 DEF RequestsTyped
    <2> QED  BY <2>1, <2>2, <2>3 DEF RequestsTyped
  <1>7. ASSUME NEW x \in Nat PROVE HasStamp(Global, x)' <=> PaidGlobally(x)'
    <2>1. PaidGlobally(x)' <=> PaidGlobally(x) \/ (allowed /\ q.global = x)
      BY <1>4 DEF PaidGlobally
    <2>2. q.global = x <=> k = Global /\ x = serial
      BY <1>2, <1>3
    <2> QED  BY <2>1, <2>2, <1>1, <1>2 DEF StampsPaid
  <1>8. ASSUME NEW b \in Addresses, NEW x \in Nat PROVE HasStamp(b, x)' <=> PaidAt(b, x)'
    <2>1. PaidAt(b, x)' <=> PaidAt(b, x) \/ (allowed /\ q.address = b /\ q.ip = x)
      BY <1>4 DEF PaidAt
    <2>2. q.address = b /\ q.ip = x <=> b = k /\ x = serial
      BY <1>2, <1>3 DEF Addresses
    <2>3. HasStamp(b, x)' <=> HasStamp(b, x) \/ (b = k /\ allowed /\ x = serial)
      BY <1>1 DEF Addresses
    <2> QED  BY <2>1, <2>2, <2>3, <1>2 DEF StampsPaid
  <1> QED  BY <1>6, <1>7, <1>8 DEF StampsPaid

\* The second check of a request: it pays at its address, or is refused.
LEMMA AddressCheckKeepsBooks ==
    ASSUME QuotaInv, NEW r \in requests, AddressCheck(r)
    PROVE  RequestsTyped' /\ StampsPaid'
  <1> DEFINE allowed == verdict'.allowed
             answer == IF allowed THEN [r EXCEPT !.step = "passed", !.ip = serial]
                                  ELSE [r EXCEPT !.step = "refused"]
  <1>1. /\ RequestsTyped /\ StampsPaid
        /\ Global \in Keys /\ None \notin Nat /\ Forgotten \notin Nat
    BY AdmissionAssumption DEF QuotaInv
  <1>2. /\ r \in Request /\ r.step = "checking" /\ PaidSoFar(r)
        /\ r.address \in Keys
        /\ Check(r.address)
        /\ requests' = (requests \ {r}) \cup {answer}
    BY <1>1 DEF AddressCheck, RequestsTyped, Request
  <1>3. /\ allowed \in BOOLEAN
        /\ serial \in Nat /\ serial' \in Nat /\ serial <= serial'
        /\ allowed => serial < serial'
        /\ \A j \in Keys, x \in Nat :
             HasStamp(j, x)' <=> HasStamp(j, x) \/ (j = r.address /\ allowed /\ x = serial)
    BY <1>2, CheckStamps DEF QuotaInv
  <1>4. r.global # None /\ r.ip = None /\ r.address # Global /\ r.n \in Nat /\ r.n < serial
    BY <1>2 DEF PaidSoFar, Request
  <1>5. /\ answer \in Request /\ answer.n = r.n /\ answer.address = r.address
        /\ answer.global = r.global
        /\ allowed => answer.step = "passed" /\ answer.ip = serial
        /\ ~allowed => answer.step = "refused" /\ answer.ip = None
    <2>1. CASE allowed
      BY <2>1, <1>2, <1>3, <1>4 DEF Request, Paid
    <2>2. CASE ~allowed
      BY <2>2, <1>2, <1>3, <1>4 DEF Request, Paid
    <2> QED  BY <2>1, <2>2
  <1> HIDE DEF answer, allowed
  <1>6. RequestsTyped'
    <2>1. requests' \subseteq Request
      BY <1>1, <1>2, <1>5 DEF RequestsTyped
    <2>2. ASSUME NEW s \in requests' PROVE PaidSoFar(s)'
      <3>1. CASE s \in requests
        <4>1. PaidSoFar(s) /\ s.n \in Nat
          BY <3>1, <1>1 DEF RequestsTyped, Request
        <4>2. s.n < serial'
          BY <4>1, <1>3 DEF PaidSoFar
        <4> QED  BY <4>1, <4>2 DEF PaidSoFar
      <3>2. CASE s \notin requests
        <4>1. s = answer
          BY <3>2, <1>2
        <4>2. answer.n < serial'
          BY <1>3, <1>4, <1>5
        <4>3. answer.step # "checking"
          BY <1>3, <1>5
        <4>4. answer.step = "passed" => answer.global # None /\ answer.ip # None
          BY <1>1, <1>3, <1>4, <1>5
        <4> QED  BY <4>1, <4>2, <4>3, <4>4, <1>4, <1>5 DEF PaidSoFar
      <3> QED  BY <3>1, <3>2
    <2>3. \A p, s \in requests' : p.n = s.n => p = s
      BY <1>1, <1>2, <1>5 DEF RequestsTyped
    <2> QED  BY <2>1, <2>2, <2>3 DEF RequestsTyped
  <1>7. ASSUME NEW x \in Nat PROVE HasStamp(Global, x)' <=> PaidGlobally(x)'
    <2>1. PaidGlobally(x)' <=> PaidGlobally(x)
      BY <1>2, <1>5 DEF PaidGlobally
    <2>2. HasStamp(Global, x)' <=> HasStamp(Global, x)
      BY <1>1, <1>3, <1>4
    <2> QED  BY <2>1, <2>2, <1>1 DEF StampsPaid
  <1>8. ASSUME NEW b \in Addresses, NEW x \in Nat PROVE HasStamp(b, x)' <=> PaidAt(b, x)'
    <2>1. ~(r.ip = x)
      BY <1>1, <1>4
    <2>2. PaidAt(b, x)' <=> PaidAt(b, x) \/ (answer.address = b /\ answer.ip = x)
      BY <2>1, <1>2 DEF PaidAt
    <2>3. answer.address = b /\ answer.ip = x <=> b = r.address /\ allowed /\ x = serial
      BY <1>1, <1>3, <1>5
    <2>4. HasStamp(b, x)' <=> HasStamp(b, x) \/ (b = r.address /\ allowed /\ x = serial)
      BY <1>3 DEF Addresses
    <2> QED  BY <2>2, <2>3, <2>4, <1>1 DEF StampsPaid
  <1> QED  BY <1>6, <1>7, <1>8 DEF StampsPaid

\* A reset forgets stamps, and the payments with them.
LEMMA ResetKeepsBooks ==
    ASSUME QuotaInv, NEW ks \in SUBSET Keys, ResetRateLimits(ks)
    PROVE  RequestsTyped' /\ StampsPaid'
  <1> DEFINE after(r) == [r EXCEPT !.global = IF Global \in ks /\ @ # None THEN Forgotten ELSE @,
                                   !.ip = IF r.address \in ks /\ @ # None THEN Forgotten ELSE @]
  <1>1. /\ RequestsTyped /\ StampsPaid /\ LimiterTypeOK
        /\ Global \in Keys /\ None \notin Nat /\ Forgotten \notin Nat /\ None # Forgotten
    BY AdmissionAssumption DEF QuotaInv, LimiterInv
  <1>2. /\ requests' = {after(r) : r \in requests}
        /\ serial' = serial
        /\ \A k \in Keys : admitted'[k] = IF k \in ks THEN {} ELSE admitted[k]
    BY <1>1 DEF ResetRateLimits, Reset
  <1>3. ASSUME NEW r \in requests
        PROVE  /\ after(r) \in Request
               /\ after(r).n = r.n /\ after(r).address = r.address /\ after(r).step = r.step
               /\ after(r).global = IF Global \in ks /\ r.global # None THEN Forgotten ELSE r.global
               /\ after(r).ip = IF r.address \in ks /\ r.ip # None THEN Forgotten ELSE r.ip
    <2>1. r \in Request
      BY <1>1 DEF RequestsTyped
    <2> QED  BY <2>1 DEF Request, Paid
  <1> HIDE DEF after
  <1>4. RequestsTyped'
    <2>1. requests' \subseteq Request
      BY <1>2, <1>3
    <2>2. ASSUME NEW r \in requests PROVE PaidSoFar(after(r))'
      <3>1. PaidSoFar(r)
        BY <1>1 DEF RequestsTyped
      <3> QED  BY <3>1, <1>1, <1>2, <1>3 DEF PaidSoFar
    <2>3. \A p, r \in requests' : p.n = r.n => p = r
      BY <1>1, <1>2, <1>3 DEF RequestsTyped
    <2> QED  BY <2>1, <2>2, <2>3, <1>2 DEF RequestsTyped
  <1>5. ASSUME NEW x \in Nat PROVE HasStamp(Global, x)' <=> PaidGlobally(x)'
    <2>1. CASE Global \in ks
      <3>1. ~HasStamp(Global, x)'
        BY <2>1, <1>1, <1>2 DEF HasStamp
      <3>2. \A r \in requests : after(r).global # x
        BY <2>1, <1>1, <1>3
      <3> QED  BY <3>1, <3>2, <1>2 DEF PaidGlobally
    <2>2. CASE Global \notin ks
      <3>1. HasStamp(Global, x)' <=> HasStamp(Global, x)
        BY <2>2, <1>1, <1>2 DEF HasStamp
      <3>2. \A r \in requests : after(r).global = r.global
        BY <2>2, <1>3
      <3>3. PaidGlobally(x)' <=> PaidGlobally(x)
        BY <3>2, <1>2 DEF PaidGlobally
      <3> QED  BY <3>1, <3>3, <1>1 DEF StampsPaid
    <2> QED  BY <2>1, <2>2
  <1>6. ASSUME NEW b \in Addresses, NEW x \in Nat PROVE HasStamp(b, x)' <=> PaidAt(b, x)'
    <2>0. b \in Keys
      BY DEF Addresses
    <2>1. CASE b \in ks
      <3>1. ~HasStamp(b, x)'
        BY <2>0, <2>1, <1>2 DEF HasStamp
      <3>2. \A r \in requests : ~(after(r).address = b /\ after(r).ip = x)
        BY <2>1, <1>1, <1>3
      <3> QED  BY <3>1, <3>2, <1>2 DEF PaidAt
    <2>2. CASE b \notin ks
      <3>1. HasStamp(b, x)' <=> HasStamp(b, x)
        BY <2>0, <2>2, <1>2 DEF HasStamp
      <3>2. \A r \in requests : (after(r).address = b /\ after(r).ip = x) <=> (r.address = b /\ r.ip = x)
        BY <2>2, <1>3
      <3>3. PaidAt(b, x)' <=> PaidAt(b, x)
        BY <3>2, <1>2 DEF PaidAt
      <3> QED  BY <3>1, <3>3, <1>1 DEF StampsPaid
    <2> QED  BY <2>1, <2>2
  <1> QED  BY <1>4, <1>5, <1>6 DEF StampsPaid

\* Where no stamp is pushed and no request moves, the books stay.
LEMMA BooksUnchanged ==
    ASSUME QuotaInv, requests' = requests, admitted' = admitted, serial' = serial
    PROVE  RequestsTyped' /\ StampsPaid'
  <1>1. RequestsTyped /\ StampsPaid
    BY DEF QuotaInv
  <1>2. RequestsTyped'
    BY <1>1 DEF RequestsTyped, PaidSoFar
  <1>3. StampsPaid'
    BY <1>1 DEF StampsPaid, HasStamp, PaidGlobally, PaidAt
  <1> QED  BY <1>2, <1>3

\* The books are empty at the start.
LEMMA QuotaInitInv == AdmissionInit => QuotaInv
  <1> SUFFICES ASSUME AdmissionInit PROVE QuotaInv
    OBVIOUS
  <1>1. LimiterInit /\ requests = {} /\ admitted = [k \in Keys |-> {}]
    BY DEF AdmissionInit, LimiterInit
  <1>2. LimiterInv
    BY <1>1, InitInv
  <1>3. RequestsTyped
    BY <1>1 DEF RequestsTyped
  <1>4. StampsPaid
    BY <1>1, AdmissionAssumption DEF StampsPaid, HasStamp, PaidGlobally, PaidAt, Addresses
  <1> QED  BY <1>2, <1>3, <1>4 DEF QuotaInv

\* Every step keeps them.
LEMMA QuotaStepInv == QuotaInv /\ [AdmissionNext]_admissionVars => QuotaInv'
  <1> SUFFICES ASSUME QuotaInv, [AdmissionNext]_admissionVars PROVE QuotaInv'
    OBVIOUS
  <1>1. LimiterInv'
    BY AdmissionCallsLimiter, StepKeepsInv DEF QuotaInv
  <1>2. RequestsTyped' /\ StampsPaid'
    <2>1. ASSUME NEW a \in Addresses, GlobalCheck(a) PROVE RequestsTyped' /\ StampsPaid'
      <3>1. a \in Keys /\ a # Global /\ Global \in Keys
        BY AdmissionAssumption DEF Addresses
      <3>2. /\ Check(Global)
            /\ requests' = IF verdict'.allowed THEN requests \cup {Admitted(a, "checking", Global, serial)}
                                               ELSE requests
        BY <2>1 DEF GlobalCheck
      <3> QED  BY <3>1, <3>2, NewRequest
    <2>2. ASSUME NEW r \in requests, AddressCheck(r) PROVE RequestsTyped' /\ StampsPaid'
      BY <2>2, AddressCheckKeepsBooks
    <2>3. ASSUME NEW k \in Keys, CheckRateLimit(k) PROVE RequestsTyped' /\ StampsPaid'
      <3>1. /\ Check(k)
            /\ requests' = IF verdict'.allowed THEN requests \cup {Admitted(k, "direct", k, serial)}
                                               ELSE requests
        BY <2>3 DEF CheckRateLimit
      <3> QED  BY <3>1, NewRequest
    <2>4. ASSUME NEW k \in Keys, ResetRateLimits({k}) PROVE RequestsTyped' /\ StampsPaid'
      <3>1. {k} \in SUBSET Keys
        OBVIOUS
      <3> QED  BY <2>4, <3>1, ResetKeepsBooks
    <2>5. ASSUME ResetRateLimits(Keys) PROVE RequestsTyped' /\ StampsPaid'
      <3>1. Keys \in SUBSET Keys
        OBVIOUS
      <3> QED  BY <2>5, <3>1, ResetKeepsBooks
    <2>6. ASSUME NEW t \in 1 .. MaxNow, Tick(t), requests' = requests PROVE RequestsTyped' /\ StampsPaid'
      BY <2>6, BooksUnchanged DEF Tick
    <2>7. ASSUME Prune, requests' = requests PROVE RequestsTyped' /\ StampsPaid'
      BY <2>7, BooksUnchanged DEF Prune
    <2>8. ASSUME UNCHANGED quotaVars PROVE RequestsTyped' /\ StampsPaid'
      BY <2>8, BooksUnchanged DEF quotaVars, limiterVars
    <2>9. CASE QuotaNext
      BY <2>9, <2>1, <2>2, <2>3, <2>4, <2>5, <2>6, <2>7 DEF QuotaNext
    <2>10. CASE PeerNext
      BY <2>10, <2>6, <2>8 DEF PeerNext
    <2>11. CASE UNCHANGED admissionVars
      BY <2>11, <2>8 DEF admissionVars
    <2> QED  BY <2>9, <2>10, <2>11 DEF AdmissionNext
  <1> QED  BY <1>1, <1>2 DEF QuotaInv

-----------------------------------------------------------------------------
\* The books are kept, and the limiters' own invariant with them.
THEOREM QuotaInvariance == AdmissionSpec => []QuotaInv
  <1> QED  BY QuotaInitInv, QuotaStepInv, PTL DEF AdmissionSpec

\* The policy layer only ever uses its limiters as they expect, so that what is
\* proved of them alone holds of them behind the middleware.
THEOREM AdmissionImplementsLimiter == AdmissionSpec => LimiterSpec
  <1>1. AdmissionInit => LimiterInit
    BY DEF AdmissionInit
  <1>2. QuotaInv /\ [AdmissionNext]_admissionVars => [LimiterNext]_limiterVars
    BY AdmissionCallsLimiter DEF QuotaInv
  <1> QED  BY <1>1, <1>2, QuotaInvariance, PTL DEF AdmissionSpec, LimiterSpec

\* Whatever the two limiters admitted was paid by one request of its own, for
\* any number of addresses and of requests between their two checks.
THEOREM QuotaIsPaid == AdmissionSpec => []QuotaPaid
  <1>1. ASSUME QuotaInv PROVE QuotaPaid
    <2>1. /\ RequestsTyped /\ StampsPaid
          /\ admitted \in [Keys -> SUBSET Stamp]
          /\ Global \in Keys
      BY <1>1, AdmissionAssumption DEF QuotaInv, LimiterInv, LimiterTypeOK
    <2>2. \A k \in Keys : \A s \in admitted[k] : s.n \in Nat
      BY <2>1 DEF Stamp
    <2>3. \A r \in requests : /\ r.global \in Nat \cup {None, Forgotten}
                              /\ r.ip \in Nat \cup {None, Forgotten}
      BY <2>1 DEF RequestsTyped, Request, Paid
    <2>4. None \notin Nat /\ Forgotten \notin Nat
      BY AdmissionAssumption
    <2>5. {s.n : s \in admitted[Global]} = {r.global : r \in requests} \ {None, Forgotten}
      BY <2>1, <2>2, <2>3, <2>4 DEF StampsPaid, HasStamp, PaidGlobally
    <2>6. ASSUME NEW a \in Addresses
          PROVE  {s.n : s \in admitted[a]} =
                   {r.ip : r \in {q \in requests : q.address = a}} \ {None, Forgotten}
      <3>1. a \in Keys
        BY DEF Addresses
      <3> QED  BY <3>1, <2>1, <2>2, <2>3, <2>4 DEF StampsPaid, HasStamp, PaidAt
    <2> QED  BY <2>1, <2>5, <2>6 DEF QuotaPaid, RequestsTyped, PaidSoFar
  <1> QED  BY <1>1, QuotaInvariance, PTL
-----------------------------------------------------------------------------
(* The slots of PeerLimits. *)

Counts == [Kinds -> Nat]
Entry(e) == e = [slots |-> e.slots, joins |-> e.joins] /\ e.slots \in Counts

SlotsTyped ==
    /\ DOMAIN usage \subseteq Peers
    /\ \A p \in DOMAIN usage : Entry(usage[p])
    /\ held \in [Peers -> Counts]
    /\ untracked \in [Peers -> Counts]

SlotsInv == SlotsTyped /\ SlotsAccounted

\* Tracking a peer counts nothing for it.
LEMMA TrackingCountsNothing ==
    ASSUME SlotsInv, NEW p \in Peers
    PROVE  /\ DOMAIN Tracked(p) = DOMAIN usage \cup {p}
           /\ \A q \in DOMAIN Tracked(p) : Entry(Tracked(p)[q])
           /\ \A q \in DOMAIN usage : Tracked(p)[q] = usage[q]
           /\ p \notin DOMAIN usage => \A c \in Kinds : Tracked(p)[p].slots[c] = 0
  <1>1. NoUsage = [slots |-> [c \in Kinds |-> 0], joins |-> {}]
    BY DEF NoUsage
  <1>2. Entry(NoUsage) /\ \A c \in Kinds : NoUsage.slots[c] = 0
    BY <1>1 DEF Entry, Counts
  <1>3. \A q \in DOMAIN usage : Entry(usage[q])
    BY DEF SlotsInv, SlotsTyped
  <1> QED  BY <1>2, <1>3 DEF Tracked

\* When slots are counted alike and none changes hands, the account stays.
LEMMA SameSlotsKeepAccount ==
    ASSUME SlotsInv, held' = held, untracked' = untracked,
           DOMAIN usage \subseteq DOMAIN usage', DOMAIN usage' \subseteq Peers,
           \A q \in DOMAIN usage' : Entry(usage'[q]),
           \A q \in DOMAIN usage : usage'[q].slots = usage[q].slots,
           \A q \in DOMAIN usage' \ DOMAIN usage, c \in Kinds : usage'[q].slots[c] = 0
    PROVE  SlotsInv'
  <1>1. SlotsTyped'
    BY DEF SlotsInv, SlotsTyped
  <1>2. ASSUME NEW q \in Peers, NEW c \in Kinds
        PROVE  (IF q \in DOMAIN usage THEN usage[q].slots[c] ELSE 0) =
                 (IF q \in DOMAIN usage' THEN usage'[q].slots[c] ELSE 0)
    OBVIOUS
  <1>3. SlotsAccounted'
    BY <1>2 DEF SlotsInv, SlotsAccounted
  <1> QED  BY <1>1, <1>3 DEF SlotsInv

\* Tracking a peer grants nothing.
LEMMA TrackPeerKeepsAccount ==
    ASSUME SlotsInv, NEW p \in Peers, TrackPeer(p) PROVE SlotsInv'
  <1>1. usage' = Tracked(p) /\ held' = held /\ untracked' = untracked
    BY DEF TrackPeer
  <1>2. DOMAIN usage \subseteq Peers
    BY DEF SlotsInv, SlotsTyped
  <1>3. /\ DOMAIN usage' = DOMAIN usage \cup {p}
        /\ \A q \in DOMAIN usage' : Entry(usage'[q])
        /\ \A q \in DOMAIN usage : usage'[q] = usage[q]
        /\ p \notin DOMAIN usage => \A c \in Kinds : usage'[p].slots[c] = 0
    BY <1>1, TrackingCountsNothing
  <1>4. \A q \in DOMAIN usage : usage'[q].slots = usage[q].slots
    BY <1>3
  <1>5. \A q \in DOMAIN usage' \ DOMAIN usage, c \in Kinds : usage'[q].slots[c] = 0
    BY <1>3
  <1>6. DOMAIN usage \subseteq DOMAIN usage' /\ DOMAIN usage' \subseteq Peers
    BY <1>2, <1>3
  <1> QED  BY <1>1, <1>3, <1>4, <1>5, <1>6, SameSlotsKeepAccount

\* An attempt to join, let in or refused, takes no slot.
LEMMA JoinAttemptKeepsAccount ==
    ASSUME SlotsInv, NEW p \in Peers, RecordJoinAttempt(p), held' = held, untracked' = untracked
    PROVE  SlotsInv'
  <1> DEFINE join == [at |-> now, n |-> Cardinality(attempts[p])]
             joins == LastMinute(Tracked(p)[p].joins) \cup {join}
  <1>1. usage' = [Tracked(p) EXCEPT ![p].joins = joins]
    BY DEF RecordJoinAttempt
  <1> HIDE DEF joins
  <1>2. DOMAIN usage' = DOMAIN Tracked(p)
    BY <1>1
  <1>3. \A q \in DOMAIN usage' : q # p => usage'[q] = Tracked(p)[q]
    BY <1>1
  <1>4. p \in DOMAIN Tracked(p) /\ Entry(Tracked(p)[p])
    BY TrackingCountsNothing
  <1>5. usage'[p] = [slots |-> Tracked(p)[p].slots, joins |-> joins]
    BY <1>1, <1>4 DEF Entry
  <1>6. Entry(usage'[p]) /\ usage'[p].slots = Tracked(p)[p].slots
    BY <1>4, <1>5 DEF Entry
  <1>7. DOMAIN usage \subseteq Peers
    BY DEF SlotsInv, SlotsTyped
  <1>8. /\ DOMAIN Tracked(p) = DOMAIN usage \cup {p}
        /\ \A q \in DOMAIN Tracked(p) : Entry(Tracked(p)[q])
        /\ \A q \in DOMAIN usage : Tracked(p)[q] = usage[q]
        /\ p \notin DOMAIN usage => \A c \in Kinds : Tracked(p)[p].slots[c] = 0
    BY TrackingCountsNothing
  <1>9. \A q \in DOMAIN usage' : Entry(usage'[q]) /\ usage'[q].slots = Tracked(p)[q].slots
    BY <1>2, <1>3, <1>6, <1>8
  <1>10. \A q \in DOMAIN usage : usage'[q].slots = usage[q].slots
    BY <1>2, <1>8, <1>9
  <1>11. \A q \in DOMAIN usage' \ DOMAIN usage, c \in Kinds : usage'[q].slots[c] = 0
    BY <1>2, <1>8, <1>9
  <1>12. DOMAIN usage \subseteq DOMAIN usage' /\ DOMAIN usage' \subseteq Peers
    BY <1>2, <1>7, <1>8
  <1> QED  BY <1>9, <1>10, <1>11, <1>12, SameSlotsKeepAccount

\* A slot is granted below the maximum only, to one peer and one kind.
LEMMA IncrementKeepsAccount ==
    ASSUME SlotsInv, NEW p \in Peers, NEW c \in Kinds, Increment(p, c) PROVE SlotsInv'
  <1> DEFINE before == Tracked(p)
             allowed == before[p].slots[c] < MaxSlots[c]
  <1>1. /\ usage' = IF allowed THEN [before EXCEPT ![p].slots[c] = @ + 1] ELSE before
        /\ held' = IF allowed THEN [held EXCEPT ![p][c] = @ + 1] ELSE held
        /\ untracked' = untracked
    BY DEF Increment
  <1>2. /\ DOMAIN before = DOMAIN usage \cup {p}
        /\ \A q \in DOMAIN before : Entry(before[q])
        /\ \A q \in DOMAIN usage : before[q] = usage[q]
        /\ p \notin DOMAIN usage => \A k \in Kinds : before[p].slots[k] = 0
    BY TrackingCountsNothing
  <1>3. /\ DOMAIN usage \subseteq Peers /\ held \in [Peers -> Counts] /\ untracked \in [Peers -> Counts]
        /\ MaxSlots \in [Kinds -> Nat]
        /\ SlotsAccounted
    BY AdmissionAssumption DEF SlotsInv, SlotsTyped
  <1> HIDE DEF before
  <1>4. CASE ~allowed
    <2>1. usage' = before /\ held' = held
      BY <1>1, <1>4
    <2> QED  BY <2>1, <1>1, <1>2, <1>3, SameSlotsKeepAccount
  <1>5. CASE allowed
    <2>1. Entry(before[p]) /\ p \in DOMAIN before
      BY <1>2
    <2>2. before[p].slots \in Counts
      BY <2>1 DEF Entry
    <2>3. usage' = [before EXCEPT ![p].slots[c] = @ + 1]
      BY <1>1, <1>5
    <2>4. DOMAIN usage' = DOMAIN before /\ \A q \in DOMAIN before : q # p => usage'[q] = before[q]
      BY <2>3
    <2>5. usage'[p] = [slots |-> [before[p].slots EXCEPT ![c] = @ + 1], joins |-> before[p].joins]
      BY <2>1, <2>3 DEF Entry
    <2>6. [before[p].slots EXCEPT ![c] = @ + 1] \in Counts
      BY <2>2 DEF Counts
    <2>7. Entry(usage'[p])
      BY <2>5, <2>6 DEF Entry
    <2>8. held' = [held EXCEPT ![p][c] = @ + 1]
      BY <1>1, <1>5
    <2>9. held' \in [Peers -> Counts]
      BY <2>8, <1>3 DEF Counts
    <2>10. SlotsTyped'
      BY <2>4, <2>7, <2>9, <1>1, <1>2, <1>3 DEF SlotsTyped
    <2>11. ASSUME NEW q \in Peers, NEW k \in Kinds
           PROVE  LET counted == IF q \in DOMAIN usage' THEN usage'[q].slots[k] ELSE 0
                  IN /\ counted \in 0 .. MaxSlots[k]
                     /\ counted <= held'[q][k]
                     /\ held'[q][k] <= counted + untracked[q][k]
      <3> DEFINE was == IF q \in DOMAIN usage THEN usage[q].slots[k] ELSE 0
      <3>1. /\ was \in 0 .. MaxSlots[k] /\ was <= held[q][k] /\ held[q][k] <= was + untracked[q][k]
            /\ held[q][k] \in Nat /\ untracked[q][k] \in Nat /\ MaxSlots[k] \in Nat
        BY <1>3 DEF SlotsAccounted, Counts
      <3>2. CASE q = p /\ k = c
        <4>1. was = before[p].slots[c]
          BY <3>2, <1>2
        <4>2. usage'[p].slots[c] = before[p].slots[c] + 1
          BY <2>2, <2>5 DEF Counts
        <4>3. held'[p][c] = held[p][c] + 1
          BY <2>8, <1>3 DEF Counts
        <4> QED  BY <3>1, <3>2, <4>1, <4>2, <4>3, <1>5, <2>1, <2>4
      <3>3. CASE q = p /\ k # c
        <4>1. was = before[p].slots[k]
          BY <3>3, <1>2
        <4>2. usage'[p].slots[k] = before[p].slots[k]
          BY <2>2, <2>5, <3>3 DEF Counts
        <4>3. held'[p][k] = held[p][k]
          BY <2>8, <1>3, <3>3 DEF Counts
        <4> QED  BY <3>1, <3>3, <4>1, <4>2, <4>3, <2>1, <2>4
      <3>4. CASE q # p
        <4>1. held'[q][k] = held[q][k]
          BY <2>8, <1>3, <3>4
        <4>2. was = IF q \in DOMAIN usage' THEN usage'[q].slots[k] ELSE 0
          BY <3>4, <2>4, <1>2
        <4> QED  BY <3>1, <4>1, <4>2
      <3> QED  BY <3>2, <3>3, <3>4
    <2> QED  BY <2>10, <2>11, <1>1 DEF SlotsInv, SlotsAccounted
  <1> QED  BY <1>4, <1>5

\* A slot given back is free again, unless its peer was untracked meanwhile.
LEMMA DecrementKeepsAccount ==
    ASSUME SlotsInv, NEW p \in Peers, NEW c \in Kinds, Decrement(p, c) PROVE SlotsInv'
  <1> DEFINE counted == p \in DOMAIN usage /\ usage[p].slots[c] > 0
  <1>1. /\ held[p][c] > 0
        /\ held' = [held EXCEPT ![p][c] = @ - 1]
        /\ usage' = IF counted THEN [usage EXCEPT ![p].slots[c] = @ - 1] ELSE usage
        /\ untracked' = untracked
    BY DEF Decrement
  <1>2. /\ DOMAIN usage \subseteq Peers /\ held \in [Peers -> Counts] /\ untracked \in [Peers -> Counts]
        /\ \A q \in DOMAIN usage : Entry(usage[q])
        /\ MaxSlots \in [Kinds -> Nat]
        /\ SlotsAccounted
    BY AdmissionAssumption DEF SlotsInv, SlotsTyped
  <1>3. \A q \in DOMAIN usage, k \in Kinds : usage[q].slots[k] \in Nat
    BY <1>2 DEF Entry, Counts
  <1>4. /\ held' \in [Peers -> Counts]
        /\ \A q \in Peers, k \in Kinds : held'[q][k] = IF q = p /\ k = c THEN held[p][c] - 1 ELSE held[q][k]
    BY <1>1, <1>2 DEF Counts
  <1>5. /\ DOMAIN usage' = DOMAIN usage
        /\ \A q \in DOMAIN usage : Entry(usage'[q])
        /\ \A q \in DOMAIN usage, k \in Kinds :
             usage'[q].slots[k] = IF counted /\ q = p /\ k = c THEN usage[p].slots[c] - 1 ELSE usage[q].slots[k]
    <2>1. CASE ~counted
      <3>1. usage' = usage
        BY <2>1, <1>1
      <3> QED  BY <3>1, <2>1, <1>2
    <2>2. CASE counted
      <3>1. p \in DOMAIN usage /\ Entry(usage[p]) /\ usage[p].slots \in Counts
        BY <2>2, <1>2 DEF Entry
      <3>2. usage' = [usage EXCEPT ![p].slots[c] = @ - 1]
        BY <2>2, <1>1
      <3>3. DOMAIN usage' = DOMAIN usage /\ \A q \in DOMAIN usage : q # p => usage'[q] = usage[q]
        BY <3>2
      <3>4. usage'[p] = [slots |-> [usage[p].slots EXCEPT ![c] = @ - 1], joins |-> usage[p].joins]
        BY <3>1, <3>2 DEF Entry
      <3>5. [usage[p].slots EXCEPT ![c] = @ - 1] \in Counts
        BY <2>2, <3>1 DEF Counts
      <3>6. Entry(usage'[p])
        BY <3>4, <3>5 DEF Entry
      <3>7. \A k \in Kinds : usage'[p].slots[k] = IF k = c THEN usage[p].slots[c] - 1 ELSE usage[p].slots[k]
        BY <3>1, <3>4 DEF Counts
      <3> QED  BY <3>3, <3>6, <3>7, <2>2, <1>2
    <2> QED  BY <2>1, <2>2
  <1>6. SlotsTyped'
    BY <1>1, <1>2, <1>4, <1>5 DEF SlotsTyped
  <1>7. ASSUME NEW q \in Peers, NEW k \in Kinds
        PROVE  LET n == IF q \in DOMAIN usage' THEN usage'[q].slots[k] ELSE 0
               IN n \in 0 .. MaxSlots[k] /\ n <= held'[q][k] /\ held'[q][k] <= n + untracked[q][k]
    <2> DEFINE was == IF q \in DOMAIN usage THEN usage[q].slots[k] ELSE 0
    <2>1. /\ was \in 0 .. MaxSlots[k] /\ was <= held[q][k] /\ held[q][k] <= was + untracked[q][k]
          /\ held[q][k] \in Nat /\ untracked[q][k] \in Nat /\ MaxSlots[k] \in Nat
      BY <1>2 DEF SlotsAccounted, Counts
    <2> QED  BY <2>1, <1>1, <1>3, <1>4, <1>5
  <1> QED  BY <1>1, <1>6, <1>7 DEF SlotsInv, SlotsAccounted

\* What an untracked peer holds moves out of the count, and is written down.
LEMMA UntrackKeepsAccount ==
    ASSUME SlotsInv, NEW ps \in SUBSET Peers, Untrack(ps) PROVE SlotsInv'
  <1> DEFINE gone == ps \cap DOMAIN usage
  <1>1. /\ usage' = [q \in DOMAIN usage \ gone |-> usage[q]]
        /\ untracked' = [p \in Peers |-> IF p \in gone
                            THEN [c \in Kinds |-> untracked[p][c] + usage[p].slots[c]] ELSE untracked[p]]
        /\ held' = held
    BY DEF Untrack
  <1>2. /\ DOMAIN usage \subseteq Peers /\ held \in [Peers -> Counts] /\ untracked \in [Peers -> Counts]
        /\ \A q \in DOMAIN usage : Entry(usage[q])
        /\ MaxSlots \in [Kinds -> Nat]
        /\ SlotsAccounted
    BY AdmissionAssumption DEF SlotsInv, SlotsTyped
  <1>3. \A q \in DOMAIN usage, k \in Kinds : usage[q].slots[k] \in Nat
    BY <1>2 DEF Entry, Counts
  <1> HIDE DEF gone
  <1>4. \A q \in Peers, k \in Kinds :
          /\ untracked[q][k] \in Nat
          /\ untracked'[q][k] = IF q \in gone THEN untracked[q][k] + usage[q].slots[k] ELSE untracked[q][k]
    BY <1>1, <1>2 DEF Counts
  <1>5. gone \subseteq DOMAIN usage
    BY DEF gone
  <1>6. untracked' \in [Peers -> Counts]
    <2>1. ASSUME NEW p \in Peers
          PROVE  (IF p \in gone THEN [c \in Kinds |-> untracked[p][c] + usage[p].slots[c]]
                                ELSE untracked[p]) \in Counts
      BY <1>2, <1>3, <1>4, <1>5 DEF Counts
    <2> QED  BY <2>1, <1>1
  <1>7. SlotsTyped'
    BY <1>1, <1>2, <1>6 DEF SlotsTyped
  <1>8. ASSUME NEW q \in Peers, NEW k \in Kinds
        PROVE  LET n == IF q \in DOMAIN usage' THEN usage'[q].slots[k] ELSE 0
               IN n \in 0 .. MaxSlots[k] /\ n <= held'[q][k] /\ held'[q][k] <= n + untracked'[q][k]
    <2> DEFINE was == IF q \in DOMAIN usage THEN usage[q].slots[k] ELSE 0
    <2>1. /\ was \in 0 .. MaxSlots[k] /\ was <= held[q][k] /\ held[q][k] <= was + untracked[q][k]
          /\ held[q][k] \in Nat /\ MaxSlots[k] \in Nat
      BY <1>2 DEF SlotsAccounted, Counts
    <2> QED  BY <2>1, <1>1, <1>3, <1>4, <1>5
  <1> QED  BY <1>7, <1>8 DEF SlotsInv, SlotsAccounted

\* The limits count from nothing.
LEMMA SlotsInitInv == AdmissionInit => SlotsInv
  BY AdmissionAssumption DEF AdmissionInit, SlotsInv, SlotsTyped, SlotsAccounted, Counts

\* Every step keeps the account.
LEMMA SlotsStepInv == SlotsInv /\ [AdmissionNext]_admissionVars => SlotsInv'
  <1> SUFFICES ASSUME SlotsInv, [AdmissionNext]_admissionVars PROVE SlotsInv'
    OBVIOUS
  <1>1. ASSUME UNCHANGED peerVars PROVE SlotsInv'
    <2>1. usage' = usage /\ held' = held /\ untracked' = untracked
      BY <1>1 DEF peerVars
    <2> QED  BY <2>1 DEF SlotsInv, SlotsTyped, SlotsAccounted
  <1>2. ASSUME NEW p \in Peers, NEW name \in RoomNames, NEW count \in 0 .. MaxPeersPerRoom,
               AssertJoinAllowed(p, name, count)
        PROVE  SlotsInv'
    <2>1. held' = held /\ untracked' = untracked
      BY <1>2 DEF AssertJoinAllowed
    <2>2. CASE RecordJoinAttempt(p)
      BY <2>1, <2>2, JoinAttemptKeepsAccount
    <2>3. CASE usage' = usage
      BY <2>1, <2>3 DEF SlotsInv, SlotsTyped, SlotsAccounted
    <2> QED  BY <1>2, <2>2, <2>3 DEF AssertJoinAllowed
  <1>3. ASSUME NEW p \in Peers, Untrack({p}) PROVE SlotsInv'
    <2>1. {p} \in SUBSET Peers
      OBVIOUS
    <2> QED  BY <1>3, <2>1, UntrackKeepsAccount
  <1>4. ASSUME Untrack(Peers) PROVE SlotsInv'
    <2>1. Peers \in SUBSET Peers
      OBVIOUS
    <2> QED  BY <1>4, <2>1, UntrackKeepsAccount
  <1>5. CASE QuotaNext
    BY <1>1, <1>5 DEF QuotaNext
  <1>6. CASE PeerNext
    BY <1>1, <1>2, <1>3, <1>4, <1>6, TrackPeerKeepsAccount, IncrementKeepsAccount, DecrementKeepsAccount
       DEF PeerNext
  <1>7. CASE UNCHANGED admissionVars
    BY <1>1, <1>7 DEF admissionVars
  <1> QED  BY <1>5, <1>6, <1>7 DEF AdmissionNext

-----------------------------------------------------------------------------
(* Join attempts. *)

Kept(p) == IF p \in DOMAIN usage THEN usage[p].joins ELSE {}

\* What is kept of a peer's attempts are some of them, and at least those of
\* the last minute.
JoinsKept ==
    /\ now \in Nat
    /\ DOMAIN attempts = Peers
    /\ \A p \in Peers : /\ IsFiniteSet(attempts[p]) /\ \A j \in attempts[p] : j.at \in Nat
                        /\ Kept(p) \subseteq attempts[p]
                        /\ LastMinute(attempts[p]) \subseteq Kept(p)

\* Where nothing is recorded, time can only make what is kept more than needed.
LEMMA SameJoinsStayKept ==
    ASSUME JoinsKept, attempts' = attempts, now' \in Nat, now' >= now,
           \A p \in Peers : Kept(p)' = Kept(p)
    PROVE  JoinsKept'
  <1>1. ASSUME NEW p \in Peers PROVE LastMinute(attempts[p])' \subseteq LastMinute(attempts[p])
    <2>1. \A j \in attempts[p] : j.at \in Nat /\ now \in Nat /\ JoinWindow \in Nat
      BY AdmissionAssumption DEF JoinsKept
    <2>2. \A j \in attempts[p] : j.at + JoinWindow > now' => j.at + JoinWindow > now
      BY <2>1
    <2> QED  BY <2>2 DEF LastMinute
  <1>2. ASSUME NEW p \in Peers PROVE LastMinute(attempts[p])' \subseteq Kept(p)'
    <2>1. LastMinute(attempts[p]) \subseteq Kept(p)
      BY DEF JoinsKept
    <2>2. Kept(p)' = Kept(p)
      OBVIOUS
    <2> QED  BY <1>1, <2>1, <2>2
  <1>3. ASSUME NEW p \in Peers PROVE Kept(p)' \subseteq attempts[p]
    BY DEF JoinsKept
  <1> QED  BY <1>2, <1>3 DEF JoinsKept

\* An entry that is new has no attempts.
LEMMA TrackingKeepsJoins ==
    ASSUME NEW p
    PROVE  Tracked(p)[p].joins = Kept(p) /\ \A q \in DOMAIN usage : Tracked(p)[q] = usage[q]
  BY DEF Tracked, Kept, NoUsage

\* An attempt joins those of the last minute, let in or refused.
LEMMA AttemptIsKept ==
    ASSUME SlotsInv, JoinsKept, NEW p \in Peers, RecordJoinAttempt(p), now' = now
    PROVE  JoinsKept'
  <1> DEFINE join == [at |-> now, n |-> Cardinality(attempts[p])]
             joins == LastMinute(Tracked(p)[p].joins) \cup {join}
  <1>1. /\ usage' = [Tracked(p) EXCEPT ![p].joins = joins]
        /\ attempts' = [attempts EXCEPT ![p] = @ \cup {join}]
    BY DEF RecordJoinAttempt
  <1>2. join.at = now /\ now \in Nat
    BY DEF JoinsKept
  <1>3. joins = LastMinute(Kept(p)) \cup {join}
    BY TrackingKeepsJoins
  <1>4. /\ DOMAIN Tracked(p) = DOMAIN usage \cup {p}
        /\ \A q \in DOMAIN Tracked(p) : Entry(Tracked(p)[q])
        /\ \A q \in DOMAIN usage : Tracked(p)[q] = usage[q]
    BY TrackingCountsNothing
  <1> HIDE DEF join, joins
  <1>5. Kept(p)' = joins
    <2>1. p \in DOMAIN usage' /\ usage'[p] = [Tracked(p)[p] EXCEPT !.joins = joins]
      BY <1>1, <1>4
    <2>2. Tracked(p)[p] = [slots |-> Tracked(p)[p].slots, joins |-> Tracked(p)[p].joins]
      BY <1>4 DEF Entry
    <2>3. usage'[p].joins = joins
      BY <2>1, <2>2
    <2> QED  BY <2>1, <2>3 DEF Kept
  <1>6. \A q \in Peers \ {p} : Kept(q)' = Kept(q)
    BY <1>1, <1>4 DEF Kept
  <1>7. \A q \in Peers : attempts'[q] = IF q = p THEN attempts[p] \cup {join} ELSE attempts[q]
    BY <1>1 DEF JoinsKept
  <1>8. ASSUME NEW q \in Peers PROVE IsFiniteSet(attempts'[q]) /\ \A j \in attempts'[q] : j.at \in Nat
    BY <1>2, <1>7, FS_AddElement DEF JoinsKept
  <1>9. ASSUME NEW q \in Peers PROVE Kept(q)' \subseteq attempts'[q]
    <2>1. CASE q = p
      BY <2>1, <1>3, <1>5, <1>7 DEF JoinsKept, LastMinute
    <2>2. CASE q # p
      BY <2>2, <1>6, <1>7 DEF JoinsKept
    <2> QED  BY <2>1, <2>2
  <1>10. ASSUME NEW q \in Peers PROVE LastMinute(attempts[q])' \subseteq Kept(q)'
    <2>1. LastMinute(attempts[q])' = {j \in attempts'[q] : j.at + JoinWindow > now}
      BY DEF LastMinute
    <2>2. CASE q = p
      <3> SUFFICES ASSUME NEW j \in attempts'[p], j.at + JoinWindow > now PROVE j \in joins
        BY <2>1, <2>2, <1>5
      <3>1. j = join \/ j \in LastMinute(attempts[p])
        BY <1>7 DEF LastMinute
      <3>2. j \in LastMinute(attempts[p]) => j \in LastMinute(Kept(p))
        BY DEF JoinsKept, LastMinute
      <3> QED  BY <3>1, <3>2, <1>3
    <2>3. CASE q # p
      BY <2>1, <2>3, <1>6, <1>7 DEF JoinsKept, LastMinute
    <2> QED  BY <2>2, <2>3
  <1>11. DOMAIN attempts' = Peers
    BY <1>1 DEF JoinsKept
  <1> QED  BY <1>2, <1>8, <1>9, <1>10, <1>11 DEF JoinsKept

\* Tracking a peer and taking or giving back slots records no attempt.
LEMMA SlotsKeepJoins ==
    ASSUME SlotsInv, NEW p \in Peers,
           TrackPeer(p) \/ \E c \in Kinds : Increment(p, c) \/ Decrement(p, c)
    PROVE  attempts' = attempts /\ \A q \in Peers : Kept(q)' = Kept(q)
  <1>1. /\ DOMAIN Tracked(p) = DOMAIN usage \cup {p}
        /\ \A q \in DOMAIN Tracked(p) : Entry(Tracked(p)[q])
        /\ \A q \in DOMAIN usage : Tracked(p)[q] = usage[q] /\ Entry(usage[q])
        /\ Tracked(p)[p].joins = Kept(p)
    BY TrackingCountsNothing, TrackingKeepsJoins DEF SlotsInv, SlotsTyped
  <1>2. ASSUME usage' = Tracked(p) PROVE \A q \in Peers : Kept(q)' = Kept(q)
    BY <1>1, <1>2 DEF Kept
  <1>3. ASSUME usage' = usage PROVE \A q \in Peers : Kept(q)' = Kept(q)
    BY <1>3 DEF Kept
  <1>4. ASSUME NEW before, before \in {Tracked(p), usage}, p \in DOMAIN before, NEW slots,
               usage' = [before EXCEPT ![p].slots = slots]
        PROVE  \A q \in Peers : Kept(q)' = Kept(q)
    <2>1. DOMAIN usage' = DOMAIN before /\ DOMAIN before = DOMAIN usage \cup {p}
      BY <1>1, <1>4
    <2>2. \A q \in DOMAIN before : before[q] = [slots |-> before[q].slots, joins |-> before[q].joins]
      BY <1>1, <1>4 DEF Entry
    <2>3. \A q \in DOMAIN before : usage'[q].joins = before[q].joins
      BY <1>4, <2>2
    <2>4. \A q \in DOMAIN before : before[q].joins = Kept(q)
      BY <1>1, <1>4 DEF Kept
    <2> QED  BY <2>1, <2>3, <2>4 DEF Kept
  <1>5. ASSUME NEW c \in Kinds, Increment(p, c) PROVE attempts' = attempts /\ \A q \in Peers : Kept(q)' = Kept(q)
    <2>1. \/ usage' = Tracked(p)
          \/ usage' = [Tracked(p) EXCEPT ![p].slots = [Tracked(p)[p].slots EXCEPT ![c] = @ + 1]]
      BY <1>5 DEF Increment
    <2>2. p \in DOMAIN Tracked(p)
      BY <1>1
    <2> QED  BY <1>2, <1>4, <1>5, <2>1, <2>2 DEF Increment
  <1>6. ASSUME NEW c \in Kinds, Decrement(p, c) PROVE attempts' = attempts /\ \A q \in Peers : Kept(q)' = Kept(q)
    <2>1. \/ usage' = usage
          \/ p \in DOMAIN usage /\ usage' = [usage EXCEPT ![p].slots = [usage[p].slots EXCEPT ![c] = @ - 1]]
      BY <1>6 DEF Decrement
    <2> QED  BY <1>3, <1>4, <1>6, <2>1 DEF Decrement
  <1> QED  BY <1>2, <1>5, <1>6 DEF TrackPeer

\* A peer that is untracked starts again from nothing.
LEMMA UntrackForgetsJoins ==
    ASSUME JoinsKept, NEW ps \in SUBSET Peers, Untrack(ps), now' = now
    PROVE  JoinsKept'
  <1>1. \A p \in Peers : attempts'[p] = IF p \in ps \cap DOMAIN usage THEN {} ELSE attempts[p]
    BY DEF Untrack
  <1>2. \A p \in Peers : Kept(p)' = IF p \in ps \cap DOMAIN usage THEN {} ELSE Kept(p)
    BY DEF Untrack, Kept
  <1>3. DOMAIN attempts' = Peers
    BY DEF Untrack
  <1>4. ASSUME NEW p \in Peers
        PROVE  /\ IsFiniteSet(attempts'[p]) /\ \A j \in attempts'[p] : j.at \in Nat
               /\ Kept(p)' \subseteq attempts'[p]
    BY <1>1, <1>2, FS_EmptySet DEF JoinsKept
  <1>5. ASSUME NEW p \in Peers PROVE LastMinute(attempts[p])' \subseteq Kept(p)'
    <2>1. LastMinute(attempts[p])' = {j \in attempts'[p] : j.at + JoinWindow > now}
      BY DEF LastMinute
    <2> QED  BY <2>1, <1>1, <1>2 DEF JoinsKept, LastMinute
  <1> QED  BY <1>3, <1>4, <1>5 DEF JoinsKept

\* The clock does not run backwards.
LEMMA ClockAdvances ==
    ASSUME now \in Nat, [AdmissionNext]_admissionVars
    PROVE  now' \in Nat /\ now' >= now /\ (now' # now => attempts' = attempts /\ usage' = usage)
  <1>1. \/ UNCHANGED <<now, peerVars>>
        \/ \E t \in 1 .. MaxNow : Tick(t) /\ UNCHANGED peerVars
        \/ UNCHANGED quotaVars
    BY DEF AdmissionNext, QuotaNext, PeerNext, GlobalCheck, AddressCheck, CheckRateLimit, ResetRateLimits,
       Check, Reset, Prune, admissionVars, quotaVars
  <1>2. CASE UNCHANGED <<now, peerVars>>
    BY <1>2
  <1>3. CASE UNCHANGED quotaVars
    BY <1>3 DEF quotaVars, limiterVars
  <1>4. ASSUME NEW t \in 1 .. MaxNow, Tick(t), UNCHANGED peerVars
        PROVE  now' \in Nat /\ now' >= now /\ attempts' = attempts /\ usage' = usage
    <2>1. now' = t /\ t > now
      BY <1>4 DEF Tick
    <2> QED  BY <2>1, <1>4 DEF peerVars
  <1> QED  BY <1>1, <1>2, <1>3, <1>4

\* Every step keeps the attempts that count.
LEMMA JoinsStepInv ==
    ASSUME SlotsInv, JoinsKept, [AdmissionNext]_admissionVars
    PROVE  JoinsKept'
  <1>1. now' \in Nat /\ now' >= now /\ (now' # now => attempts' = attempts /\ usage' = usage)
    BY ClockAdvances DEF JoinsKept
  <1>2. CASE attempts' = attempts /\ \A p \in Peers : Kept(p)' = Kept(p)
    BY <1>1, <1>2, SameJoinsStayKept
  <1>3. CASE attempts' = attempts /\ usage' = usage
    BY <1>2, <1>3 DEF Kept
  <1>4. ASSUME NEW p \in Peers, RecordJoinAttempt(p), now' = now PROVE JoinsKept'
    BY <1>4, AttemptIsKept
  <1>5. ASSUME NEW p \in Peers, TrackPeer(p) \/ \E c \in Kinds : Increment(p, c) \/ Decrement(p, c)
        PROVE  JoinsKept'
    BY <1>2, <1>5, SlotsKeepJoins
  <1>6. ASSUME NEW ps \in SUBSET Peers, Untrack(ps), now' = now PROVE JoinsKept'
    BY <1>6, UntrackForgetsJoins
  <1>7. ASSUME NEW p \in Peers, Untrack({p}), now' = now PROVE JoinsKept'
    <2>1. {p} \in SUBSET Peers
      OBVIOUS
    <2> QED  BY <1>6, <1>7, <2>1
  <1>8. ASSUME Untrack(Peers), now' = now PROVE JoinsKept'
    <2>1. Peers \in SUBSET Peers
      OBVIOUS
    <2> QED  BY <1>6, <1>8, <2>1
  <1>9. \/ attempts' = attempts /\ usage' = usage
        \/ \E p \in Peers : RecordJoinAttempt(p) /\ now' = now
        \/ \E p \in Peers : TrackPeer(p) \/ \E c \in Kinds : Increment(p, c) \/ Decrement(p, c)
        \/ \E p \in Peers : Untrack({p}) /\ now' = now
        \/ Untrack(Peers) /\ now' = now
    <2>1. CASE QuotaNext \/ UNCHANGED admissionVars
      BY <2>1 DEF QuotaNext, admissionVars, peerVars
    <2>2. CASE PeerNext
      <3>1. CASE \E t \in 1 .. MaxNow : Tick(t) /\ UNCHANGED <<requests, peerVars>>
        BY <3>1 DEF peerVars
      <3>2. CASE UNCHANGED quotaVars
        <4>1. now' = now
          BY <3>2 DEF quotaVars, limiterVars
        <4> QED  BY <2>2, <3>1, <4>1 DEF PeerNext, AssertJoinAllowed
      <3> QED  BY <2>2, <3>1, <3>2 DEF PeerNext
    <2> QED  BY <2>1, <2>2 DEF AdmissionNext
  <1> QED  BY <1>3, <1>4, <1>5, <1>7, <1>8, <1>9

\* Both halves of the account.
LEMMA LimitsInvariance == AdmissionSpec => [](SlotsInv /\ JoinsKept)
  <1>1. AdmissionInit => JoinsKept
    <2> SUFFICES ASSUME AdmissionInit PROVE JoinsKept
      OBVIOUS
    <2>1. now \in Nat /\ usage = <<>> /\ attempts = [p \in Peers |-> {}]
      BY DEF AdmissionInit, LimiterInit
    <2>2. \A p \in Peers : Kept(p) = {}
      BY <2>1 DEF Kept
    <2>3. \A p \in Peers : LastMinute(attempts[p]) = {}
      BY <2>1 DEF LastMinute
    <2> QED  BY <2>1, <2>2, <2>3, FS_EmptySet DEF JoinsKept
  <1>2. SlotsInv /\ JoinsKept /\ [AdmissionNext]_admissionVars => JoinsKept'
    BY JoinsStepInv
  <1> QED  BY <1>1, <1>2, SlotsInitInv, SlotsStepInv, PTL DEF AdmissionSpec

\* PeerLimits grants slots and lets in attempts exactly as far as its limits
\* go, for any number of peers, any limits and any length of the minute, and
\* whatever peers are tracked, untracked and tracked again: an attempt counts
\* for a minute, refused or not, and forgetting old ones lets nobody in early.
THEOREM LimitsAreExact == AdmissionSpec => []PeerLimitsExact
  <1>1. SlotsInv /\ JoinsKept => PeerLimitsExact
    <2> SUFFICES ASSUME SlotsInv, JoinsKept, NEW p \in Peers
                 PROVE  JoinAllowed(p) <=> Cardinality(LastMinute(attempts[p])) < MaxJoins
      BY DEF SlotsInv, PeerLimitsExact, JoinsExact
    <2>1. LastMinute(Kept(p)) = LastMinute(attempts[p])
      BY DEF JoinsKept, LastMinute
    <2>2. JoinAllowed(p) <=> Cardinality(LastMinute(attempts[p])) + 1 <= MaxJoins
      BY <2>1, TrackingKeepsJoins DEF JoinAllowed
    <2>3. IsFiniteSet(LastMinute(attempts[p]))
      BY FS_Subset DEF JoinsKept, LastMinute
    <2>4. Cardinality(LastMinute(attempts[p])) \in Nat /\ MaxJoins \in Nat
      BY <2>3, FS_CardinalityType, AdmissionAssumption
    <2> QED  BY <2>2, <2>4
  <1> QED  BY <1>1, LimitsInvariance, PTL

-----------------------------------------------------------------------------
(* Tokens. *)

\* Every token was issued on a clock that was off by no more than the skew.
IssuedWithinSkew ==
    /\ seconds \in Int
    /\ \A t \in tokens :
         /\ {t.iat, t.exp, t.born} \subseteq Int
         /\ t.born <= seconds
         /\ t.born - Skew <= t.iat /\ t.iat <= t.born + Skew

\* What a request with a token passed on: the token's own context, room and
\* permissions.
PassedOnToken ==
    served.passed =>
        \/ served.token = Nobody /\ served.optional
        \/ /\ served.auth = ContextOf(served.token)
           /\ served.token.room = served.room
           /\ HasPermission(served.token.permissions, served.action)

AuthInv == IssuedWithinSkew /\ PassedOnToken

-----------------------------------------------------------------------------
\* At the start there are no tokens.
LEMMA AuthInitInv == AuthInit => AuthInv
  BY AuthAssumption DEF AuthInit, AuthInv, IssuedWithinSkew, PassedOnToken

\* A token that is issued now was born now, with the clock of its host.
LEMMA IssueInv ==
  ASSUME AuthInv, NEW secret \in Secrets, NEW room \in RoomIds, NEW permissions \in Grants,
         NEW ttl \in Ttls, NEW offset \in -Skew .. Skew, IssueToken(secret, room, permissions, ttl, offset)
  PROVE  AuthInv'
<1> DEFINE new == [room |-> Trim[room], permissions |-> permissions, secret |-> secret,
                   iat |-> seconds + offset, exp |-> seconds + offset + ttl, born |-> seconds]
<1>1. tokens' = tokens \cup {new} /\ seconds' = seconds /\ served' = served
  BY DEF IssueToken
<1>2. /\ seconds \in Int /\ offset \in Int /\ ttl \in Int /\ Skew \in Int
      /\ -Skew <= offset /\ offset <= Skew
  BY AuthAssumption DEF AuthInv, IssuedWithinSkew
<1>3. new.iat = seconds + offset /\ new.exp = seconds + offset + ttl /\ new.born = seconds
  OBVIOUS
<1>4. IssuedWithinSkew'
  BY <1>1, <1>2, <1>3 DEF AuthInv, IssuedWithinSkew
<1>5. PassedOnToken'
  BY <1>1 DEF AuthInv, PassedOnToken
<1> QED BY <1>4, <1>5 DEF AuthInv

\* The guarded route lets through what it checked.
LEMMA ServeInv ==
  ASSUME AuthInv, NEW t, NEW room, NEW required, NEW optional \in BOOLEAN, Serve(t, room, required, optional)
  PROVE  AuthInv'
<1>1. /\ served'.token = t /\ served'.room = room /\ served'.action = required /\ served'.optional = optional
      /\ served'.passed =>
           \/ t = Nobody /\ optional
           \/ /\ t # Nobody /\ Validate(t) = "valid"
              /\ t.room = room /\ HasPermission(t.permissions, required)
      /\ t # Nobody /\ Validate(t) = "valid" => served'.auth = ContextOf(t)
  BY DEF Serve
<1>2. PassedOnToken'
  BY <1>1 DEF PassedOnToken, ContextOf, HasPermission
<1>3. IssuedWithinSkew'
  BY DEF AuthInv, IssuedWithinSkew, Serve
<1> QED BY <1>2, <1>3 DEF AuthInv

\* Every step keeps the invariant.
LEMMA AuthStepInv == AuthInv /\ [AuthNext]_authVars => AuthInv'
<1> SUFFICES ASSUME AuthInv, [AuthNext]_authVars PROVE AuthInv'
  OBVIOUS
<1>1. ASSUME NEW secret \in Secrets, NEW room \in RoomIds, NEW permissions \in Grants,
             NEW ttl \in Ttls, NEW offset \in -Skew .. Skew, IssueToken(secret, room, permissions, ttl, offset)
      PROVE AuthInv'
  BY <1>1, IssueInv
<1>2. ASSUME NEW t \in tokens \cup {Nobody}, NEW room \in RoomIds, NEW required \in Actions,
             NEW optional \in BOOLEAN, Serve(t, room, required, optional)
      PROVE AuthInv'
  BY <1>2, ServeInv
<1>3. ASSUME NEW s \in Start .. MaxSecond, PassSecond(s) PROVE AuthInv'
  BY <1>3, AuthAssumption DEF PassSecond, AuthInv, IssuedWithinSkew, PassedOnToken, ContextOf, HasPermission
<1>4. CASE UNCHANGED authVars
  BY <1>4 DEF authVars, AuthInv, IssuedWithinSkew, PassedOnToken, ContextOf, HasPermission
<1> QED BY <1>1, <1>2, <1>3, <1>4 DEF AuthNext

-----------------------------------------------------------------------------
\* The invariant of the issued tokens and of the last request.
THEOREM AuthInvariance == AuthSpec => []AuthInv
  BY AuthInitInv, AuthStepInv, PTL DEF AuthSpec

\* A token is good for its lifetime on every host within the skew, and not for
\* longer than twice the skew after that.
THEOREM TokensLiveTheirLifetime == AuthSpec => []UsableForItsLifetime
<1>1. AuthInv => UsableForItsLifetime
  <2>1. SUFFICES ASSUME AuthInv, NEW t \in tokens
                 PROVE LET ends == t.born + (t.exp - t.iat)
                       IN /\ t.secret = Secret /\ seconds <= ends => Validate(t) = "valid"
                          /\ Validate(t) = "valid" => t.secret = Secret /\ seconds <= ends + 2 * Skew
    BY DEF UsableForItsLifetime
  <2>2. /\ seconds \in Int /\ t.iat \in Int /\ t.exp \in Int /\ t.born \in Int /\ Skew \in Nat
        /\ t.born <= seconds /\ t.born - Skew <= t.iat /\ t.iat <= t.born + Skew
    BY <2>1, AuthAssumption DEF AuthInv, IssuedWithinSkew
  <2>3. Validate(t) = "valid" <=> t.secret = Secret /\ ~IsNotYetValid(t) /\ ~IsExpired(t)
    BY DEF Validate
  <2>4. ~IsNotYetValid(t)
    BY <2>2 DEF IsNotYetValid
  <2>5. seconds <= t.born + (t.exp - t.iat) => ~IsExpired(t)
    BY <2>2 DEF IsExpired
  <2>6. ~IsExpired(t) => seconds <= t.born + (t.exp - t.iat) + 2 * Skew
    BY <2>2 DEF IsExpired
  <2> QED BY <2>3, <2>4, <2>5, <2>6
<1> QED BY <1>1, AuthInvariance, PTL

\* The route, the validator and the policy agree about every token, in rooms
\* that take anybody at all.
THEOREM JudgesAgree ==
  ASSUME 0 < Capacity
  PROVE  AuthSpec => []ChecksAgree
<1>1. AuthInv => ChecksAgree
  <2>1. SUFFICES ASSUME AuthInv, NEW t \in tokens \cup {Nobody}, NEW room \in RoomIds, NEW required \in Actions
                 PROVE /\ t # Nobody /\ Validate(t) = "valid" /\ Trim[room] \in WellFormed =>
                            (t # Nobody /\ ValidForRoom(t, room, required)
                               <=> Evaluate(required, ResolveAuthContext(t), room, 0))
                       /\ served.token = t /\ served.room = room /\ served.action = required
                            /\ served.auth = ResolveAuthContext(t) /\ served.passed =>
                              (t # Nobody /\ ValidForRoom(t, room, required)) \/ (served.optional /\ t = Nobody)
    BY DEF ChecksAgree
  <2>2. ASSUME t # Nobody, Validate(t) = "valid", Trim[room] \in WellFormed
        PROVE ValidForRoom(t, room, required) <=> Evaluate(required, ResolveAuthContext(t), room, 0)
    <3>1. ResolveAuthContext(t) = ContextOf(t)
      BY <2>2 DEF ResolveAuthContext
    <3>2. /\ ContextOf(t).authenticated /\ ContextOf(t).room = t.room
          /\ ContextOf(t).permissions = t.permissions
      BY DEF ContextOf
    <3> QED BY <2>2, <3>1, <3>2 DEF ValidForRoom, Evaluate, RoomIdValid, ActionPermitted
  <2>3. ASSUME served.token = t, served.room = room, served.action = required,
               served.auth = ResolveAuthContext(t), served.passed, ~(served.optional /\ t = Nobody)
        PROVE t # Nobody /\ ValidForRoom(t, room, required)
    <3>1. served.auth = ContextOf(t) /\ t.room = room /\ HasPermission(t.permissions, required)
      BY <2>1, <2>3 DEF AuthInv, PassedOnToken
    <3>2. ContextOf(t) # Anonymous
      BY DEF ContextOf, Anonymous
    <3>3. t # Nobody /\ Validate(t) = "valid"
      BY <2>3, <3>1, <3>2 DEF ResolveAuthContext
    <3> QED BY <3>1, <3>3 DEF ValidForRoom
  <2> QED BY <2>2, <2>3
<1> QED BY <1>1, AuthInvariance, PTL
=============================================================================
