----------------------------- MODULE RateLimiter -----------------------------
(***************************************************************************)
(* SlidingWindowRateLimiter and the MultiRateLimiter that routes to one    *)
(* per namespace (apps/core/src/policy): the buckets with the timestamps   *)
(* that are still kept, and what check, peek, reset and prune do to them.  *)
(* A timestamp carries a serial number n, its place in the array.  The     *)
(* clock, Date.now() at the call, does not run backwards.                  *)
(***************************************************************************)
EXTENDS Naturals, FiniteSets

CONSTANTS Keys,          \* namespace and identifier of a bucket
          WindowMs,      \* key -> config.windowMs
          MaxRequests,   \* key -> config.maxRequests
          None,          \* no answer yet
          MaxNow,        \* bound: the last instant
          MaxSerial      \* bound: admitted requests in a behaviour

\* The constructor throws on a window or a maximum that is not positive.
ASSUME LimiterAssumption ==
    /\ WindowMs \in [Keys -> Nat \ {0}]
    /\ MaxRequests \in [Keys -> Nat \ {0}]
    /\ MaxNow \in Nat
    /\ MaxSerial \in Nat

VARIABLES now,       \* Date.now()
          buckets,   \* keys of SlidingWindowRateLimiter.windows
          stamps,    \* key -> timestamps kept; {} when there is no bucket
          serial,    \* timestamps pushed so far
          admitted,  \* history: key -> every timestamp pushed since the last reset
          verdict    \* history: the last answer of check, [key, allowed]

limiterVars == <<now, buckets, stamps, serial, admitted, verdict>>

Stamp == [at : Nat, n : Nat]

\* Types; the Map holds a bucket exactly for the keys with stamps.
LimiterTypeOK ==
    /\ now \in 0 .. MaxNow
    /\ stamps \in [Keys -> SUBSET Stamp]
    /\ serial \in Nat
    /\ admitted \in [Keys -> SUBSET Stamp]
    /\ verdict \in [key : Keys, allowed : BOOLEAN] \cup {None}
    /\ buckets = {k \in Keys : stamps[k] # {}}

LimiterInit ==
    /\ now = 0
    /\ buckets = {}
    /\ stamps = [k \in Keys |-> {}]
    /\ serial = 0
    /\ admitted = [k \in Keys |-> {}]
    /\ verdict = None

-----------------------------------------------------------------------------
\* Mutant: a request counts for the whole millisecond that its window ends in.
ActiveInclusive(k, t) == {a \in stamps[k] : a.at + WindowMs[k] >= t}

\* entry.timestamps.filter((timestamp) => timestamp > now - windowMs)
Active(k, t) == {a \in stamps[k] : a.at + WindowMs[k] > t}

\* SlidingWindowRateLimiter.check
Check(k) ==
    LET kept == Active(k, now)
        stamp == [at |-> now, n |-> serial]
        allowed == Cardinality(kept) < MaxRequests[k]
    IN /\ serial < MaxSerial
       /\ stamps' = [stamps EXCEPT ![k] = IF allowed THEN kept \cup {stamp} ELSE kept]
       /\ serial' = IF allowed THEN serial + 1 ELSE serial
       /\ admitted' = IF allowed THEN [admitted EXCEPT ![k] = @ \cup {stamp}] ELSE admitted
       /\ buckets' = buckets \cup {k}
       /\ verdict' = [key |-> k, allowed |-> allowed]
       /\ UNCHANGED now

\* SlidingWindowRateLimiter.reset of one key, and resetAll.
Reset(ks) ==
    /\ buckets' = buckets \ ks
    /\ stamps' = [k \in Keys |-> IF k \in ks THEN {} ELSE stamps[k]]
    /\ admitted' = [k \in Keys |-> IF k \in ks THEN {} ELSE admitted[k]]
    /\ verdict' = None
    /\ UNCHANGED <<now, serial>>

\* SlidingWindowRateLimiter.prune
Prune ==
    /\ stamps' = [k \in Keys |-> Active(k, now)]
    /\ buckets' = {k \in buckets : Active(k, now) # {}}
    /\ UNCHANGED <<now, serial, admitted, verdict>>

Tick(t) == /\ t > now
           /\ now' = t
           /\ UNCHANGED <<buckets, stamps, serial, admitted, verdict>>

LimiterNext == \/ \E k \in Keys : Check(k) \/ Reset({k})
               \/ Reset(Keys)
               \/ Prune
               \/ \E t \in 1 .. MaxNow : Tick(t)

LimiterSpec == LimiterInit /\ [][LimiterNext]_limiterVars

-----------------------------------------------------------------------------
(* What peek reports, and check with a denial. *)

\* Mutant: the newest stamp is taken for the oldest.
ResetAtNewest(k, t) ==
    LET active == Active(k, t)
        newest == CHOOSE a \in active : \A b \in active : a.n >= b.n
    IN (IF active = {} THEN t ELSE newest.at) + WindowMs[k]

\* resetAt and allowed of SlidingWindowRateLimiter.peek(key, t).
ResetAt(k, t) ==
    LET active == Active(k, t)
        oldest == CHOOSE a \in active : \A b \in active : a.n <= b.n
    IN (IF active = {} THEN t ELSE oldest.at) + WindowMs[k]
PeekAllowed(k, t) == Cardinality(Active(k, t)) < MaxRequests[k]

-----------------------------------------------------------------------------
\* The requests admitted in the window that ends at t.
AdmittedWithin(k, t) == {a \in admitted[k] : a.at <= t /\ t < a.at + WindowMs[k]}

\* No window of windowMs, wherever it ends, holds more admitted requests than
\* the maximum: pruning and filtering never make room that is not there.
WindowBound == \A k \in Keys, t \in 0 .. MaxNow : Cardinality(AdmittedWithin(k, t)) <= MaxRequests[k]

\* A client that is refused and retries when resetAt says, alone on its key,
\* gets in then and not a millisecond earlier.
RetryAfterExact ==
    \A k \in Keys : ~PeekAllowed(k, now) =>
        /\ PeekAllowed(k, ResetAt(k, now))
        /\ \A t \in now .. ResetAt(k, now) - 1 : ~PeekAllowed(k, t)

Contract == INSTANCE RateContract WITH Instants <- 1 .. MaxNow, Serials <- 0 .. MaxSerial

\* The limiter implements the contract: what it forgets never counts again.
ContractSpec == Contract!Spec
=============================================================================
