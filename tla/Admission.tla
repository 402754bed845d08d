------------------------------ MODULE Admission ------------------------------
(***************************************************************************)
(* PolicyService, RoomPolicy, PeerLimits and the rate-limit middleware     *)
(* (apps/core/src/policy): what one HTTP request pays at the two limiters  *)
(* of RateLimiter, which slots a peer may take, and which join attempts    *)
(* are let in.  The middleware awaits between its two checks, so requests  *)
(* interleave there.                                                       *)
(***************************************************************************)
EXTENDS RateLimiter, Integers

CONSTANTS Global,        \* the key of namespace "global"; the others are addresses
          Peers,         \* peer identifiers
          Kinds,         \* transports, producers, consumers
          MaxSlots,      \* kind -> config.max...PerPeer
          JoinWindow,    \* 60_000
          MaxJoins,      \* config.maxJoinAttemptsPerMinute
          MaxPeersPerRoom, \* RoomPolicyConfig.maxPeersPerRoom
          NameLengths,   \* lengths of a room name the bound tells apart
          MaxNameLength, \* config.maxRoomNameLength
          Forgotten,     \* what a request paid before the limiters were reset
          MaxCalls       \* bound: slots taken and given back, attempts recorded

ASSUME AdmissionAssumption ==
    /\ Global \in Keys
    /\ None \notin Nat /\ Forgotten \notin Nat /\ None # Forgotten
    /\ MaxSlots \in [Kinds -> Nat]
    /\ JoinWindow \in Nat \ {0}
    /\ MaxJoins \in Nat

VARIABLES requests,  \* history: requests a limiter admitted, with what they paid at each
          usage,     \* PeerLimits.usage: peer -> what is counted; no entry when untracked
          held,      \* history: peer -> kind -> slots granted and not given back
          untracked, \* history: peer -> kind -> slots in use when the peer was untracked
          attempts,  \* history: peer -> all its recorded attempts since then
          calls      \* calls of PeerLimits so far

quotaVars == <<limiterVars, requests>>
peerVars == <<usage, held, untracked, attempts, calls>>
admissionVars == <<quotaVars, peerVars>>

AdmissionInit ==
    /\ LimiterInit
    /\ requests = {}
    /\ usage = <<>>
    /\ held = [p \in Peers |-> [c \in Kinds |-> 0]]
    /\ untracked = [p \in Peers |-> [c \in Kinds |-> 0]]
    /\ attempts = [p \in Peers |-> {}]
    /\ calls = 0

-----------------------------------------------------------------------------
(* The middleware. *)

Addresses == Keys \ {Global}

\* A request to address a that was admitted by the limiter of k, as number n.
Admitted(a, step, k, n) ==
    [n |-> n, address |-> a, step |-> step,
     global |-> IF k = Global THEN n ELSE None, ip |-> IF k = Global THEN None ELSE n]

\* Mutant: the address is checked although the reply was already sent.
GlobalCheckNotSent(a) ==
    /\ Check(Global)
    /\ requests' = requests \cup
         {[Admitted(a, "checking", Global, serial) EXCEPT !.global = IF verdict'.allowed THEN serial ELSE None]}

\* createCombinedRateLimitMiddleware up to its second await: the global limiter
\* first, and a refused request has its 429 and stops.
GlobalCheck(a) ==
    /\ Check(Global)
    /\ requests' = IF verdict'.allowed THEN requests \cup {Admitted(a, "checking", Global, serial)}
                                       ELSE requests

\* The rest: the limiter of the address decides.  What the request paid at the
\* global limiter stays paid when it is refused.
AddressCheck(r) ==
    LET answer == IF verdict'.allowed THEN [r EXCEPT !.step = "passed", !.ip = serial]
                                      ELSE [r EXCEPT !.step = "refused"]
    IN /\ r.step = "checking"
       /\ Check(r.address)
       /\ requests' = (requests \ {r}) \cup {answer}

\* checkRateLimit and enforceRateLimit of one limiter, called without the middleware.
CheckRateLimit(k) ==
    /\ Check(k)
    /\ requests' = IF verdict'.allowed THEN requests \cup {Admitted(k, "direct", k, serial)}
                                       ELSE requests

\* resetRateLimits, and MultiRateLimiter.reset of one key.
ResetRateLimits(ks) ==
    /\ Reset(ks)
    /\ requests' = {[r EXCEPT !.global = IF Global \in ks /\ @ # None THEN Forgotten ELSE @,
                              !.ip = IF r.address \in ks /\ @ # None THEN Forgotten ELSE @] : r \in requests}

QuotaNext ==
    /\ \/ \E a \in Addresses : GlobalCheck(a)
       \/ \E r \in requests : AddressCheck(r)
       \/ \E k \in Keys : CheckRateLimit(k) \/ ResetRateLimits({k})
       \/ ResetRateLimits(Keys)
       \/ \E t \in 1 .. MaxNow : Tick(t) /\ UNCHANGED requests
       \/ Prune /\ UNCHANGED requests
    /\ UNCHANGED peerVars

-----------------------------------------------------------------------------
(* PeerLimits *)

NoUsage == [slots |-> [c \in Kinds |-> 0], joins |-> {}]

\* Mutant: a peer that is already tracked starts again from nothing.
TrackedAnew(p) == [q \in DOMAIN usage \cup {p} |-> IF q = p THEN NoUsage ELSE usage[q]]

\* getOrCreate: the map with an entry for p.
Tracked(p) == [q \in DOMAIN usage \cup {p} |-> IF q \in DOMAIN usage THEN usage[q] ELSE NoUsage]

Call == /\ calls < MaxCalls
        /\ calls' = calls + 1

TrackPeer(p) == /\ Call
                /\ usage' = Tracked(p)
                /\ UNCHANGED <<held, untracked, attempts>>

\* incrementTransports, incrementProducers, incrementConsumers.
Increment(p, c) ==
    LET before == Tracked(p)
        allowed == before[p].slots[c] < MaxSlots[c]
    IN /\ Call
       /\ usage' = IF allowed THEN [before EXCEPT ![p].slots[c] = @ + 1] ELSE before
       /\ held' = IF allowed THEN [held EXCEPT ![p][c] = @ + 1] ELSE held
       /\ UNCHANGED <<untracked, attempts>>

\* decrementTransports, decrementProducers, decrementConsumers, by a caller that
\* gives back what it holds, if need be after the peer was untracked.
Decrement(p, c) ==
    /\ Call
    /\ held[p][c] > 0
    /\ held' = [held EXCEPT ![p][c] = @ - 1]
    /\ usage' = IF p \in DOMAIN usage /\ usage[p].slots[c] > 0
                THEN [usage EXCEPT ![p].slots[c] = @ - 1] ELSE usage
    /\ UNCHANGED <<untracked, attempts>>

\* untrackPeer, and reset of the peers ps: what they hold is no longer counted.
Untrack(ps) ==
    LET gone == ps \cap DOMAIN usage
    IN /\ Call
       /\ usage' = [q \in DOMAIN usage \ gone |-> usage[q]]
       /\ untracked' = [p \in Peers |-> IF p \in gone
                            THEN [c \in Kinds |-> untracked[p][c] + usage[p].slots[c]] ELSE untracked[p]]
       /\ attempts' = [p \in Peers |-> IF p \in gone THEN {} ELSE attempts[p]]
       /\ UNCHANGED held

\* joinAttemptTimestamps; equal times are told apart by the attempts before them.
LastMinute(joins) == {j \in joins : j.at + JoinWindow > now}

\* recordJoinAttempt: it is recorded whether or not it is let in.
RecordJoinAttempt(p) ==
    LET join == [at |-> now, n |-> Cardinality(attempts[p])]
    IN /\ attempts' = [attempts EXCEPT ![p] = @ \cup {join}]
       /\ usage' = [Tracked(p) EXCEPT ![p].joins = LastMinute(Tracked(p)[p].joins) \cup {join}]

\* What recordJoinAttempt would answer.
JoinAllowed(p) == Cardinality(LastMinute(Tracked(p)[p].joins)) + 1 <= MaxJoins

-----------------------------------------------------------------------------
(* RoomPolicy: a name is its trimmed length, whether it fits the pattern and *)
(* whether it is reserved, whatever its case.                                *)

RoomNames == [length : NameLengths, fits : BOOLEAN, reserved : BOOLEAN]

\* validateRoomName
NameValid(name) == name.length \in 1 .. MaxNameLength /\ name.fits /\ ~name.reserved

\* remainingPeerSlots
RemainingPeerSlots(count) == IF count < MaxPeersPerRoom THEN MaxPeersPerRoom - count ELSE 0

\* canJoinRoom
CanJoinRoom(name, count) == NameValid(name) /\ RemainingPeerSlots(count) > 0

\* PolicyService.assertJoinAllowed: a room that refuses costs the peer nothing.
AssertJoinAllowed(p, name, count) ==
    /\ Call
    /\ IF CanJoinRoom(name, count) THEN RecordJoinAttempt(p) ELSE UNCHANGED <<usage, attempts>>
    /\ UNCHANGED <<held, untracked>>

PeerNext ==
    \/ /\ \/ \E p \in Peers : TrackPeer(p) \/ Untrack({p})
          \/ Untrack(Peers)
          \/ \E p \in Peers, c \in Kinds : Increment(p, c) \/ Decrement(p, c)
          \/ \E p \in Peers, name \in RoomNames, count \in 0 .. MaxPeersPerRoom :
                AssertJoinAllowed(p, name, count)
       /\ UNCHANGED quotaVars
    \/ \E t \in 1 .. MaxNow : Tick(t) /\ UNCHANGED <<requests, peerVars>>

AdmissionNext == QuotaNext \/ PeerNext

AdmissionSpec == AdmissionInit /\ [][AdmissionNext]_admissionVars

-----------------------------------------------------------------------------
\* Whatever the two limiters admitted was paid by one request of its own: the
\* middleware lets a request pass only when both admitted it, and the global
\* quota that did not go to those went to requests that their address's limiter
\* refused, or that still wait for its answer.
QuotaPaid ==
    /\ \A r \in requests : r.step = "passed" => r.global # None /\ r.ip # None
    /\ {s.n : s \in admitted[Global]} = {r.global : r \in requests} \ {None, Forgotten}
    /\ \A a \in Addresses :
         {s.n : s \in admitted[a]} = {r.ip : r \in {q \in requests : q.address = a}} \ {None, Forgotten}
    /\ \A q, r \in requests : q.n = r.n => q = r

\* What is counted for a peer is held by it, so that nobody is refused a slot
\* that is free, and it holds more than the maximum only by what it had when
\* it was untracked: giving a slot back twice or late makes no further room.
SlotsAccounted ==
    \A p \in Peers, c \in Kinds :
        LET counted == IF p \in DOMAIN usage THEN usage[p].slots[c] ELSE 0
        IN /\ counted \in 0 .. MaxSlots[c]
           /\ counted <= held[p][c]
           /\ held[p][c] <= counted + untracked[p][c]

\* A peer is let in exactly when it made fewer than the maximum of attempts in
\* the last minute, refused ones included: one that keeps trying stays out, one
\* that waits a minute gets in.
JoinsExact ==
    \A p \in Peers : JoinAllowed(p) <=> Cardinality(LastMinute(attempts[p])) < MaxJoins

\* PeerLimits grants slots and attempts exactly as far as its limits go,
\* whatever peers are tracked, untracked and tracked again.
PeerLimitsExact == SlotsAccounted /\ JoinsExact
=============================================================================
