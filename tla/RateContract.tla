---------------------------- MODULE RateContract ----------------------------
(***************************************************************************)
(* What a sliding-window rate limiter promises: a request is admitted      *)
(* exactly when fewer than the maximum were admitted for its key in the    *)
(* last window.  Nothing that was admitted is ever forgotten, except by a  *)
(* reset of the key.                                                       *)
(***************************************************************************)
EXTENDS Naturals, FiniteSets

CONSTANTS Keys,          \* namespace and identifier of a bucket
          WindowMs,      \* key -> length of its window
          MaxRequests,   \* key -> requests it admits per window
          None,          \* no answer yet
          Instants,      \* the times of the clock
          Serials        \* what tells requests apart

VARIABLES now,       \* the clock
          admitted,  \* key -> the requests admitted, each [at, n]
          verdict    \* the last answer, [key, allowed], or None

contractVars == <<now, admitted, verdict>>

\* The requests of k that count at time t.
Recent(k, t) == {a \in admitted[k] : a.at + WindowMs[k] > t}

Init == /\ now = 0
        /\ admitted = [k \in Keys |-> {}]
        /\ verdict = None

\* One request; it is told apart from all earlier ones by n.
Request(k, n) ==
    LET allowed == Cardinality(Recent(k, now)) < MaxRequests[k]
    IN /\ verdict' = [key |-> k, allowed |-> allowed]
       /\ admitted' = IF allowed THEN [admitted EXCEPT ![k] = @ \cup {[at |-> now, n |-> n]}] ELSE admitted
       /\ UNCHANGED now

Forget(ks) == /\ admitted' = [k \in Keys |-> IF k \in ks THEN {} ELSE admitted[k]]
              /\ verdict' = None
              /\ UNCHANGED now

Pass(t) == now' = t /\ t > now /\ UNCHANGED <<admitted, verdict>>

Next == \/ \E k \in Keys, n \in Serials : Request(k, n)
        \/ \E ks \in SUBSET Keys : Forget(ks)
        \/ \E t \in Instants : Pass(t)

Spec == Init /\ [][Next]_contractVars
=============================================================================
