------------------------- MODULE EventServiceProofs -------------------------
(* Proofs about EventService. *)
EXTENDS EventService, SequenceTheorems, WellFoundedInduction, TLAPS

-----------------------------------------------------------------------------
(* Sequences, and the iteration over the Map of webhooks. *)

\* What is in a list after one more entry.
LEMMA RangeOfAppend ==
    ASSUME NEW S, NEW s \in Seq(S), NEW x \in S
    PROVE  /\ Range(Append(s, x)) = Range(s) \cup {x}
           /\ Range(s) \subseteq S
  <1>1. /\ Len(Append(s, x)) = Len(s) + 1
        /\ \A i \in 1 .. Len(s) : Append(s, x)[i] = s[i]
        /\ Append(s, x)[Len(s) + 1] = x
        /\ Append(s, x) \in Seq(S)
        /\ Len(s) \in Nat
    BY AppendProperties, LenProperties
  <1>2. /\ DOMAIN s = 1 .. Len(s)
        /\ DOMAIN Append(s, x) = 1 .. Len(s) + 1
    BY <1>1, LenProperties
  <1>3. \A i \in DOMAIN s : s[i] \in S
    BY ElementOfSeq, <1>2
  <1>4. Range(s) \subseteq S
    BY <1>3 DEF Range
  <1>5. ASSUME NEW y \in Range(Append(s, x))  PROVE y \in Range(s) \cup {x}
    <2>1. PICK i \in 1 .. Len(s) + 1 : y = Append(s, x)[i]
      BY <1>2 DEF Range
    <2>2. CASE i = Len(s) + 1
      BY <1>1, <2>1, <2>2
    <2>3. CASE i \in 1 .. Len(s)
      BY <1>1, <1>2, <2>1, <2>3 DEF Range
    <2> QED  BY <1>1, <2>1, <2>2, <2>3
  <1>6. ASSUME NEW y \in Range(s) \cup {x}  PROVE y \in Range(Append(s, x))
    <2>1. CASE y = x
      <3>1. Len(s) + 1 \in DOMAIN Append(s, x)
        BY <1>1, <1>2
      <3> QED  BY <1>1, <2>1, <3>1 DEF Range
    <2>2. CASE y \in Range(s)
      <3>1. PICK i \in 1 .. Len(s) : y = s[i]
        BY <1>2, <2>2 DEF Range
      <3>2. i \in DOMAIN Append(s, x)
        BY <1>1, <1>2
      <3> QED  BY <1>1, <3>1, <3>2 DEF Range
    <2> QED  BY <1>6, <2>1, <2>2
  <1> QED  BY <1>4, <1>5, <1>6

\* What is left of a list without its first entry.
LEMMA TailFacts ==
    ASSUME NEW S, NEW s \in Seq(S), s # <<>>
    PROVE  /\ Len(s) \in Nat \ {0} /\ Head(s) = s[1] /\ Head(s) \in S
           /\ Tail(s) \in Seq(S) /\ Len(Tail(s)) = Len(s) - 1
           /\ \A i \in 1 .. Len(s) - 1 : Tail(s)[i] = s[i + 1]
  BY EmptySeq, HeadTailProperties

\* A function on the numbers from 1 to n is a list of length n.
LEMMA FunctionIsSequence ==
    ASSUME NEW S, NEW n \in Nat, NEW f \in [1 .. n -> S]
    PROVE  f \in Seq(S) /\ Len(f) = n
  OBVIOUS

\* A set of numbers that is not empty has a least one.
LEMMA LeastNumber ==
    ASSUME NEW T \in SUBSET Nat, T # {}
    PROVE  \E x \in T : \A y \in T : x <= y
  <1>1. PICK x \in T : \A y \in T : ~ (<<y, x>> \in OpToRel(<, Nat))
    BY NatLessThanWellFounded, WFMin
  <1>2. \A y \in T : ~ (y < x)
    BY <1>1 DEF OpToRel
  <1> QED  BY <1>2

\* Does slot j hold a webhook that the event of dispatch d goes to?
Matches(j, d) == webhooks[j].live /\ EventOf(d) \in Wanted[webhooks[j].id]

\* The iteration stops at the first matching slot after n, and ends when
\* there is none.
LEMMA NextSlotIsFirst ==
    ASSUME EventTypeOK, NEW n \in Nat, NEW d \in Dispatches
    PROVE  /\ NextSlot(n, d) \in 0 .. Len(webhooks)
           /\ NextSlot(n, d) = 0 => \A j \in n + 1 .. Len(webhooks) : ~ Matches(j, d)
           /\ NextSlot(n, d) # 0 =>
                 \A j \in n + 1 .. Len(webhooks) : Matches(j, d) => NextSlot(n, d) <= j
  <1> DEFINE ahead == {j \in n + 1 .. Len(webhooks) : Matches(j, d)}
             first == CHOOSE j \in ahead : \A k \in ahead : j <= k
  <1>1. Len(webhooks) \in Nat
    BY LenProperties DEF EventTypeOK
  <1>2. ahead \in SUBSET Nat /\ \A j \in ahead : j \in 1 .. Len(webhooks)
    BY <1>1
  <1>3. NextSlot(n, d) = IF ahead = {} THEN 0 ELSE first
    BY Zenon DEF NextSlot, Matches
  <1>4. CASE ahead = {}
    BY <1>1, <1>3, <1>4
  <1>5. CASE ahead # {}
    <2> HIDE DEF ahead
    <2>1. first \in ahead /\ \A k \in ahead : first <= k
      BY <1>2, <1>5, LeastNumber
    <2>2. NextSlot(n, d) = first
      BY <1>3, <1>5
    <2> HIDE DEF first
    <2>3. first \in 1 .. Len(webhooks)
      BY <1>2, <2>1
    <2> QED  BY <1>1, <2>1, <2>2, <2>3 DEF ahead
  <1> QED  BY <1>4, <1>5

-----------------------------------------------------------------------------
(* The inductive invariant. *)

\* The wildcard handlers are the last entries of a dispatch, the audit handler
\* right before the webhook handler.
QueueOrder ==
    \A d \in Dispatches : \A i \in 1 .. Len(queue[d]) :
       /\ queue[d][i] = "hooks" => i = Len(queue[d])
       /\ queue[d][i] = "audit" => i = Len(queue[d]) - 1
       /\ queue[d][i] = "hooks" /\ i # 1 => queue[d][i - 1] = "audit"

\* A dispatch is in the trail from the moment its audit handler is called; what
\* is delivered to webhooks is under way while the webhook handler is awaited.
AuditedInTurn ==
    \A d \in Dispatches :
       /\ d \in Range(appended) => d \in Range(published)
       /\ d \in Range(appended) => \A i \in 2 .. Len(queue[d]) : queue[d][i] # "audit"
       /\ queue[d] # <<>> => d \in Range(published)
       /\ queue[d] # <<>> /\ queue[d][1] \in {"audit", "hooks"} => d \in Range(appended)
       /\ at[d] # 0 => queue[d] # <<>> /\ queue[d][1] = "hooks"

\* AuditTrailExact by index: the ring stands at the end of the history.
TrailAligned ==
    /\ Len(audit) + dropped + cleared = Len(appended)
    /\ \A i \in 1 .. Len(audit) : audit[i] = appended[dropped + cleared + i]
    /\ IsInjective(appended)

\* The attempt under way is one of those the hook's delivery mode grants.
AttemptsInTurn ==
    \A d \in Dispatches : at[d] # 0 => attempt[d] \in 1 .. MaxAttempts(webhooks[at[d]].id)

\* A hook that has stayed since the webhook handler was called has its result,
\* or it is at the slot the iteration has reached or further on.
SteadyPending ==
    \A d \in Dispatches : \A h \in steady[d] : EventOf(d) \in Wanted[h] =>
       \/ <<h, d>> \in served
       \/ at[d] # 0 /\ \E i \in at[d] .. Len(webhooks) : webhooks[i] = [id |-> h, live |-> TRUE]

EventInv == /\ EventTypeOK /\ QueueOrder /\ AuditedInTurn /\ TrailAligned /\ AuditedBeforeDelivered
            /\ AttemptsInTurn /\ ResultsTruthful /\ SteadyPending

-----------------------------------------------------------------------------
(* Types. *)

\* publish and publishExisting both begin a dispatch, under one of the names.
LEMMA EventsAreDispatched ==
    ASSUME EventTypeOK
    PROVE  \A e \in Events : Publish(e) \/ PublishExisting(e) => \E d \in Dispatches : Dispatch(d)
  <1>1. ASSUME NEW e \in Events, NEW n \in 1 .. MaxDispatches  PROVE <<e, n>> \in Dispatches
    BY DEF Dispatches
  <1>2. ASSUME NEW e \in Events, Publish(e)  PROVE \E d \in Dispatches : Dispatch(d)
    <2>1. Dispatch(<<e, 1>>)
      BY <1>2 DEF Publish
    <2>2. Len(published) \in Nat /\ Len(published) < MaxDispatches
      BY <2>1, LenProperties DEF Dispatch, EventTypeOK
    <2>3. 1 \in 1 .. MaxDispatches
      BY <2>2, EventAssumption
    <2> QED  BY <1>1, <2>1, <2>3
  <1>3. ASSUME NEW e \in Events, PublishExisting(e)  PROVE \E d \in Dispatches : Dispatch(d)
    <2>1. PICK n \in 1 .. MaxDispatches : Dispatch(<<e, n>>)
      BY <1>3 DEF PublishExisting
    <2> QED  BY <1>1, <2>1
  <1> QED  BY <1>2, <1>3

\* EventTypeOK by its parts: the bus, the trail and the webhooks.
BusTypeOK ==
    /\ published \in Seq(Dispatches)
    /\ subscribed \in Seq(Handlers)
    /\ retired \subseteq Handlers
    /\ wired \in BOOLEAN
    /\ queue \in [Dispatches -> Seq(Subscriber)]
    /\ toRemove \in [Dispatches -> SUBSET Handlers]
    /\ calls \subseteq Handlers \X Dispatches

TrailTypeOK ==
    /\ audit \in Seq(Dispatches) /\ Len(audit) <= Capacity
    /\ dropped \in Nat /\ cleared \in Nat
    /\ appended \in Seq(Dispatches)

HookTypeOK ==
    /\ webhooks \in Seq([id : Hooks, live : BOOLEAN])
    /\ at \in [Dispatches -> 0 .. Len(webhooks)]
    /\ attempt \in [Dispatches -> Nat]
    /\ received \subseteq Hooks \X Dispatches
    /\ served \subseteq Hooks \X Dispatches
    /\ history \in Seq(Result) /\ Len(history) <= MaxHistory
    /\ steady \in [Dispatches -> SUBSET Hooks]

\* The type invariant, by the parts that different steps disturb.
LEMMA TypesByPart == EventTypeOK <=> BusTypeOK /\ TrailTypeOK /\ HookTypeOK
  BY DEF EventTypeOK, BusTypeOK, TrailTypeOK, HookTypeOK

\* The ring keeps its capacity: what is pushed out makes room for one.
LEMMA PushTypes ==
    ASSUME NEW S, NEW s \in Seq(S), NEW x \in S, NEW n \in Nat \ {0}, Len(s) <= n
    PROVE  LET q == IF Len(s) >= n THEN Append(Tail(s), x) ELSE Append(s, x)
           IN  q \in Seq(S) /\ Len(q) <= n
  <1>1. CASE Len(s) >= n
    <2>1. s # <<>> /\ Len(s) = n
      BY <1>1, EmptySeq, LenProperties
    <2>2. Tail(s) \in Seq(S) /\ Len(Tail(s)) = n - 1
      BY <2>1, TailFacts
    <2>3. Append(Tail(s), x) \in Seq(S) /\ Len(Append(Tail(s), x)) = n
      BY <2>2, AppendProperties
    <2> QED  BY <1>1, <2>3
  <1>2. CASE ~ (Len(s) >= n)
    <2>1. Append(s, x) \in Seq(S) /\ Len(Append(s, x)) = Len(s) + 1 /\ Len(s) \in Nat
      BY AppendProperties, LenProperties
    <2> QED  BY <1>2, <2>1
  <1> QED  BY <1>1, <1>2

\* Recording an event keeps the trail's types.
LEMMA AppendAuditTypes ==
    ASSUME TrailTypeOK, NEW d \in Dispatches, AppendAudit(d)
    PROVE  TrailTypeOK'
  <1>1. audit' = IF Len(audit) >= Capacity THEN Append(Tail(audit), d) ELSE Append(audit, d)
    BY DEF AppendAudit
  <1>2. audit' \in Seq(Dispatches) /\ Len(audit') <= Capacity
    BY <1>1, PushTypes, EventAssumption DEF TrailTypeOK
  <1>3. dropped' \in Nat /\ cleared' \in Nat
    BY DEF AppendAudit, TrailTypeOK
  <1>4. appended' \in Seq(Dispatches)
    BY AppendProperties DEF AppendAudit, TrailTypeOK
  <1> QED  BY <1>2, <1>3, <1>4 DEF TrailTypeOK

\* The webhooks that are registered are hooks, each at one of the slots.
LEMMA LiveHooksAtSlots ==
    ASSUME HookTypeOK
    PROVE  /\ LiveHooks \subseteq Hooks
           /\ Len(webhooks) \in Nat /\ DOMAIN webhooks = 1 .. Len(webhooks)
           /\ \A i \in 1 .. Len(webhooks) :
                 webhooks[i] \in [id : Hooks, live : BOOLEAN] /\ webhooks[i].id \in Hooks
           /\ \A h \in LiveHooks : \E i \in 1 .. Len(webhooks) : webhooks[i] = [id |-> h, live |-> TRUE]
  <1>1. Len(webhooks) \in Nat /\ DOMAIN webhooks = 1 .. Len(webhooks)
    BY LenProperties DEF HookTypeOK
  <1>2. \A i \in 1 .. Len(webhooks) : webhooks[i] \in [id : Hooks, live : BOOLEAN]
    BY ElementOfSeq DEF HookTypeOK
  <1>3. ASSUME NEW h \in LiveHooks
        PROVE  h \in Hooks /\ \E i \in 1 .. Len(webhooks) : webhooks[i] = [id |-> h, live |-> TRUE]
    <2>1. PICK i \in 1 .. Len(webhooks) : webhooks[i].live /\ h = webhooks[i].id
      BY <1>1 DEF LiveHooks
    <2>2. webhooks[i] \in [id : Hooks, live : BOOLEAN]
      BY <1>2
    <2>3. webhooks[i].live = TRUE
      BY <2>1, <2>2
    <2>4. webhooks[i] = [id |-> h, live |-> TRUE]
      BY <2>1, <2>2, <2>3
    <2> QED  BY <2>1, <2>2, <2>4
  <1> QED  BY <1>1, <1>2, <1>3

\* Calling a handler keeps the types of what it may touch.
LEMMA CallTypes ==
    ASSUME EventTypeOK, NEW d \in Dispatches, NEW entry, Call(entry, d)
    PROVE  /\ calls' \subseteq Handlers \X Dispatches
           /\ TrailTypeOK'
           /\ HookTypeOK'
  <1>0. TrailTypeOK /\ HookTypeOK /\ calls \subseteq Handlers \X Dispatches
    BY DEF EventTypeOK, TrailTypeOK, HookTypeOK
  <1>1. CASE entry = "audit" /\ AppendAudit(d) /\ UNCHANGED <<calls, hookVars>>
    <2>1. TrailTypeOK'
      BY <1>0, <1>1, AppendAuditTypes
    <2>2. HookTypeOK'
      BY <1>0, <1>1 DEF HookTypeOK, hookVars
    <2> QED  BY <1>0, <1>1, <2>1, <2>2
  <1>2. CASE /\ entry = "hooks"
             /\ GoToSlot(d, NextSlot(0, d))
             /\ steady' = [steady EXCEPT ![d] = LiveHooks]
             /\ UNCHANGED <<calls, auditVars, webhooks, received, served, history>>
    <2>1. TrailTypeOK'
      BY <1>0, <1>2 DEF TrailTypeOK, auditVars
    <2>2. NextSlot(0, d) \in 0 .. Len(webhooks)
      BY NextSlotIsFirst
    <2>3. at' \in [Dispatches -> 0 .. Len(webhooks)]
      BY <1>0, <1>2, <2>2 DEF GoToSlot, HookTypeOK
    <2>4. attempt' \in [Dispatches -> Nat]
      BY <1>0, <1>2 DEF GoToSlot, HookTypeOK
    <2>5. steady' \in [Dispatches -> SUBSET Hooks]
      BY <1>0, <1>2, LiveHooksAtSlots DEF HookTypeOK
    <2>6. HookTypeOK'
      BY <1>0, <1>2, <2>3, <2>4, <2>5 DEF HookTypeOK
    <2> QED  BY <1>0, <1>2, <2>1, <2>6
  <1>3. CASE /\ entry \in Handlers
             /\ calls' = calls \cup {<<entry, d>>}
             /\ UNCHANGED <<auditVars, hookVars>>
    <2>1. TrailTypeOK' /\ HookTypeOK'
      BY <1>0, <1>3 DEF TrailTypeOK, HookTypeOK, auditVars, hookVars
    <2> QED  BY <1>0, <1>3, <2>1
  <1> QED  BY <1>1, <1>2, <1>3 DEF Call

\* Removing handlers keeps the types.
LEMMA RemoveHandlersTypes ==
    ASSUME EventTypeOK, NEW gone, RemoveHandlers(gone)
    PROVE  subscribed' \in Seq(Handlers) /\ retired' \subseteq Handlers
  <1>1. Range(subscribed) \subseteq Handlers /\ Len(subscribed) \in Nat
    BY LenProperties, ElementOfSeq DEF EventTypeOK, Range
  <1>2. subscribed' \in SeqOf(Range(subscribed) \ gone, Len(subscribed))
    BY DEF RemoveHandlers
  <1>3. PICK n \in 0 .. Len(subscribed) : subscribed' \in [1 .. n -> Range(subscribed) \ gone]
    BY <1>2 DEF SeqOf
  <1>4. subscribed' \in [1 .. n -> Handlers] /\ n \in Nat
    BY <1>1, <1>3
  <1>5. subscribed' \in Seq(Handlers)
    BY <1>4
  <1>6. retired' \subseteq Handlers
    BY <1>1 DEF RemoveHandlers, EventTypeOK
  <1> QED  BY <1>5, <1>6

\* Dispatch d goes on with the entries in q: their first one is called,
\* if there is one.
Dispatched(d, q) ==
    /\ queue' = [queue EXCEPT ![d] = q]
    /\ IF q = <<>> THEN UNCHANGED <<calls, auditVars, hookVars>> ELSE Call(Head(q), d)

\* What a dispatch that goes on keeps: all the types of what it may touch.
LEMMA DispatchTypes ==
    ASSUME EventTypeOK, NEW d \in Dispatches, NEW q \in Seq(Subscriber), Dispatched(d, q)
    PROVE  /\ queue' \in [Dispatches -> Seq(Subscriber)]
           /\ calls' \subseteq Handlers \X Dispatches
           /\ TrailTypeOK'
           /\ HookTypeOK'
  <1>1. queue' \in [Dispatches -> Seq(Subscriber)]
    BY DEF Dispatched, EventTypeOK
  <1>2. CASE q = <<>>
    <2>1. TrailTypeOK' /\ HookTypeOK' /\ calls' \subseteq Handlers \X Dispatches
      BY <1>2 DEF Dispatched, EventTypeOK, TrailTypeOK, HookTypeOK, auditVars, hookVars
    <2> QED  BY <1>1, <2>1
  <1>3. CASE q # <<>>
    <2>1. Call(Head(q), d)
      BY <1>3 DEF Dispatched
    <2> QED  BY <1>1, <2>1, CallTypes
  <1> QED  BY <1>2, <1>3

\* The entries of a new dispatch: the user's, then the service's own.
LEMMA DispatchStarts ==
    ASSUME EventTypeOK, NEW d \in Dispatches, Dispatch(d)
    PROVE  LET q == subscribed \o Internal
           IN  /\ Dispatched(d, q)
               /\ q \in Seq(Subscriber)
               /\ Len(q) = Len(subscribed) + Len(Internal)
               /\ \A i \in 1 .. Len(subscribed) : q[i] \in Handlers
               /\ wired => /\ Len(q) = Len(subscribed) + 2
                           /\ q[Len(q) - 1] = "audit"
                           /\ q[Len(q)] = "hooks"
               /\ ~ wired => Len(q) = Len(subscribed)
  <1> DEFINE q == subscribed \o Internal
  <1>1. subscribed \in Seq(Subscriber) /\ Len(subscribed) \in Nat
    BY SeqMonotonic, LenProperties DEF EventTypeOK, Subscriber
  <1>2. Internal \in Seq(Subscriber)
    <2>1. <<"audit", "hooks">> \in Seq(Subscriber) /\ <<>> \in Seq(Subscriber)
      BY DEF Subscriber
    <2> QED  BY <2>1, Zenon DEF Internal
  <1>3. wired => Len(Internal) = 2 /\ Internal[1] = "audit" /\ Internal[2] = "hooks"
    BY DEF Internal
  <1>4. ~ wired => Len(Internal) = 0
    BY DEF Internal
  <1>5. /\ q \in Seq(Subscriber)
        /\ Len(q) = Len(subscribed) + Len(Internal)
        /\ \A i \in 1 .. Len(subscribed) + Len(Internal) :
              q[i] = IF i <= Len(subscribed) THEN subscribed[i] ELSE Internal[i - Len(subscribed)]
    BY <1>1, <1>2, ConcatProperties
  <1>6. Dispatched(d, q)
    BY DEF Dispatch, Dispatched
  <1> HIDE DEF q
  <1>7. \A i \in 1 .. Len(subscribed) : q[i] \in Handlers
    <2> SUFFICES ASSUME NEW i \in 1 .. Len(subscribed)  PROVE q[i] \in Handlers
      OBVIOUS
    <2>1. Len(Internal) \in Nat
      BY <1>3, <1>4
    <2>2. q[i] = subscribed[i]
      BY <1>1, <1>5, <2>1
    <2> QED  BY <2>2, ElementOfSeq DEF EventTypeOK
  <1>8. wired => /\ Len(q) = Len(subscribed) + 2
                 /\ q[Len(q) - 1] = "audit"
                 /\ q[Len(q)] = "hooks"
    <2> SUFFICES ASSUME wired
                 PROVE  /\ Len(q) = Len(subscribed) + 2
                        /\ q[Len(q) - 1] = "audit"
                        /\ q[Len(q)] = "hooks"
      OBVIOUS
    <2> DEFINE n == Len(subscribed)
    <2>1. n \in Nat /\ Len(q) = n + 2
      BY <1>1, <1>3, <1>5
    <2>2. \A i \in 1 .. n + 2 : q[i] = IF i <= n THEN subscribed[i] ELSE Internal[i - n]
      BY <1>3, <1>5
    <2> HIDE DEF n
    <2>3. q[n + 1] = Internal[1] /\ q[n + 2] = Internal[2]
      BY <2>1, <2>2
    <2> QED  BY <1>3, <2>1, <2>3 DEF n
  <1>9. ~ wired => Len(q) = Len(subscribed)
    BY <1>1, <1>4, <1>5
  <1> QED  BY <1>5, <1>6, <1>7, <1>8, <1>9 DEF q

\* The entries left when the one that is awaited settles.
LEMMA SettleDispatches ==
    ASSUME EventTypeOK, NEW d \in Dispatches, Settle(d)
    PROVE  /\ Tail(queue[d]) \in Seq(Subscriber)
           /\ Dispatched(d, Tail(queue[d]))
           /\ queue[d] # <<>> /\ queue[d] \in Seq(Subscriber)
           /\ Len(Tail(queue[d])) = Len(queue[d]) - 1
           /\ \A i \in 1 .. Len(queue[d]) - 1 : Tail(queue[d])[i] = queue[d][i + 1]
           /\ Len(queue[d]) \in Nat \ {0} /\ Head(queue[d]) = queue[d][1]
  <1>1. queue[d] \in Seq(Subscriber) /\ queue[d] # <<>>
    BY DEF Settle, EventTypeOK
  <1>2. Dispatched(d, Tail(queue[d]))
    BY DEF Settle, Dispatched
  <1> QED  BY <1>1, <1>2, TailFacts

\* Recording a result keeps the types of what it touches.
LEMMA ResultTypes ==
    ASSUME HookTypeOK, NEW res \in Result, RecordResult(res)
    PROVE  /\ history' \in Seq(Result) /\ Len(history') <= MaxHistory
           /\ served' \subseteq Hooks \X Dispatches
  <1>1. history' = IF Len(history) >= MaxHistory THEN Append(Tail(history), res) ELSE Append(history, res)
    BY DEF RecordResult
  <1>2. history' \in Seq(Result) /\ Len(history') <= MaxHistory
    BY <1>1, PushTypes, EventAssumption DEF HookTypeOK
  <1>3. served' \subseteq Hooks \X Dispatches
    BY DEF RecordResult, HookTypeOK, Result
  <1> QED  BY <1>2, <1>3

\* The hook that is delivered to.
LEMMA HookUnderWay ==
    ASSUME HookTypeOK, NEW d \in Dispatches, at[d] # 0
    PROVE  /\ at[d] \in 1 .. Len(webhooks) /\ Len(webhooks) \in Nat
           /\ webhooks[at[d]].id \in Hooks /\ webhooks[at[d]] \in [id : Hooks, live : BOOLEAN]
           /\ attempt[d] \in Nat
  <1>1. at[d] \in 0 .. Len(webhooks) /\ attempt[d] \in Nat
    BY DEF HookTypeOK
  <1>2. at[d] \in 1 .. Len(webhooks)
    BY <1>1, LiveHooksAtSlots
  <1> QED  BY <1>1, <1>2, LiveHooksAtSlots

\* The number of attempts a hook is granted.
LEMMA AttemptsGranted == \A h : MaxAttempts(h) \in Nat \ {0}
  BY EventAssumption DEF MaxAttempts

\* An attempt that ends keeps the types.
LEMMA AttemptTypes ==
    ASSUME EventTypeOK, NEW d \in Dispatches, Attempt(d)
    PROVE  HookTypeOK'
  <1> DEFINE h == webhooks[at[d]].id
             next == NextSlot(at[d], d)
  <1>1. HookTypeOK
    BY DEF EventTypeOK, HookTypeOK
  <1>2. h \in Hooks /\ attempt[d] \in Nat /\ at[d] \in Nat
    BY <1>1, HookUnderWay DEF Attempt
  <1>3. next \in 0 .. Len(webhooks)
    BY <1>2, NextSlotIsFirst
  <1>4. UNCHANGED <<webhooks, steady>>
    BY DEF Attempt
  <1>5. PICK arrives \in BOOLEAN, ok \in BOOLEAN :
          /\ received' = IF arrives THEN received \cup {<<h, d>>} ELSE received
          /\ IF ~ok /\ attempt[d] < MaxAttempts(h)
             THEN /\ attempt' = [attempt EXCEPT ![d] = @ + 1]
                  /\ UNCHANGED <<at, history, served>>
             ELSE /\ RecordResult([hook |-> h, dispatch |-> d, success |-> ok, attempts |-> attempt[d]])
                  /\ GoToSlot(d, next)
    BY DEF Attempt
  <1> HIDE DEF h, next
  <1>6. received' \subseteq Hooks \X Dispatches
    BY <1>1, <1>2, <1>5 DEF HookTypeOK
  <1>7. CASE ~ok /\ attempt[d] < MaxAttempts(h)
    <2>1. attempt' \in [Dispatches -> Nat]
      BY <1>1, <1>2, <1>5, <1>7 DEF HookTypeOK
    <2> QED  BY <1>1, <1>4, <1>5, <1>6, <1>7, <2>1 DEF HookTypeOK
  <1>8. CASE ~ (~ok /\ attempt[d] < MaxAttempts(h))
    <2>1. [hook |-> h, dispatch |-> d, success |-> ok, attempts |-> attempt[d]] \in Result
      BY <1>2 DEF Result
    <2>2. /\ RecordResult([hook |-> h, dispatch |-> d, success |-> ok, attempts |-> attempt[d]])
          /\ GoToSlot(d, next)
      BY <1>5, <1>8
    <2>3. /\ history' \in Seq(Result) /\ Len(history') <= MaxHistory
          /\ served' \subseteq Hooks \X Dispatches
      BY <1>1, <2>1, <2>2, ResultTypes
    <2>4. at' \in [Dispatches -> 0 .. Len(webhooks)]
      BY <1>1, <1>3, <2>2 DEF GoToSlot, HookTypeOK
    <2>5. attempt' \in [Dispatches -> Nat]
      BY <1>1, <2>2 DEF GoToSlot, HookTypeOK
    <2> QED  BY <1>1, <1>4, <1>6, <2>3, <2>4, <2>5 DEF HookTypeOK
  <1> QED  BY <1>7, <1>8

\* What changes in the Map itself: a slot more, or slots that die.
LEMMA RegisterTypes ==
    ASSUME HookTypeOK, NEW h \in Hooks, Register(h)
    PROVE  /\ HookTypeOK'
           /\ Len(webhooks') = Len(webhooks) + 1 /\ Len(webhooks) \in Nat
           /\ \A i \in 1 .. Len(webhooks) : webhooks'[i] = webhooks[i]
  <1>1. webhooks' = Append(webhooks, [id |-> h, live |-> TRUE])
    BY DEF Register
  <1>2. [id |-> h, live |-> TRUE] \in [id : Hooks, live : BOOLEAN]
    OBVIOUS
  <1>3. /\ webhooks' \in Seq([id : Hooks, live : BOOLEAN])
        /\ Len(webhooks') = Len(webhooks) + 1 /\ Len(webhooks) \in Nat
        /\ \A i \in 1 .. Len(webhooks) : webhooks'[i] = webhooks[i]
    BY <1>1, <1>2, AppendProperties, LenProperties DEF HookTypeOK
  <1>4. at \in [Dispatches -> 0 .. Len(webhooks')]
    BY <1>3 DEF HookTypeOK
  <1>5. HookTypeOK'
    BY <1>3, <1>4 DEF Register, HookTypeOK
  <1> QED  BY <1>3, <1>5

\* Slots that die keep their places and their ids.
LEMMA UnregisterTypes ==
    ASSUME HookTypeOK, NEW h \in Hooks, Unregister(h)
    PROVE  /\ HookTypeOK'
           /\ Len(webhooks') = Len(webhooks)
           /\ \A i \in 1 .. Len(webhooks) : webhooks'[i].id = webhooks[i].id
  <1>1. /\ Len(webhooks) \in Nat /\ DOMAIN webhooks = 1 .. Len(webhooks)
        /\ \A i \in 1 .. Len(webhooks) : webhooks[i] \in [id : Hooks, live : BOOLEAN]
    BY LiveHooksAtSlots
  <1>2. \A i \in 1 .. Len(webhooks) : /\ webhooks'[i] \in [id : Hooks, live : BOOLEAN]
                                      /\ webhooks'[i].id = webhooks[i].id
    BY <1>1 DEF Unregister
  <1>3. webhooks' \in [1 .. Len(webhooks) -> [id : Hooks, live : BOOLEAN]]
    BY <1>1 DEF Unregister
  <1>4. webhooks' \in Seq([id : Hooks, live : BOOLEAN]) /\ Len(webhooks') = Len(webhooks)
    BY <1>1, <1>3, FunctionIsSequence
  <1>5. steady' \in [Dispatches -> SUBSET Hooks]
    BY DEF Unregister, HookTypeOK
  <1>6. UNCHANGED <<at, attempt, received, served, history>>
    BY DEF Unregister
  <1>7. HookTypeOK'
    BY <1>4, <1>5, <1>6 DEF HookTypeOK
  <1> QED  BY <1>2, <1>4, <1>7

\* So do the slots of a service that closes.
LEMMA CloseTypes ==
    ASSUME HookTypeOK, Close
    PROVE  /\ HookTypeOK'
           /\ Len(webhooks') = Len(webhooks)
           /\ \A i \in 1 .. Len(webhooks) : webhooks'[i].id = webhooks[i].id
  <1>1. /\ Len(webhooks) \in Nat /\ DOMAIN webhooks = 1 .. Len(webhooks)
        /\ \A i \in 1 .. Len(webhooks) : webhooks[i] \in [id : Hooks, live : BOOLEAN]
    BY LiveHooksAtSlots
  <1>2. \A i \in 1 .. Len(webhooks) : /\ webhooks'[i] \in [id : Hooks, live : BOOLEAN]
                                      /\ webhooks'[i].id = webhooks[i].id
    BY <1>1 DEF Close
  <1>3. webhooks' \in [1 .. Len(webhooks) -> [id : Hooks, live : BOOLEAN]]
    BY <1>1 DEF Close
  <1>4. webhooks' \in Seq([id : Hooks, live : BOOLEAN]) /\ Len(webhooks') = Len(webhooks)
    BY <1>1, <1>3, FunctionIsSequence
  <1>5. steady' \in [Dispatches -> SUBSET Hooks]
    BY DEF Close, HookTypeOK
  <1>6. UNCHANGED <<at, attempt, received, served, history>>
    BY DEF Close
  <1>7. HookTypeOK'
    BY <1>4, <1>5, <1>6 DEF HookTypeOK
  <1> QED  BY <1>2, <1>4, <1>7

\* Every step keeps the types.
LEMMA TypesStep ==
    ASSUME EventTypeOK, [Next]_vars
    PROVE  EventTypeOK'
  <1>0. BusTypeOK /\ TrailTypeOK /\ HookTypeOK
    BY TypesByPart
  <1>1. ASSUME NEW h \in Handlers, Subscribe(h)  PROVE EventTypeOK'
    <2>1. subscribed' \in Seq(Handlers)
      BY <1>1, AppendProperties DEF Subscribe, EventTypeOK
    <2>2. BusTypeOK'
      BY <1>0, <1>1, <2>1 DEF Subscribe, BusTypeOK
    <2>3. TrailTypeOK' /\ HookTypeOK'
      BY <1>0, <1>1 DEF Subscribe, TrailTypeOK, HookTypeOK, auditVars, hookVars
    <2> QED  BY <2>2, <2>3 DEF EventTypeOK, BusTypeOK, TrailTypeOK, HookTypeOK
  <1>2. ASSUME NEW h \in Handlers, Unsubscribe(h)  PROVE EventTypeOK'
    <2>1. subscribed' \in Seq(Handlers) /\ retired' \subseteq Handlers
      BY <1>2, RemoveHandlersTypes DEF Unsubscribe
    <2>2. BusTypeOK'
      BY <1>0, <1>2, <2>1 DEF Unsubscribe, BusTypeOK
    <2>3. TrailTypeOK' /\ HookTypeOK'
      BY <1>0, <1>2 DEF Unsubscribe, TrailTypeOK, HookTypeOK, auditVars, hookVars
    <2> QED  BY <2>2, <2>3 DEF EventTypeOK, BusTypeOK, TrailTypeOK, HookTypeOK
  <1>3. ASSUME NEW h \in Hooks, Register(h)  PROVE EventTypeOK'
    <2>1. HookTypeOK'
      BY <1>0, <1>3, RegisterTypes
    <2>2. BusTypeOK' /\ TrailTypeOK'
      BY <1>0, <1>3 DEF Register, BusTypeOK, TrailTypeOK, busVars, auditVars
    <2> QED  BY <2>1, <2>2 DEF EventTypeOK, BusTypeOK, TrailTypeOK, HookTypeOK
  <1>4. ASSUME NEW h \in Hooks, Unregister(h)  PROVE EventTypeOK'
    <2>1. HookTypeOK'
      BY <1>0, <1>4, UnregisterTypes
    <2>2. BusTypeOK' /\ TrailTypeOK'
      BY <1>0, <1>4 DEF Unregister, BusTypeOK, TrailTypeOK, busVars, auditVars
    <2> QED  BY <2>1, <2>2 DEF EventTypeOK, BusTypeOK, TrailTypeOK, HookTypeOK
  <1>5. ASSUME NEW d \in Dispatches, Dispatch(d)  PROVE EventTypeOK'
    <2> DEFINE q == subscribed \o Internal
    <2>1. q \in Seq(Subscriber) /\ Dispatched(d, q)
      BY <1>5, DispatchStarts
    <2>2. /\ queue' \in [Dispatches -> Seq(Subscriber)]
          /\ calls' \subseteq Handlers \X Dispatches
          /\ TrailTypeOK'
          /\ HookTypeOK'
      BY <2>1, DispatchTypes
    <2>3. published' \in Seq(Dispatches)
      BY <1>0, <1>5, AppendProperties DEF Dispatch, BusTypeOK
    <2>4. BusTypeOK'
      BY <1>0, <1>5, <2>2, <2>3 DEF Dispatch, BusTypeOK
    <2> QED  BY <2>2, <2>4 DEF EventTypeOK, BusTypeOK, TrailTypeOK, HookTypeOK
  <1>6. ASSUME NEW d \in Dispatches, Settle(d)  PROVE EventTypeOK'
    <2>1. Tail(queue[d]) \in Seq(Subscriber) /\ Dispatched(d, Tail(queue[d]))
      BY <1>6, SettleDispatches
    <2>2. /\ queue' \in [Dispatches -> Seq(Subscriber)]
          /\ calls' \subseteq Handlers \X Dispatches
          /\ TrailTypeOK'
          /\ HookTypeOK'
      BY <2>1, DispatchTypes
    <2>3. subscribed' \in Seq(Handlers) /\ retired' \subseteq Handlers
      <3>1. CASE Tail(queue[d]) = <<>>
        <4> DEFINE gone == toRemove[d] \cup ({Head(queue[d])} \cap Once)
        <4>1. RemoveHandlers(gone)
          BY <1>6, <3>1 DEF Settle
        <4> QED  BY <4>1, RemoveHandlersTypes
      <3>2. CASE Tail(queue[d]) # <<>>
        BY <1>0, <1>6, <3>2 DEF Settle, BusTypeOK
      <3> QED  BY <3>1, <3>2
    <2>4. toRemove' \in [Dispatches -> SUBSET Handlers]
      BY <1>0, <1>6, EventAssumption DEF Settle, BusTypeOK
    <2>5. published' \in Seq(Dispatches) /\ wired' \in BOOLEAN
      BY <1>0, <1>6 DEF Settle, BusTypeOK
    <2>6. BusTypeOK'
      BY <2>2, <2>3, <2>4, <2>5 DEF BusTypeOK
    <2> QED  BY <2>2, <2>6 DEF EventTypeOK, BusTypeOK, TrailTypeOK, HookTypeOK
  <1>7. ASSUME NEW d \in Dispatches, Attempt(d)  PROVE EventTypeOK'
    <2>1. HookTypeOK'
      BY <1>7, AttemptTypes
    <2>2. BusTypeOK' /\ TrailTypeOK'
      BY <1>0, <1>7 DEF Attempt, BusTypeOK, TrailTypeOK, busVars, auditVars
    <2> QED  BY <2>1, <2>2 DEF EventTypeOK, BusTypeOK, TrailTypeOK, HookTypeOK
  <1>8. ASSUME Close  PROVE EventTypeOK'
    <2>1. HookTypeOK'
      BY <1>0, <1>8, CloseTypes
    <2>2. TrailTypeOK'
      BY <1>0, <1>8 DEF Close, TrailTypeOK, auditVars
    <2>3. subscribed' \in Seq(Handlers)
      BY <1>8 DEF Close
    <2>4. Range(subscribed) \subseteq Handlers
      BY <1>0, LenProperties, ElementOfSeq DEF BusTypeOK, Range
    <2>5. BusTypeOK'
      BY <1>0, <1>8, <2>3, <2>4 DEF Close, BusTypeOK
    <2> QED  BY <2>1, <2>2, <2>5 DEF EventTypeOK, BusTypeOK, TrailTypeOK, HookTypeOK
  <1>9. ASSUME ClearAudit  PROVE EventTypeOK'
    <2>1. audit' \in Seq(Dispatches) /\ Len(audit') = 0
      BY <1>9 DEF ClearAudit
    <2>2. cleared' \in Nat
      BY <1>0, <1>9, LenProperties DEF ClearAudit, TrailTypeOK
    <2>3. TrailTypeOK'
      BY <1>0, <1>9, <2>1, <2>2, EventAssumption DEF ClearAudit, TrailTypeOK
    <2>4. BusTypeOK' /\ HookTypeOK'
      BY <1>0, <1>9 DEF ClearAudit, BusTypeOK, HookTypeOK, busVars, hookVars
    <2> QED  BY <2>3, <2>4 DEF EventTypeOK, BusTypeOK, TrailTypeOK, HookTypeOK
  <1>10. CASE UNCHANGED vars
    BY <1>0, <1>10 DEF EventTypeOK, BusTypeOK, TrailTypeOK, HookTypeOK, vars, busVars, auditVars, hookVars
  <1> QED  BY <1>1, <1>2, <1>3, <1>4, <1>5, <1>6, <1>7, <1>8, <1>9, <1>10, EventsAreDispatched DEF Next

-----------------------------------------------------------------------------
(* The order in which the handlers of a dispatch are called. *)

\* The entries q, with which dispatch d goes on, are in order.
InOrder(d, q) ==
    /\ \A i \in 1 .. Len(q) :
          /\ q[i] = "hooks" => i = Len(q)
          /\ q[i] = "audit" => i = Len(q) - 1
          /\ q[i] = "hooks" /\ i # 1 => q[i - 1] = "audit"
    /\ d \in Range(appended) => \A i \in 1 .. Len(q) : q[i] # "audit"
    /\ q # <<>> /\ q[1] = "hooks" => d \in Range(appended)

\* What a user subscribed is not one of the service's own handlers.
LEMMA UsersAreNotInternal == \A h \in Handlers : h # "audit" /\ h # "hooks"
  BY EventAssumption

\* A new dispatch is in order, and nothing of it is under way yet.
LEMMA DispatchInOrder ==
    ASSUME EventTypeOK, QueueOrder, AuditedInTurn, NEW d \in Dispatches, Dispatch(d)
    PROVE  InOrder(d, subscribed \o Internal) /\ at[d] = 0
  <1> DEFINE q == subscribed \o Internal
             n == Len(subscribed)
  <1>1. /\ q \in Seq(Subscriber) /\ n \in Nat
        /\ \A i \in 1 .. n : q[i] # "audit" /\ q[i] # "hooks"
        /\ wired => Len(q) = n + 2 /\ q[Len(q) - 1] = "audit" /\ q[Len(q)] = "hooks"
        /\ ~ wired => Len(q) = n
    <2>1. n \in Nat
      BY LenProperties DEF EventTypeOK
    <2> QED  BY <2>1, DispatchStarts, UsersAreNotInternal
  <1>2. d \notin Range(appended) /\ at[d] = 0
    BY DEF Dispatch, AuditedInTurn
  <1> HIDE DEF q, n
  <1>3. ASSUME NEW i \in 1 .. Len(q)
        PROVE  /\ q[i] = "hooks" => i = Len(q)
               /\ q[i] = "audit" => i = Len(q) - 1
               /\ q[i] = "hooks" /\ i # 1 => q[i - 1] = "audit"
    <2>1. CASE wired
      <3>1. Len(q) = n + 2 /\ q[n + 1] = "audit" /\ q[n + 2] = "hooks"
        BY <1>1, <2>1
      <3>2. i \in 1 .. n \/ i = n + 1 \/ i = n + 2
        BY <1>1, <3>1
      <3> QED  BY <1>1, <3>1, <3>2
    <2>2. CASE ~ wired
      BY <1>1, <2>2
    <2> QED  BY <2>1, <2>2
  <1>4. ~ (q # <<>> /\ q[1] = "hooks")
    <2> SUFFICES ASSUME q # <<>>, q[1] = "hooks"  PROVE FALSE
      OBVIOUS
    <2>1. Len(q) \in Nat \ {0}
      BY <1>1, EmptySeq
    <2>2. CASE wired
      <3>1. q[n + 1] = "audit"
        BY <1>1, <2>2
      <3>2. 1 \in 1 .. n \/ n + 1 = 1
        BY <1>1
      <3> QED  BY <1>1, <3>1, <3>2
    <2>3. CASE ~ wired
      BY <1>1, <2>1, <2>3
    <2> QED  BY <2>2, <2>3
  <1>5. InOrder(d, q)
    BY <1>2, <1>3, <1>4, Zenon DEF InOrder
  <1> QED  BY <1>2, <1>5 DEF q

\* What is left of a dispatch is in order, and the webhooks' deliveries are
\* over when their handler has settled.
LEMMA SettleInOrder ==
    ASSUME EventTypeOK, QueueOrder, AuditedInTurn, NEW d \in Dispatches, Settle(d)
    PROVE  InOrder(d, Tail(queue[d])) /\ at[d] = 0 /\ d \in Range(published)
  <1> DEFINE q == queue[d]
             rest == Tail(queue[d])
  <1>1. /\ q # <<>> /\ Len(q) \in Nat \ {0} /\ Head(q) = q[1]
        /\ rest \in Seq(Subscriber) /\ Len(rest) = Len(q) - 1
        /\ \A i \in 1 .. Len(q) - 1 : rest[i] = q[i + 1]
    BY SettleDispatches
  <1>2. at[d] = 0
    BY <1>1 DEF Settle, AuditedInTurn
  <1>3. /\ d \in Range(published)
        /\ d \in Range(appended) => \A i \in 2 .. Len(q) : q[i] # "audit"
        /\ q[1] = "audit" => d \in Range(appended)
    BY <1>1 DEF AuditedInTurn
  <1>4. \A i \in 1 .. Len(q) : /\ q[i] = "hooks" => i = Len(q)
                               /\ q[i] = "audit" => i = Len(q) - 1
                               /\ q[i] = "hooks" /\ i # 1 => q[i - 1] = "audit"
    BY DEF QueueOrder
  <1> HIDE DEF q, rest
  <1>5. ASSUME NEW i \in 1 .. Len(rest)
        PROVE  /\ rest[i] = "hooks" => i = Len(rest)
               /\ rest[i] = "audit" => i = Len(rest) - 1
               /\ rest[i] = "hooks" /\ i # 1 => rest[i - 1] = "audit"
    <2>1. rest[i] = q[i + 1] /\ i + 1 \in 1 .. Len(q)
      BY <1>1
    <2>2. rest[i] = "hooks" => i + 1 = Len(q)
      BY <1>4, <2>1
    <2>3. rest[i] = "audit" => i + 1 = Len(q) - 1
      BY <1>4, <2>1
    <2>4. rest[i] = "hooks" => q[i] = "audit"
      <3>1. (i + 1) - 1 = i /\ i + 1 # 1
        OBVIOUS
      <3> QED  BY <1>4, <2>1, <3>1
    <2>5. i # 1 => rest[i - 1] = q[i]
      <3> SUFFICES ASSUME i # 1  PROVE rest[i - 1] = q[i]
        OBVIOUS
      <3>1. i - 1 \in 1 .. Len(q) - 1 /\ (i - 1) + 1 = i
        BY <1>1
      <3> QED  BY <1>1, <3>1
    <2> QED  BY <1>1, <2>2, <2>3, <2>4, <2>5
  <1>6. d \in Range(appended) => \A i \in 1 .. Len(rest) : rest[i] # "audit"
    <2> SUFFICES ASSUME d \in Range(appended), NEW i \in 1 .. Len(rest)  PROVE rest[i] # "audit"
      OBVIOUS
    <2>1. rest[i] = q[i + 1] /\ i + 1 \in 2 .. Len(q)
      BY <1>1
    <2> QED  BY <1>3, <2>1
  <1>7. rest # <<>> /\ rest[1] = "hooks" => d \in Range(appended)
    <2> SUFFICES ASSUME rest # <<>>, rest[1] = "hooks"  PROVE d \in Range(appended)
      OBVIOUS
    <2>1. Len(rest) \in Nat \ {0}
      BY <1>1, EmptySeq
    <2>2. rest[1] = q[2] /\ 2 \in 1 .. Len(q)
      BY <1>1, <2>1
    <2>3. q[1] = "audit"
      <3>1. 2 - 1 = 1 /\ 2 # 1
        OBVIOUS
      <3> QED  BY <1>4, <2>2, <3>1
    <2> QED  BY <1>3, <2>3
  <1>8. InOrder(d, rest)
    BY <1>5, <1>6, <1>7, Zenon DEF InOrder
  <1> QED  BY <1>2, <1>3, <1>8 DEF rest

\* What a dispatch that goes on does to the trail and to the webhooks.
LEMMA DispatchEffect ==
    ASSUME EventTypeOK, NEW d \in Dispatches, NEW q \in Seq(Subscriber), Dispatched(d, q)
    PROVE  /\ q # <<>> /\ q[1] = "audit" => AppendAudit(d) /\ UNCHANGED hookVars
           /\ q # <<>> /\ q[1] = "hooks" =>
                 /\ GoToSlot(d, NextSlot(0, d))
                 /\ steady' = [steady EXCEPT ![d] = LiveHooks]
                 /\ UNCHANGED <<auditVars, webhooks, received, served, history>>
           /\ ~ (q # <<>> /\ q[1] \in {"audit", "hooks"}) => UNCHANGED <<auditVars, hookVars>>
  <1>1. ASSUME q # <<>>  PROVE Call(q[1], d)
    BY <1>1, TailFacts DEF Dispatched
  <1>2. \A h \in Handlers : h # "audit" /\ h # "hooks"
    BY UsersAreNotInternal
  <1>3. ASSUME q # <<>>, q[1] = "audit"  PROVE AppendAudit(d) /\ UNCHANGED hookVars
    <2>1. AppendAudit(d) /\ UNCHANGED <<calls, hookVars>>
      BY <1>1, <1>2, <1>3 DEF Call
    <2>2. UNCHANGED hookVars
      BY <2>1
    <2> QED  BY <2>1, <2>2
  <1>4. ASSUME q # <<>>, q[1] = "hooks"
        PROVE  /\ GoToSlot(d, NextSlot(0, d))
               /\ steady' = [steady EXCEPT ![d] = LiveHooks]
               /\ UNCHANGED <<auditVars, webhooks, received, served, history>>
    <2>1. /\ GoToSlot(d, NextSlot(0, d))
          /\ steady' = [steady EXCEPT ![d] = LiveHooks]
          /\ UNCHANGED <<calls, auditVars, webhooks, received, served, history>>
      BY <1>1, <1>2, <1>4 DEF Call
    <2>2. UNCHANGED <<auditVars, webhooks, received, served, history>>
      BY <2>1
    <2> QED  BY <2>1, <2>2
  <1>5. ASSUME ~ (q # <<>> /\ q[1] \in {"audit", "hooks"})  PROVE UNCHANGED <<auditVars, hookVars>>
    <2>1. CASE q = <<>>
      BY <2>1 DEF Dispatched
    <2>2. CASE q # <<>>
      BY <1>1, <1>5, <2>2 DEF Call
    <2> QED  BY <2>1, <2>2
  <1> QED  BY <1>3, <1>4, <1>5, Zenon

\* What of that is about the order of a dispatch's handlers.
LEMMA DispatchReach ==
    ASSUME EventTypeOK, NEW d \in Dispatches, NEW q \in Seq(Subscriber), Dispatched(d, q)
    PROVE  /\ Range(appended') = IF q # <<>> /\ q[1] = "audit" THEN Range(appended) \cup {d}
                                                               ELSE Range(appended)
           /\ \A o \in Dispatches : o # d => at'[o] = at[o] /\ queue'[o] = queue[o]
           /\ queue'[d] = q
           /\ at'[d] = at[d] \/ (q # <<>> /\ q[1] = "hooks")
  <1>1. queue \in [Dispatches -> Seq(Subscriber)] /\ at \in [Dispatches -> 0 .. Len(webhooks)]
    BY DEF EventTypeOK
  <1>2. queue'[d] = q /\ \A o \in Dispatches : o # d => queue'[o] = queue[o]
    BY <1>1 DEF Dispatched
  <1>3. CASE q # <<>> /\ q[1] = "audit"
    <2>1. AppendAudit(d) /\ UNCHANGED hookVars
      BY <1>3, DispatchEffect
    <2>2. Range(appended') = Range(appended) \cup {d}
      BY <2>1, RangeOfAppend DEF AppendAudit, EventTypeOK
    <2>3. at' = at
      BY <2>1 DEF hookVars
    <2> QED  BY <1>2, <1>3, <2>2, <2>3
  <1>4. CASE q # <<>> /\ q[1] = "hooks"
    <2>1. GoToSlot(d, NextSlot(0, d)) /\ UNCHANGED auditVars
      BY <1>4, DispatchEffect, Zenon
    <2>2. appended' = appended
      BY <2>1 DEF auditVars
    <2>3. \A o \in Dispatches : o # d => at'[o] = at[o]
      BY <1>1, <2>1 DEF GoToSlot
    <2> QED  BY <1>2, <1>4, <2>2, <2>3
  <1>5. CASE ~ (q # <<>> /\ q[1] \in {"audit", "hooks"})
    <2>1. UNCHANGED <<auditVars, hookVars>>
      BY <1>5, DispatchEffect
    <2>2. appended' = appended /\ at' = at
      BY <2>1 DEF auditVars, hookVars
    <2> QED  BY <1>2, <1>5, <2>2
  <1> QED  BY <1>3, <1>4, <1>5

\* A dispatch that goes on in order keeps the order of all.
LEMMA DispatchKeepsOrder ==
    ASSUME EventTypeOK, QueueOrder, AuditedInTurn,
           NEW d \in Dispatches, NEW q \in Seq(Subscriber), Dispatched(d, q), InOrder(d, q),
           at[d] = 0, Range(published') = Range(published) \cup {d}
    PROVE  QueueOrder' /\ AuditedInTurn'
  <1>1. /\ Range(appended') = IF q # <<>> /\ q[1] = "audit" THEN Range(appended) \cup {d}
                                                            ELSE Range(appended)
        /\ \A o \in Dispatches : o # d => at'[o] = at[o] /\ queue'[o] = queue[o]
        /\ queue'[d] = q
        /\ at'[d] = at[d] \/ (q # <<>> /\ q[1] = "hooks")
    BY DispatchReach
  <1>2. /\ \A i \in 1 .. Len(q) : /\ q[i] = "hooks" => i = Len(q)
                                  /\ q[i] = "audit" => i = Len(q) - 1
                                  /\ q[i] = "hooks" /\ i # 1 => q[i - 1] = "audit"
        /\ d \in Range(appended) => \A i \in 1 .. Len(q) : q[i] # "audit"
        /\ q # <<>> /\ q[1] = "hooks" => d \in Range(appended)
    BY Zenon DEF InOrder
  <1>3. QueueOrder'
    <2> SUFFICES ASSUME NEW o \in Dispatches, NEW i \in 1 .. Len(queue'[o])
                 PROVE  /\ queue'[o][i] = "hooks" => i = Len(queue'[o])
                        /\ queue'[o][i] = "audit" => i = Len(queue'[o]) - 1
                        /\ queue'[o][i] = "hooks" /\ i # 1 => queue'[o][i - 1] = "audit"
      BY DEF QueueOrder
    <2>1. CASE o = d
      BY <1>1, <1>2, <2>1
    <2>2. CASE o # d
      BY <1>1, <2>2 DEF QueueOrder
    <2> QED  BY <2>1, <2>2
  <1>4. AuditedInTurn'
    <2> SUFFICES ASSUME NEW o \in Dispatches
                 PROVE  /\ o \in Range(appended') => o \in Range(published')
                        /\ o \in Range(appended') => \A i \in 2 .. Len(queue'[o]) : queue'[o][i] # "audit"
                        /\ queue'[o] # <<>> => o \in Range(published')
                        /\ queue'[o] # <<>> /\ queue'[o][1] \in {"audit", "hooks"} => o \in Range(appended')
                        /\ at'[o] # 0 => queue'[o] # <<>> /\ queue'[o][1] = "hooks"
      BY DEF AuditedInTurn
    <2>1. CASE o = d
      <3>1. Len(q) \in Nat
        BY LenProperties
      <3>2. ASSUME d \in Range(appended'), NEW i \in 2 .. Len(q)  PROVE q[i] # "audit"
        <4>1. CASE d \in Range(appended)
          BY <1>2, <3>1, <4>1
        <4>2. CASE d \notin Range(appended)
          <5>1. q[1] = "audit" /\ 1 \in 1 .. Len(q)
            BY <1>1, <3>1, <3>2, <4>2
          <5>2. 1 = Len(q) - 1
            BY <1>2, <5>1
          <5>3. Len(q) = 2
            BY <3>1, <5>2
          <5>4. i = 2
            BY <5>3
          <5>5. i # Len(q) - 1 /\ i \in 1 .. Len(q)
            BY <5>3, <5>4
          <5> QED  BY <1>2, <5>5
        <4> QED  BY <4>1, <4>2
      <3>3. q # <<>> /\ q[1] \in {"audit", "hooks"} => d \in Range(appended')
        BY <1>1, <1>2
      <3> QED  BY <1>1, <2>1, <3>2, <3>3
    <2>2. CASE o # d
      <3>1. o \in Range(appended') <=> o \in Range(appended)
        BY <1>1, <2>2
      <3>2. o \in Range(published') <=> o \in Range(published)
        BY <2>2
      <3> QED  BY <1>1, <2>2, <3>1, <3>2 DEF AuditedInTurn
    <2> QED  BY <2>1, <2>2
  <1> QED  BY <1>3, <1>4

\* A step that touches neither queues nor trail, and starts no delivery.
LEMMA QuietKeepsOrder ==
    ASSUME QueueOrder, AuditedInTurn, UNCHANGED <<published, queue, appended>>,
           \A d \in Dispatches : at'[d] # 0 => at[d] # 0
    PROVE  QueueOrder' /\ AuditedInTurn'
  BY DEF QueueOrder, AuditedInTurn

\* Every step keeps the order of the handlers.
LEMMA OrderStep ==
    ASSUME EventTypeOK, QueueOrder, AuditedInTurn, [Next]_vars
    PROVE  QueueOrder' /\ AuditedInTurn'
  <1>1. ASSUME NEW h \in Handlers, Subscribe(h) \/ Unsubscribe(h)  PROVE QueueOrder' /\ AuditedInTurn'
    <2>1. UNCHANGED <<published, queue, appended, at>>
      BY <1>1 DEF Subscribe, Unsubscribe, auditVars, hookVars
    <2> QED  BY <2>1, QuietKeepsOrder
  <1>2. ASSUME NEW h \in Hooks, Register(h) \/ Unregister(h)  PROVE QueueOrder' /\ AuditedInTurn'
    <2>1. UNCHANGED <<published, queue, appended, at>>
      BY <1>2 DEF Register, Unregister, busVars, auditVars
    <2> QED  BY <2>1, QuietKeepsOrder
  <1>3. ASSUME NEW d \in Dispatches, Dispatch(d)  PROVE QueueOrder' /\ AuditedInTurn'
    <2>1. subscribed \o Internal \in Seq(Subscriber) /\ Dispatched(d, subscribed \o Internal)
      BY <1>3, DispatchStarts
    <2>2. InOrder(d, subscribed \o Internal) /\ at[d] = 0
      BY <1>3, DispatchInOrder
    <2>3. Range(published') = Range(published) \cup {d}
      BY <1>3, RangeOfAppend DEF Dispatch, EventTypeOK
    <2> QED  BY <2>1, <2>2, <2>3, DispatchKeepsOrder
  <1>4. ASSUME NEW d \in Dispatches, Settle(d)  PROVE QueueOrder' /\ AuditedInTurn'
    <2>1. Tail(queue[d]) \in Seq(Subscriber) /\ Dispatched(d, Tail(queue[d]))
      BY <1>4, SettleDispatches
    <2>2. InOrder(d, Tail(queue[d])) /\ at[d] = 0 /\ d \in Range(published)
      BY <1>4, SettleInOrder
    <2>3. published' = published
      BY <1>4 DEF Settle
    <2>4. Range(published') = Range(published) \cup {d}
      BY <2>2, <2>3
    <2> QED  BY <2>1, <2>2, <2>4, DispatchKeepsOrder
  <1>5. ASSUME NEW d \in Dispatches, Attempt(d)  PROVE QueueOrder' /\ AuditedInTurn'
    <2>1. UNCHANGED <<published, queue, appended>>
      BY <1>5 DEF Attempt, busVars, auditVars
    <2>2. at[d] # 0 /\ \A o \in Dispatches : o # d => at'[o] = at[o]
      BY <1>5 DEF Attempt, GoToSlot, EventTypeOK
    <2> QED  BY <2>1, <2>2, QuietKeepsOrder
  <1>6. ASSUME Close  PROVE QueueOrder' /\ AuditedInTurn'
    <2>1. UNCHANGED <<published, queue, appended, at>>
      BY <1>6 DEF Close, auditVars
    <2> QED  BY <2>1, QuietKeepsOrder
  <1>7. ASSUME ClearAudit  PROVE QueueOrder' /\ AuditedInTurn'
    <2>1. UNCHANGED <<published, queue, appended, at>>
      BY <1>7 DEF ClearAudit, busVars, hookVars
    <2> QED  BY <2>1, QuietKeepsOrder
  <1>8. CASE UNCHANGED vars
    <2>1. UNCHANGED <<published, queue, appended, at>>
      BY <1>8 DEF vars, busVars, auditVars, hookVars
    <2> QED  BY <2>1, QuietKeepsOrder
  <1> QED  BY <1>1, <1>2, <1>3, <1>4, <1>5, <1>6, <1>7, <1>8, EventsAreDispatched DEF Next

-----------------------------------------------------------------------------
(* The audit trail. *)

\* A step leaves the trail alone, clears it, or records a dispatch that is new
\* to it.
LEMMA TrailSteps ==
    ASSUME EventTypeOK, QueueOrder, AuditedInTurn, [Next]_vars
    PROVE  \/ UNCHANGED auditVars
           \/ ClearAudit
           \/ \E d \in Dispatches : d \notin Range(appended) /\ AppendAudit(d)
  <1> DEFINE Goal == \/ UNCHANGED auditVars
                     \/ ClearAudit
                     \/ \E d \in Dispatches : d \notin Range(appended) /\ AppendAudit(d)
  <1>1. ASSUME NEW d \in Dispatches, NEW q \in Seq(Subscriber), Dispatched(d, q), InOrder(d, q)
        PROVE  Goal
    <2>1. CASE q # <<>> /\ q[1] = "audit"
      <3>1. AppendAudit(d)
        BY <1>1, <2>1, DispatchEffect
      <3>2. 1 \in 1 .. Len(q)
        BY <2>1, EmptySeq
      <3>3. d \in Range(appended) => \A i \in 1 .. Len(q) : q[i] # "audit"
        BY <1>1 DEF InOrder
      <3> QED  BY <2>1, <3>1, <3>2, <3>3
    <2>2. CASE q # <<>> /\ q[1] = "hooks"
      <3>1. UNCHANGED <<auditVars, webhooks, received, served, history>>
        BY <1>1, <2>2, DispatchEffect, Zenon
      <3> QED  BY <3>1
    <2>3. CASE ~ (q # <<>> /\ q[1] \in {"audit", "hooks"})
      <3>1. UNCHANGED <<auditVars, hookVars>>
        BY <1>1, <2>3, DispatchEffect
      <3> QED  BY <3>1
    <2> QED  BY <2>1, <2>2, <2>3
  <1>2. ASSUME NEW d \in Dispatches, Dispatch(d)  PROVE Goal
    <2>1. subscribed \o Internal \in Seq(Subscriber) /\ Dispatched(d, subscribed \o Internal)
      BY <1>2, DispatchStarts
    <2>2. InOrder(d, subscribed \o Internal)
      BY <1>2, DispatchInOrder
    <2> QED  BY <1>1, <2>1, <2>2
  <1>3. ASSUME NEW d \in Dispatches, Settle(d)  PROVE Goal
    <2>1. Tail(queue[d]) \in Seq(Subscriber) /\ Dispatched(d, Tail(queue[d]))
      BY <1>3, SettleDispatches
    <2>2. InOrder(d, Tail(queue[d]))
      BY <1>3, SettleInOrder
    <2> QED  BY <1>1, <2>1, <2>2
  <1>4. ASSUME NEW h \in Handlers, Subscribe(h) \/ Unsubscribe(h)  PROVE UNCHANGED auditVars
    BY <1>4 DEF Subscribe, Unsubscribe
  <1>5. ASSUME NEW h \in Hooks, Register(h) \/ Unregister(h)  PROVE UNCHANGED auditVars
    BY <1>5 DEF Register, Unregister
  <1>6. ASSUME NEW d \in Dispatches, Attempt(d)  PROVE UNCHANGED auditVars
    BY <1>6 DEF Attempt
  <1>7. ASSUME Close  PROVE UNCHANGED auditVars
    BY <1>7 DEF Close
  <1>8. ASSUME UNCHANGED vars  PROVE UNCHANGED auditVars
    BY <1>8 DEF vars
  <1> QED  BY <1>2, <1>3, <1>4, <1>5, <1>6, <1>7, <1>8, EventsAreDispatched DEF Next

\* The ring, shifted by one, still stands at the end of the history.
LEMMA AppendKeepsTrail ==
    ASSUME TrailTypeOK, TrailAligned, NEW d \in Dispatches, d \notin Range(appended), AppendAudit(d)
    PROVE  TrailAligned'
  <1> DEFINE n == Len(appended)
             m == Len(audit)
             c == dropped + cleared
  <1>1. /\ n \in Nat /\ m \in Nat /\ c \in Nat /\ m + c = n
        /\ DOMAIN appended = 1 .. n
        /\ audit \in Seq(Dispatches) /\ appended \in Seq(Dispatches)
        /\ dropped \in Nat /\ cleared \in Nat
        /\ cleared' = cleared
    BY LenProperties DEF TrailTypeOK, TrailAligned, AppendAudit
  <1>2. /\ Len(appended') = n + 1
        /\ \A i \in 1 .. n : appended'[i] = appended[i]
        /\ appended'[n + 1] = d
        /\ DOMAIN appended' = 1 .. n + 1
    BY <1>1, AppendProperties, LenProperties DEF AppendAudit
  <1>3. \A i \in 1 .. m : audit[i] = appended[c + i]
    BY DEF TrailAligned
  <1>4. IsInjective(appended')
    <2>1. \A i, j \in 1 .. n : appended[i] = appended[j] => i = j
      BY <1>1 DEF TrailAligned, IsInjective
    <2>2. \A i \in 1 .. n : appended[i] # d
      BY <1>1 DEF Range
    <2>3. ASSUME NEW i \in 1 .. n + 1, NEW j \in 1 .. n + 1, appended'[i] = appended'[j]
          PROVE  i = j
      <3>1. i \in 1 .. n \/ i = n + 1
        BY <1>1
      <3>2. j \in 1 .. n \/ j = n + 1
        BY <1>1
      <3> QED  BY <1>2, <2>1, <2>2, <2>3, <3>1, <3>2
    <2> QED  BY <1>2, <2>3 DEF IsInjective
  <1>5. CASE m >= Capacity
    <2>1. m \in Nat \ {0} /\ audit # <<>>
      BY <1>1, <1>5, EventAssumption, EmptySeq
    <2>2. /\ Tail(audit) \in Seq(Dispatches) /\ Len(Tail(audit)) = m - 1
          /\ \A i \in 1 .. m - 1 : Tail(audit)[i] = audit[i + 1]
      BY <1>1, <2>1, TailFacts
    <2>3. audit' = Append(Tail(audit), d) /\ dropped' = dropped + 1
      BY <1>5 DEF AppendAudit
    <2>4. /\ Len(audit') = m
          /\ audit'[m] = d
          /\ \A i \in 1 .. m - 1 : audit'[i] = Tail(audit)[i]
      <3>1. (m - 1) + 1 = m
        BY <2>1
      <3> QED  BY <2>2, <2>3, <3>1, AppendProperties
    <2>5. dropped' + cleared' = c + 1
      BY <1>1, <2>3
    <2> HIDE DEF n, m, c
    <2>6. Len(audit') + (dropped' + cleared') = Len(appended')
      <3>1. m + (c + 1) = n + 1
        BY <1>1
      <3> QED  BY <1>2, <2>4, <2>5, <3>1
    <2>7. ASSUME NEW i \in 1 .. m  PROVE audit'[i] = appended'[(c + 1) + i]
      <3>1. CASE i = m
        <4>1. (c + 1) + i = n + 1
          BY <1>1, <3>1
        <4> QED  BY <1>2, <2>4, <3>1, <4>1
      <3>2. CASE i # m
        <4>1. i \in 1 .. m - 1 /\ i + 1 \in 1 .. m /\ (c + 1) + i = c + (i + 1) /\ (c + 1) + i \in 1 .. n
          BY <1>1, <3>2
        <4>2. audit'[i] = audit[i + 1]
          BY <2>2, <2>4, <4>1
        <4>3. audit[i + 1] = appended[c + (i + 1)]
          BY <1>3, <4>1
        <4> QED  BY <1>2, <4>1, <4>2, <4>3
      <3> QED  BY <3>1, <3>2
    <2>8. \A i \in 1 .. Len(audit') : audit'[i] = appended'[dropped' + cleared' + i]
      BY <2>4, <2>5, <2>7
    <2>9. Len(audit') + dropped' + cleared' = Len(appended')
      <3>1. Len(audit') \in Nat /\ dropped' \in Nat /\ cleared' \in Nat
        BY <1>1, <2>3, <2>4
      <3> QED  BY <2>6, <3>1
    <2> QED  BY <1>4, <2>8, <2>9 DEF TrailAligned
  <1>6. CASE ~ (m >= Capacity)
    <2>1. audit' = Append(audit, d) /\ dropped' = dropped
      BY <1>6 DEF AppendAudit
    <2>2. /\ Len(audit') = m + 1
          /\ audit'[m + 1] = d
          /\ \A i \in 1 .. m : audit'[i] = audit[i]
      BY <1>1, <2>1, AppendProperties
    <2>3. dropped' + cleared' = c
      BY <1>1, <2>1
    <2> HIDE DEF n, m, c
    <2>4. ASSUME NEW i \in 1 .. m + 1  PROVE audit'[i] = appended'[c + i]
      <3>1. CASE i = m + 1
        <4>1. c + i = n + 1
          BY <1>1, <3>1
        <4> QED  BY <1>2, <2>2, <3>1, <4>1
      <3>2. CASE i # m + 1
        <4>1. i \in 1 .. m /\ c + i \in 1 .. n
          BY <1>1, <3>2
        <4> QED  BY <1>2, <1>3, <2>2, <4>1
      <3> QED  BY <3>1, <3>2
    <2>5. \A i \in 1 .. Len(audit') : audit'[i] = appended'[dropped' + cleared' + i]
      BY <2>2, <2>3, <2>4
    <2>6. Len(audit') + dropped' + cleared' = Len(appended')
      <3>1. Len(audit') + (dropped' + cleared') = Len(appended')
        BY <1>1, <1>2, <2>2, <2>3
      <3> QED  BY <1>1, <2>1, <2>2, <3>1
    <2> QED  BY <1>4, <2>5, <2>6 DEF TrailAligned
  <1> QED  BY <1>5, <1>6

\* Every step keeps the trail exact.
LEMMA TrailStep ==
    ASSUME EventTypeOK, QueueOrder, AuditedInTurn, TrailAligned, [Next]_vars
    PROVE  TrailAligned'
  <1>0. TrailTypeOK
    BY TypesByPart
  <1>1. CASE UNCHANGED auditVars
    BY <1>1 DEF auditVars, TrailAligned
  <1>2. CASE ClearAudit
    <2>1. Len(audit') = 0 /\ cleared' = cleared + Len(audit) /\ UNCHANGED <<dropped, appended>>
      BY <1>2 DEF ClearAudit
    <2>2. Len(audit) \in Nat /\ dropped \in Nat /\ cleared \in Nat
      BY <1>0, LenProperties DEF TrailTypeOK
    <2>3. Len(audit') + dropped' + cleared' = Len(appended')
      BY <2>1, <2>2 DEF TrailAligned
    <2>4. IsInjective(appended')
      BY <2>1 DEF TrailAligned
    <2>5. \A i \in 1 .. Len(audit') : audit'[i] = appended'[dropped' + cleared' + i]
      BY <2>1
    <2> QED  BY <2>3, <2>4, <2>5 DEF TrailAligned
  <1>3. CASE \E d \in Dispatches : d \notin Range(appended) /\ AppendAudit(d)
    BY <1>0, <1>3, AppendKeepsTrail
  <1> QED  BY <1>1, <1>2, <1>3, TrailSteps

\* A list is the end of another one, by index.
LEMMA SuffixByIndex ==
    ASSUME NEW S, NEW s \in Seq(S), NEW t \in Seq(S), NEW c \in Nat, Len(s) + c = Len(t),
           \A i \in 1 .. Len(s) : s[i] = t[c + i]
    PROVE  IsSuffix(s, t)
  <1> DEFINE m == Len(s)
             n == Len(t)
             rs == [i \in 1 .. m |-> s[(m - i) + 1]]
             rt == [i \in 1 .. n |-> t[(n - i) + 1]]
  <1>1. m \in Nat /\ n \in Nat
    BY LenProperties
  <1>2. Reverse(s) = rs /\ Reverse(t) = rt
    BY DEF Reverse
  <1>3. rs \in [1 .. m -> S] /\ rt \in [1 .. n -> S]
    <2>1. \A i \in 1 .. m : s[(m - i) + 1] \in S
      BY <1>1, ElementOfSeq
    <2>2. \A i \in 1 .. n : t[(n - i) + 1] \in S
      BY <1>1, ElementOfSeq
    <2> QED  BY <2>1, <2>2
  <1>4. \A i \in 1 .. m : rs[i] = rt[i]
    <2> SUFFICES ASSUME NEW i \in 1 .. m  PROVE rs[i] = rt[i]
      OBVIOUS
    <2>1. (m - i) + 1 \in 1 .. m /\ i \in 1 .. n
      BY <1>1
    <2>2. m + c = n
      OBVIOUS
    <2> HIDE DEF m, n
    <2>3. c + ((m - i) + 1) = (n - i) + 1
      BY <1>1, <2>2
    <2>4. s[(m - i) + 1] = t[c + ((m - i) + 1)]
      BY <2>1 DEF m
    <2> QED  BY <2>1, <2>3, <2>4
  <1> HIDE DEF rs, rt, m, n
  <1>5. rs \in Seq(S) /\ Len(rs) = m /\ rt \in Seq(S) /\ Len(rt) = n
    BY <1>1, <1>3, FunctionIsSequence
  <1>6. SubSeq(rs, 1, m) = SubSeq(rt, 1, m)
    <2>1. m <= n
      BY <1>1 DEF m, n
    <2>2. /\ SubSeq(rs, 1, m) \in Seq(S) /\ SubSeq(rt, 1, m) \in Seq(S)
          /\ Len(SubSeq(rs, 1, m)) = m /\ Len(SubSeq(rt, 1, m)) = m
          /\ \A i \in 1 .. m : SubSeq(rs, 1, m)[i] = rs[i] /\ SubSeq(rt, 1, m)[i] = rt[i]
      BY <1>1, <1>3, <1>5, <2>1, SubSeqProperties
    <2> QED  BY <1>4, <2>2, SeqEqual
  <1>7. m <= n
    BY <1>1 DEF m, n
  <1> QED  BY <1>2, <1>5, <1>6, <1>7 DEF IsSuffix, IsPrefix

-----------------------------------------------------------------------------
(* The webhooks. *)

\* The webhook handler is called by dispatch d.
StartDelivery(d) ==
    /\ at[d] = 0
    /\ GoToSlot(d, NextSlot(0, d))
    /\ steady' = [steady EXCEPT ![d] = LiveHooks]
    /\ UNCHANGED <<webhooks, received, served, history>>

\* A step leaves the webhooks alone, changes the Map, starts the deliveries of
\* a dispatch or ends an attempt.
LEMMA HookSteps ==
    ASSUME EventTypeOK, QueueOrder, AuditedInTurn, [Next]_vars
    PROVE  \/ UNCHANGED hookVars
           \/ \E h \in Hooks : Register(h) \/ Unregister(h)
           \/ Close
           \/ \E d \in Dispatches : StartDelivery(d) \/ Attempt(d)
  <1> DEFINE Goal == \/ UNCHANGED hookVars
                     \/ \E h \in Hooks : Register(h) \/ Unregister(h)
                     \/ Close
                     \/ \E d \in Dispatches : StartDelivery(d) \/ Attempt(d)
  <1>1. ASSUME NEW d \in Dispatches, NEW q \in Seq(Subscriber), Dispatched(d, q), at[d] = 0
        PROVE  Goal
    <2>1. CASE q # <<>> /\ q[1] = "audit"
      <3>1. UNCHANGED hookVars
        BY <1>1, <2>1, DispatchEffect, Zenon
      <3> QED  BY <3>1
    <2>2. CASE q # <<>> /\ q[1] = "hooks"
      <3>1. /\ GoToSlot(d, NextSlot(0, d))
            /\ steady' = [steady EXCEPT ![d] = LiveHooks]
            /\ UNCHANGED <<auditVars, webhooks, received, served, history>>
        BY <1>1, <2>2, DispatchEffect, Zenon
      <3>2. StartDelivery(d)
        BY <1>1, <3>1 DEF StartDelivery
      <3> QED  BY <3>2
    <2>3. CASE ~ (q # <<>> /\ q[1] \in {"audit", "hooks"})
      <3>1. UNCHANGED <<auditVars, hookVars>>
        BY <1>1, <2>3, DispatchEffect
      <3> QED  BY <3>1
    <2> QED  BY <2>1, <2>2, <2>3
  <1>2. ASSUME NEW d \in Dispatches, Dispatch(d)  PROVE Goal
    <2>1. subscribed \o Internal \in Seq(Subscriber) /\ Dispatched(d, subscribed \o Internal)
      BY <1>2, DispatchStarts
    <2>2. at[d] = 0
      BY <1>2, DispatchInOrder
    <2> QED  BY <1>1, <2>1, <2>2
  <1>3. ASSUME NEW d \in Dispatches, Settle(d)  PROVE Goal
    <2>1. Tail(queue[d]) \in Seq(Subscriber) /\ Dispatched(d, Tail(queue[d]))
      BY <1>3, SettleDispatches
    <2>2. at[d] = 0
      BY <1>3, SettleInOrder
    <2> QED  BY <1>1, <2>1, <2>2
  <1>4. ASSUME NEW h \in Handlers, Subscribe(h) \/ Unsubscribe(h)  PROVE UNCHANGED hookVars
    BY <1>4 DEF Subscribe, Unsubscribe
  <1>5. ASSUME ClearAudit  PROVE UNCHANGED hookVars
    BY <1>5 DEF ClearAudit
  <1>6. ASSUME UNCHANGED vars  PROVE UNCHANGED hookVars
    BY <1>6 DEF vars
  <1> QED  BY <1>2, <1>3, <1>4, <1>5, <1>6, EventsAreDispatched DEF Next

\* What the trail has had, it has had for ever.
LEMMA AppendedGrows ==
    ASSUME EventTypeOK, QueueOrder, AuditedInTurn, [Next]_vars
    PROVE  Range(appended) \subseteq Range(appended')
  <1>1. CASE UNCHANGED auditVars
    BY <1>1 DEF auditVars
  <1>2. CASE ClearAudit
    BY <1>2 DEF ClearAudit
  <1>3. CASE \E d \in Dispatches : d \notin Range(appended) /\ AppendAudit(d)
    <2>1. PICK d \in Dispatches : AppendAudit(d)
      BY <1>3
    <2>2. Range(appended') = Range(appended) \cup {d}
      BY <2>1, RangeOfAppend DEF AppendAudit, EventTypeOK
    <2> QED  BY <2>2
  <1> QED  BY <1>1, <1>2, <1>3, TrailSteps

\* What is sent out was recorded before.
LEMMA DeliveredStep ==
    ASSUME EventTypeOK, QueueOrder, AuditedInTurn, AuditedBeforeDelivered, [Next]_vars
    PROVE  AuditedBeforeDelivered'
  <1>1. Range(appended) \subseteq Range(appended')
    BY AppendedGrows
  <1>2. CASE received' = received
    BY <1>1, <1>2 DEF AuditedBeforeDelivered
  <1>3. ASSUME NEW d \in Dispatches, Attempt(d)  PROVE AuditedBeforeDelivered'
    <2>1. at[d] # 0
      BY <1>3 DEF Attempt
    <2>2. d \in Range(appended)
      BY <2>1 DEF AuditedInTurn
    <2>3. PICK h : received' \subseteq received \cup {<<h, d>>}
      BY <1>3 DEF Attempt
    <2> QED  BY <1>1, <2>2, <2>3 DEF AuditedBeforeDelivered
  <1>4. UNCHANGED hookVars => received' = received
    BY DEF hookVars
  <1>5. \A h \in Hooks : Register(h) \/ Unregister(h) => received' = received
    BY DEF Register, Unregister
  <1>6. Close => received' = received
    BY DEF Close
  <1>7. \A d \in Dispatches : StartDelivery(d) => received' = received
    BY DEF StartDelivery
  <1> QED  BY <1>2, <1>3, <1>4, <1>5, <1>6, <1>7, HookSteps

\* The part of the invariant about deliveries.
DeliveryInv == AttemptsInTurn /\ ResultsTruthful /\ SteadyPending

\* The deliveries of a dispatch start with the first matching slot, and the
\* steady hooks are those registered at that moment.
LEMMA StartKeepsDeliveries ==
    ASSUME EventTypeOK, DeliveryInv, NEW d \in Dispatches, StartDelivery(d)
    PROVE  DeliveryInv'
  <1> DEFINE j == NextSlot(0, d)
  <1>0. HookTypeOK
    BY TypesByPart
  <1>1. /\ j \in 0 .. Len(webhooks)
        /\ j = 0 => \A i \in 0 + 1 .. Len(webhooks) : ~ Matches(i, d)
        /\ j # 0 => \A i \in 0 + 1 .. Len(webhooks) : Matches(i, d) => j <= i
    BY NextSlotIsFirst
  <1> HIDE DEF j
  <1>2. /\ at' = [at EXCEPT ![d] = j]
        /\ attempt' = [attempt EXCEPT ![d] = IF j = 0 THEN 0 ELSE 1]
        /\ steady' = [steady EXCEPT ![d] = LiveHooks]
        /\ webhooks' = webhooks /\ received' = received /\ served' = served /\ history' = history
    BY DEF StartDelivery, GoToSlot, j
  <1>3. /\ at \in [Dispatches -> 0 .. Len(webhooks)] /\ attempt \in [Dispatches -> Nat]
        /\ steady \in [Dispatches -> SUBSET Hooks]
    BY DEF EventTypeOK
  <1>4. AttemptsInTurn'
    <2> SUFFICES ASSUME NEW o \in Dispatches, at'[o] # 0
                 PROVE  attempt'[o] \in 1 .. MaxAttempts(webhooks[at'[o]].id)
      BY <1>2 DEF AttemptsInTurn, MaxAttempts
    <2>1. CASE o = d
      <3>1. attempt'[d] = 1
        BY <1>2, <1>3, <2>1
      <3>2. MaxAttempts(webhooks[at'[o]].id) \in Nat \ {0}
        BY AttemptsGranted
      <3> QED  BY <2>1, <3>1, <3>2
    <2>2. CASE o # d
      BY <1>2, <1>3, <2>2 DEF DeliveryInv, AttemptsInTurn
    <2> QED  BY <2>1, <2>2
  <1>5. ResultsTruthful'
    BY <1>2 DEF DeliveryInv, ResultsTruthful, MaxAttempts
  <1>6. SteadyPending'
    <2> SUFFICES ASSUME NEW o \in Dispatches, NEW h \in steady'[o], EventOf(o) \in Wanted[h]
                 PROVE  \/ <<h, o>> \in served'
                        \/ at'[o] # 0 /\ \E i \in at'[o] .. Len(webhooks) : webhooks[i] = [id |-> h, live |-> TRUE]
      BY <1>2 DEF SteadyPending
    <2>1. CASE o = d
      <3>1. h \in LiveHooks
        BY <1>2, <1>3, <2>1
      <3>2. PICK i \in 1 .. Len(webhooks) : webhooks[i] = [id |-> h, live |-> TRUE]
        BY <1>0, <3>1, LiveHooksAtSlots
      <3>3. Matches(i, d)
        BY <2>1, <3>2 DEF Matches
      <3>4. j # 0 /\ j <= i
        BY <1>1, <3>3
      <3>5. i \in j .. Len(webhooks) /\ at'[d] = j
        BY <1>0, <1>1, <1>2, <1>3, <3>4, LiveHooksAtSlots
      <3> QED  BY <2>1, <3>2, <3>4, <3>5
    <2>2. CASE o # d
      BY <1>2, <1>3, <2>2 DEF DeliveryInv, SteadyPending
    <2> QED  BY <2>1, <2>2
  <1> QED  BY <1>4, <1>5, <1>6 DEF DeliveryInv

\* What is in a bounded list after a push: the new entry and some of the old.
LEMMA PushMembers ==
    ASSUME NEW S, NEW s \in Seq(S), NEW x \in S, NEW n \in Nat \ {0}, Len(s) <= n
    PROVE  LET q == IF Len(s) >= n THEN Append(Tail(s), x) ELSE Append(s, x)
           IN  \A i \in DOMAIN q : q[i] = x \/ \E k \in DOMAIN s : q[i] = s[k]
  <1>0. Len(s) \in Nat /\ DOMAIN s = 1 .. Len(s)
    BY LenProperties
  <1>1. CASE Len(s) >= n
    <2>1. s # <<>>
      BY <1>1, EmptySeq
    <2>2. /\ Tail(s) \in Seq(S) /\ Len(Tail(s)) = Len(s) - 1 /\ Len(s) \in Nat \ {0}
          /\ \A i \in 1 .. Len(s) - 1 : Tail(s)[i] = s[i + 1]
      BY <2>1, TailFacts
    <2> DEFINE q == Append(Tail(s), x)
    <2>3. /\ DOMAIN q = 1 .. Len(s)
          /\ q[Len(s)] = x
          /\ \A i \in 1 .. Len(s) - 1 : q[i] = Tail(s)[i]
      <3>1. q \in Seq(S) /\ Len(q) = (Len(s) - 1) + 1 /\ q[(Len(s) - 1) + 1] = x
            /\ \A i \in 1 .. Len(s) - 1 : q[i] = Tail(s)[i]
        BY <2>2, AppendProperties
      <3>2. (Len(s) - 1) + 1 = Len(s)
        BY <2>2
      <3> QED  BY <3>1, <3>2, LenProperties
    <2> HIDE DEF q
    <2>4. ASSUME NEW i \in DOMAIN q  PROVE q[i] = x \/ \E k \in DOMAIN s : q[i] = s[k]
      <3>1. CASE i = Len(s)
        BY <2>3, <3>1
      <3>2. CASE i # Len(s)
        <4>1. i \in 1 .. Len(s) - 1 /\ i + 1 \in 1 .. Len(s)
          BY <2>2, <2>3, <3>2
        <4>2. q[i] = s[i + 1]
          BY <2>2, <2>3, <4>1
        <4> QED  BY <1>0, <4>1, <4>2
      <3> QED  BY <3>1, <3>2
    <2> QED  BY <1>1, <2>4 DEF q
  <1>2. CASE ~ (Len(s) >= n)
    <2> DEFINE q == Append(s, x)
    <2>1. /\ DOMAIN q = 1 .. Len(s) + 1
          /\ q[Len(s) + 1] = x
          /\ \A i \in 1 .. Len(s) : q[i] = s[i]
      <3>1. q \in Seq(S) /\ Len(q) = Len(s) + 1 /\ q[Len(s) + 1] = x
            /\ \A i \in 1 .. Len(s) : q[i] = s[i]
        BY AppendProperties
      <3> QED  BY <3>1, LenProperties
    <2> HIDE DEF q
    <2>2. ASSUME NEW i \in DOMAIN q  PROVE q[i] = x \/ \E k \in DOMAIN s : q[i] = s[k]
      <3>1. i \in 1 .. Len(s) \/ i = Len(s) + 1
        BY <1>0, <2>1
      <3> QED  BY <1>0, <2>1, <3>1
    <2> QED  BY <1>2, <2>2 DEF q
  <1> QED  BY <1>1, <1>2

\* What ResultsTruthful says of one result.
Truthful(res) ==
    /\ res.success => <<res.hook, res.dispatch>> \in received
    /\ ~res.success => res.attempts = MaxAttempts(res.hook)
    /\ res.attempts <= MaxAttempts(res.hook)

\* An attempt that ends is repeated within the limit or leaves a true result,
\* and the hooks it goes past have theirs.
LEMMA AttemptKeepsDeliveries ==
    ASSUME EventTypeOK, DeliveryInv, NEW d \in Dispatches, Attempt(d)
    PROVE  DeliveryInv'
  <1> DEFINE i == at[d]
             h == webhooks[i].id
             j == NextSlot(i, d)
             Again(ok) == ~ok /\ attempt[d] < MaxAttempts(h)
             res(ok) == [hook |-> h, dispatch |-> d, success |-> ok, attempts |-> attempt[d]]
  <1>0. HookTypeOK
    BY TypesByPart
  <1>1. /\ i # 0 /\ i \in 1 .. Len(webhooks) /\ Len(webhooks) \in Nat
        /\ h \in Hooks /\ attempt[d] \in Nat
    BY <1>0, HookUnderWay DEF Attempt
  <1>2. /\ j \in 0 .. Len(webhooks)
        /\ j = 0 => \A k \in i + 1 .. Len(webhooks) : ~ Matches(k, d)
        /\ j # 0 => \A k \in i + 1 .. Len(webhooks) : Matches(k, d) => j <= k
    <2>1. i \in Nat
      BY <1>1
    <2>2. QED
      BY <2>1, NextSlotIsFirst, Zenon
  <1>3. webhooks' = webhooks /\ steady' = steady
    BY DEF Attempt
  <1>4. PICK arrives \in BOOLEAN, ok \in BOOLEAN :
          /\ ok => arrives
          /\ received' = IF arrives THEN received \cup {<<h, d>>} ELSE received
          /\ IF Again(ok)
             THEN /\ attempt' = [attempt EXCEPT ![d] = @ + 1]
                  /\ UNCHANGED <<at, history, served>>
             ELSE RecordResult(res(ok)) /\ GoToSlot(d, j)
    BY DEF Attempt
  <1>5. /\ at \in [Dispatches -> 0 .. Len(webhooks)] /\ attempt \in [Dispatches -> Nat]
        /\ steady \in [Dispatches -> SUBSET Hooks] /\ history \in Seq(Result) /\ Len(history) <= MaxHistory
    BY DEF EventTypeOK
  <1>6. attempt[d] \in 1 .. MaxAttempts(h) /\ MaxAttempts(h) \in Nat \ {0}
    BY <1>1, AttemptsGranted DEF DeliveryInv, AttemptsInTurn
  <1>7. \A o \in Dispatches : o # d /\ at[o] # 0 => attempt[o] \in 1 .. MaxAttempts(webhooks[at[o]].id)
    BY DEF DeliveryInv, AttemptsInTurn
  <1>8. \A o \in Dispatches : \A g \in steady[o] : EventOf(o) \in Wanted[g] =>
           \/ <<g, o>> \in served
           \/ at[o] # 0 /\ \E k \in at[o] .. Len(webhooks) : webhooks[k] = [id |-> g, live |-> TRUE]
    BY DEF DeliveryInv, SteadyPending
  <1>9. \A k \in DOMAIN history : Truthful(history[k])
    BY DEF DeliveryInv, ResultsTruthful, Truthful
  <1>10. res(ok) \in Result
    BY <1>1 DEF Result
  <1>11. \A k \in Nat \ {0} : Matches(k, d) <=> webhooks[k].live /\ EventOf(d) \in Wanted[webhooks[k].id]
    BY DEF Matches
  <1> HIDE DEF h, j
  <1>12. CASE Again(ok)
    <2>1. /\ attempt' = [attempt EXCEPT ![d] = @ + 1]
          /\ at' = at /\ history' = history /\ served' = served
      BY <1>4, <1>12
    <2>2. AttemptsInTurn'
      <3> SUFFICES ASSUME NEW o \in Dispatches, at[o] # 0
                   PROVE  attempt'[o] \in 1 .. MaxAttempts(webhooks[at[o]].id)
        BY <1>3, <2>1 DEF AttemptsInTurn, MaxAttempts
      <3>1. CASE o = d
        <4>1. attempt'[d] = attempt[d] + 1
          BY <1>5, <2>1
        <4>2. attempt[d] + 1 \in 1 .. MaxAttempts(h)
          BY <1>6, <1>12
        <4> QED  BY <3>1, <4>1, <4>2 DEF h
      <3>2. CASE o # d
        BY <1>5, <1>7, <2>1, <3>2
      <3> QED  BY <3>1, <3>2
    <2>3. ResultsTruthful'
      <3>1. received \subseteq received'
        BY <1>4
      <3> QED  BY <1>9, <2>1, <3>1 DEF ResultsTruthful, Truthful, MaxAttempts
    <2>4. SteadyPending'
      BY <1>3, <2>1 DEF DeliveryInv, SteadyPending
    <2> QED  BY <2>2, <2>3, <2>4 DEF DeliveryInv
  <1>13. CASE ~ Again(ok)
    <2>1. /\ history' = IF Len(history) >= MaxHistory THEN Append(Tail(history), res(ok))
                                                      ELSE Append(history, res(ok))
          /\ served' = served \cup {<<h, d>>}
      BY <1>4, <1>13 DEF RecordResult
    <2>2. /\ at' = [at EXCEPT ![d] = j]
          /\ attempt' = [attempt EXCEPT ![d] = IF j = 0 THEN 0 ELSE 1]
      BY <1>4, <1>13 DEF GoToSlot
    <2>3. AttemptsInTurn'
      <3> SUFFICES ASSUME NEW o \in Dispatches, at'[o] # 0
                   PROVE  attempt'[o] \in 1 .. MaxAttempts(webhooks[at'[o]].id)
        BY <1>3 DEF AttemptsInTurn, MaxAttempts
      <3>1. CASE o = d
        <4>1. attempt'[d] = 1
          BY <1>5, <2>2, <3>1
        <4>2. MaxAttempts(webhooks[at'[o]].id) \in Nat \ {0}
          BY AttemptsGranted
        <4> QED  BY <3>1, <4>1, <4>2
      <3>2. CASE o # d
        BY <1>5, <1>7, <2>2, <3>2
      <3> QED  BY <3>1, <3>2
    <2>4. ResultsTruthful'
      <3>1. received \subseteq received' /\ (ok => <<h, d>> \in received')
        BY <1>4
      <3>2. ~ok => attempt[d] = MaxAttempts(h)
        BY <1>6, <1>13
      <3>3. /\ res(ok).success = ok /\ res(ok).hook = h /\ res(ok).dispatch = d
            /\ res(ok).attempts = attempt[d]
        OBVIOUS
      <3>4. \A k \in DOMAIN history' :
               history'[k] = res(ok) \/ \E l \in DOMAIN history : history'[k] = history[l]
        <4>1. MaxHistory \in Nat \ {0}
          BY EventAssumption
        <4> HIDE DEF res
        <4> QED  BY <1>5, <1>10, <2>1, <4>1, PushMembers
      <3> DEFINE r == res(ok)
      <3> HIDE DEF res, r
      <3> SUFFICES ASSUME NEW k \in DOMAIN history'
                   PROVE  /\ history'[k].success => <<history'[k].hook, history'[k].dispatch>> \in received'
                          /\ ~history'[k].success => history'[k].attempts = MaxAttempts(history'[k].hook)
                          /\ history'[k].attempts <= MaxAttempts(history'[k].hook)
        BY DEF ResultsTruthful, MaxAttempts
      <3>5. CASE history'[k] = r
        <4>1. r.success = ok /\ r.hook = h /\ r.dispatch = d /\ r.attempts = attempt[d]
          BY <3>3 DEF r
        <4>2. attempt[d] <= MaxAttempts(h)
          BY <1>6
        <4> QED  BY <3>1, <3>2, <3>5, <4>1, <4>2
      <3>6. CASE \E l \in DOMAIN history : history'[k] = history[l]
        BY <1>9, <3>1, <3>6 DEF Truthful
      <3> QED  BY <3>4, <3>5, <3>6 DEF r
    <2>5. SteadyPending'
      <3> SUFFICES ASSUME NEW o \in Dispatches, NEW g \in steady[o], EventOf(o) \in Wanted[g]
                   PROVE  \/ <<g, o>> \in served'
                          \/ at'[o] # 0 /\ \E k \in at'[o] .. Len(webhooks) : webhooks[k] = [id |-> g, live |-> TRUE]
        BY <1>3 DEF SteadyPending
      <3>1. CASE o # d
        BY <1>5, <1>8, <2>1, <2>2, <3>1
      <3>2. CASE o = d /\ <<g, o>> \notin served
        <4>1. PICK k \in i .. Len(webhooks) : webhooks[k] = [id |-> g, live |-> TRUE]
          BY <1>8, <3>2
        <4>2. CASE k = i
          BY <2>1, <3>2, <4>1, <4>2 DEF h
        <4>3. CASE k # i
          <5>1. k \in i + 1 .. Len(webhooks) /\ k \in Nat \ {0}
            BY <1>1, <4>3
          <5>2. Matches(k, d)
            BY <1>11, <3>2, <4>1, <5>1
          <5>3. j # 0 /\ j <= k
            BY <1>2, <5>1, <5>2
          <5>4. k \in j .. Len(webhooks) /\ at'[d] = j
            BY <1>1, <1>2, <1>5, <2>2, <5>1, <5>3
          <5> QED  BY <3>2, <4>1, <5>3, <5>4
        <4> QED  BY <4>2, <4>3
      <3>3. CASE <<g, o>> \in served
        BY <2>1, <3>3
      <3> QED  BY <3>1, <3>2, <3>3
    <2> QED  BY <2>3, <2>4, <2>5 DEF DeliveryInv
  <1> QED  BY <1>12, <1>13

\* A change of the Map that keeps the slots in use and their ids, and the live
\* hooks that count as steady, keeps what is said about deliveries.
LEMMA MapKeepsDeliveries ==
    ASSUME EventTypeOK, DeliveryInv, UNCHANGED <<at, attempt, received, served, history>>,
           Len(webhooks') \in Nat, Len(webhooks) <= Len(webhooks'),
           \A i \in 1 .. Len(webhooks) : webhooks'[i].id = webhooks[i].id,
           \A d \in Dispatches : \A h \in steady'[d] :
              /\ h \in steady[d]
              /\ \A i \in 1 .. Len(webhooks) :
                    webhooks[i] = [id |-> h, live |-> TRUE] => webhooks'[i] = webhooks[i]
    PROVE  DeliveryInv'
  <1>0. HookTypeOK /\ Len(webhooks) \in Nat
    BY TypesByPart, LiveHooksAtSlots
  <1>1. AttemptsInTurn'
    <2> SUFFICES ASSUME NEW d \in Dispatches, at[d] # 0
                 PROVE  attempt[d] \in 1 .. MaxAttempts(webhooks'[at[d]].id)
      BY DEF AttemptsInTurn, MaxAttempts
    <2>1. at[d] \in 1 .. Len(webhooks)
      BY <1>0, HookUnderWay
    <2> QED  BY <2>1 DEF DeliveryInv, AttemptsInTurn
  <1>2. ResultsTruthful'
    BY DEF DeliveryInv, ResultsTruthful, MaxAttempts
  <1>3. SteadyPending'
    <2> SUFFICES ASSUME NEW d \in Dispatches, NEW h \in steady'[d],
                        EventOf(d) \in Wanted[h], <<h, d>> \notin served
                 PROVE  at[d] # 0 /\ \E i \in at[d] .. Len(webhooks') : webhooks'[i] = [id |-> h, live |-> TRUE]
      BY DEF SteadyPending
    <2>1. h \in steady[d]
      OBVIOUS
    <2>2. at[d] # 0 /\ \E i \in at[d] .. Len(webhooks) : webhooks[i] = [id |-> h, live |-> TRUE]
      BY <2>1 DEF DeliveryInv, SteadyPending
    <2>3. PICK i \in at[d] .. Len(webhooks) : webhooks[i] = [id |-> h, live |-> TRUE]
      BY <2>2
    <2>4. at[d] \in 1 .. Len(webhooks)
      BY <1>0, <2>2, HookUnderWay
    <2>5. i \in 1 .. Len(webhooks) /\ i \in at[d] .. Len(webhooks')
      BY <1>0, <2>4
    <2>6. webhooks'[i] = webhooks[i]
      BY <2>3, <2>5
    <2> QED  BY <2>2, <2>3, <2>5, <2>6
  <1> QED  BY <1>1, <1>2, <1>3 DEF DeliveryInv

\* Every step keeps the deliveries true and complete.
LEMMA DeliveryStep ==
    ASSUME EventTypeOK, QueueOrder, AuditedInTurn, DeliveryInv, [Next]_vars
    PROVE  DeliveryInv'
  <1>0. HookTypeOK
    BY TypesByPart
  <1>1. CASE UNCHANGED hookVars
    BY <1>1 DEF hookVars, DeliveryInv, AttemptsInTurn, ResultsTruthful, SteadyPending, MaxAttempts
  <1>2. ASSUME NEW h \in Hooks, Register(h)  PROVE DeliveryInv'
    <2>1. /\ Len(webhooks') = Len(webhooks) + 1 /\ Len(webhooks) \in Nat
          /\ \A i \in 1 .. Len(webhooks) : webhooks'[i] = webhooks[i]
      BY <1>0, <1>2, RegisterTypes
    <2>2. UNCHANGED <<at, attempt, received, served, history, steady>>
      BY <1>2 DEF Register
    <2>3. Len(webhooks') \in Nat /\ Len(webhooks) <= Len(webhooks')
      BY <2>1
    <2>4. \A i \in 1 .. Len(webhooks) : webhooks'[i].id = webhooks[i].id
      BY <2>1
    <2>5. \A d \in Dispatches : \A g \in steady'[d] :
             /\ g \in steady[d]
             /\ \A i \in 1 .. Len(webhooks) :
                   webhooks[i] = [id |-> g, live |-> TRUE] => webhooks'[i] = webhooks[i]
      BY <2>1, <2>2
    <2> QED  BY <2>2, <2>3, <2>4, <2>5, MapKeepsDeliveries
  <1>3. ASSUME NEW h \in Hooks, Unregister(h)  PROVE DeliveryInv'
    <2>1. /\ Len(webhooks') = Len(webhooks)
          /\ \A i \in 1 .. Len(webhooks) : webhooks'[i].id = webhooks[i].id
      BY <1>0, <1>3, UnregisterTypes
    <2>2. UNCHANGED <<at, attempt, received, served, history>>
      BY <1>3 DEF Unregister
    <2>3. Len(webhooks') \in Nat /\ Len(webhooks) <= Len(webhooks') /\ DOMAIN webhooks = 1 .. Len(webhooks)
      BY <1>0, <2>1, LiveHooksAtSlots
    <2>4. \A i \in 1 .. Len(webhooks) : webhooks[i].id # h => webhooks'[i] = webhooks[i]
      BY <1>3, <2>3 DEF Unregister
    <2>5. \A d \in Dispatches : \A g \in steady'[d] :
             /\ g \in steady[d]
             /\ \A i \in 1 .. Len(webhooks) :
                   webhooks[i] = [id |-> g, live |-> TRUE] => webhooks'[i] = webhooks[i]
      <3> SUFFICES ASSUME NEW d \in Dispatches, NEW g \in steady'[d]
                   PROVE  /\ g \in steady[d]
                          /\ \A i \in 1 .. Len(webhooks) :
                                webhooks[i] = [id |-> g, live |-> TRUE] => webhooks'[i] = webhooks[i]
        OBVIOUS
      <3>1. g \in steady[d] /\ g # h
        BY <1>3 DEF Unregister
      <3> QED  BY <2>4, <3>1
    <2> QED  BY <2>1, <2>2, <2>3, <2>5, MapKeepsDeliveries
  <1>4. ASSUME Close  PROVE DeliveryInv'
    <2>1. /\ Len(webhooks') = Len(webhooks)
          /\ \A i \in 1 .. Len(webhooks) : webhooks'[i].id = webhooks[i].id
      BY <1>0, <1>4, CloseTypes
    <2>2. UNCHANGED <<at, attempt, received, served, history>>
      BY <1>4 DEF Close
    <2>3. Len(webhooks') \in Nat /\ Len(webhooks) <= Len(webhooks')
      BY <1>0, <2>1, LiveHooksAtSlots
    <2>4. \A d \in Dispatches : steady'[d] = {}
      BY <1>4 DEF Close
    <2> QED  BY <2>1, <2>2, <2>3, <2>4, MapKeepsDeliveries
  <1> QED  BY <1>1, <1>2, <1>3, <1>4, HookSteps, StartKeepsDeliveries, AttemptKeepsDeliveries

-----------------------------------------------------------------------------
(* The theorems. *)

\* The inductive invariant of the event service: what the dispatches have
\* left, what the trail holds of it, and how far the deliveries have come.
THEOREM EventInvariance == Spec => []EventInv
  <1>1. Init => EventInv
    <2> SUFFICES ASSUME Init  PROVE EventInv
      OBVIOUS
    <2>1. BusTypeOK
      BY DEF Init, BusTypeOK
    <2>2. TrailTypeOK
      BY EventAssumption DEF Init, TrailTypeOK
    <2>3. HookTypeOK
      <3>1. at \in [Dispatches -> 0 .. Len(webhooks)]
        BY DEF Init
      <3>2. history \in Seq(Result) /\ Len(history) <= MaxHistory
        BY EventAssumption DEF Init
      <3>3. webhooks \in Seq([id : Hooks, live : BOOLEAN])
        BY DEF Init
      <3> QED  BY <3>1, <3>2, <3>3 DEF Init, HookTypeOK
    <2>4. EventTypeOK
      BY <2>1, <2>2, <2>3, TypesByPart
    <2>5. \A d \in Dispatches : queue[d] = <<>> /\ at[d] = 0 /\ steady[d] = {}
      BY DEF Init
    <2>6. \A d \in Dispatches : Len(queue[d]) = 0
      BY <2>5
    <2>7. QueueOrder
      BY <2>6 DEF QueueOrder
    <2>8. AuditedInTurn
      <3>1. Range(appended) = {}
        BY DEF Init, Range
      <3> QED  BY <2>5, <3>1 DEF AuditedInTurn
    <2>9. TrailAligned
      BY DEF Init, TrailAligned, IsInjective
    <2>10. AuditedBeforeDelivered
      BY DEF Init, AuditedBeforeDelivered
    <2>11. AttemptsInTurn /\ SteadyPending
      BY <2>5 DEF AttemptsInTurn, SteadyPending
    <2>12. ResultsTruthful
      BY DEF Init, ResultsTruthful
    <2> QED  BY <2>4, <2>7, <2>8, <2>9, <2>10, <2>11, <2>12 DEF EventInv
  <1>2. EventInv /\ [Next]_vars => EventInv'
    <2> SUFFICES ASSUME EventInv, [Next]_vars  PROVE EventInv'
      OBVIOUS
    <2>1. EventTypeOK /\ QueueOrder /\ AuditedInTurn /\ TrailAligned /\ AuditedBeforeDelivered
      BY DEF EventInv
    <2>2. DeliveryInv
      BY DEF EventInv, DeliveryInv
    <2>3. EventTypeOK'
      BY <2>1, TypesStep
    <2>4. QueueOrder' /\ AuditedInTurn'
      BY <2>1, OrderStep
    <2>5. TrailAligned'
      BY <2>1, TrailStep
    <2>6. AuditedBeforeDelivered'
      BY <2>1, DeliveredStep
    <2>7. DeliveryInv'
      BY <2>1, <2>2, DeliveryStep
    <2> QED  BY <2>3, <2>4, <2>5, <2>6, <2>7 DEF EventInv, DeliveryInv
  <1> QED  BY <1>1, <1>2, PTL DEF Spec

\* The audit trail is the newest part of what was recorded, no dispatch is in it
\* twice, and what is missing was pushed out or cleared: for any capacity, any
\* number of overlapping dispatches, of new events or of the same one over and
\* over, and of calls of clear().
THEOREM TrailIsExact == Spec => []AuditTrailExact
  <1>1. EventInv => AuditTrailExact
    <2> SUFFICES ASSUME EventInv  PROVE AuditTrailExact
      OBVIOUS
    <2>1. /\ audit \in Seq(Dispatches) /\ appended \in Seq(Dispatches) /\ dropped \in Nat /\ cleared \in Nat
          /\ Len(audit) \in Nat
      BY LenProperties DEF EventInv, EventTypeOK
    <2>2. /\ Len(audit) + dropped + cleared = Len(appended)
          /\ \A i \in 1 .. Len(audit) : audit[i] = appended[dropped + cleared + i]
          /\ IsInjective(appended)
      BY DEF EventInv, TrailAligned
    <2> DEFINE c == dropped + cleared
    <2>3. c \in Nat /\ Len(audit) + c = Len(appended)
      BY <2>1, <2>2
    <2>4. \A i \in 1 .. Len(audit) : audit[i] = appended[c + i]
      BY <2>2
    <2> HIDE DEF c
    <2>5. IsSuffix(audit, appended)
      BY <2>1, <2>3, <2>4, SuffixByIndex
    <2> QED  BY <2>2, <2>5 DEF AuditTrailExact
  <1> QED  BY <1>1, EventInvariance, PTL

\* No endpoint receives anything of a dispatch that the audit trail has not recorded,
\* whatever handlers come and go and whatever closes the service meanwhile.
THEOREM DeliveriesAreAudited == Spec => []AuditedBeforeDelivered
  <1>1. EventInv => AuditedBeforeDelivered
    BY DEF EventInv
  <1> QED  BY <1>1, EventInvariance, PTL

\* A recorded success arrived, and a recorded failure used every attempt, for
\* any number of retries.
THEOREM ResultsAreTruthful == Spec => []ResultsTruthful
  <1>1. EventInv => ResultsTruthful
    BY DEF EventInv
  <1> QED  BY <1>1, EventInvariance, PTL

\* The iteration over the live Map passes over no hook that stays registered.
THEOREM SteadyHooksAreServed == Spec => []SteadyHooksServed
  <1>1. EventInv => SteadyHooksServed
    <2> SUFFICES ASSUME EventInv, NEW d \in Range(published), at[d] = 0,
                        NEW h \in steady[d], EventOf(d) \in Wanted[h]
                 PROVE  <<h, d>> \in served
      BY DEF SteadyHooksServed
    <2>1. published \in Seq(Dispatches)
      BY DEF EventInv, EventTypeOK
    <2>2. d \in Dispatches
      BY <2>1, LenProperties, ElementOfSeq DEF Range
    <2> QED  BY <2>2 DEF EventInv, SteadyPending
  <1> QED  BY <1>1, EventInvariance, PTL
=============================================================================
