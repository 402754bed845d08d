---------------------------- MODULE EventService ----------------------------
(***************************************************************************)
(* The event service (apps/core/src/events): the in-process event bus, the *)
(* audit trail and the webhook dispatcher that it wires to the bus.        *)
(*                                                                         *)
(* publish takes a snapshot of the subscribed entries and awaits them one  *)
(* after the other; other publishes, subscriptions and webhook changes run *)
(* in between.  The webhook dispatcher awaits deliveries while it iterates *)
(* over its live Map.  All user handlers subscribe to the one event type   *)
(* that is published; the service's own handlers subscribe to "*".         *)
(* publishExisting dispatches an event again under the same id: the state  *)
(* of a dispatch belongs to the dispatch, not to the event.                *)
(***************************************************************************)
EXTENDS Naturals, Sequences, SequencesExt, FiniteSets

CONSTANTS Events,       \* event ids, of createEventId() or brought by a caller
          Handlers,     \* subscriptions users may make, each a HandlerEntry
          Once,         \* those made with subscribeOnce
          Hooks,        \* webhook ids
          Wanted,       \* hook -> the events that match its filter
          Retrying,     \* hooks in AT_LEAST_ONCE mode
          MaxRetries,   \* webhook.maxRetries
          Capacity,     \* the audit log's capacity
          MaxHistory,   \* WebhookDispatcher.maxHistory
          MaxSlots,     \* bound: registrations in a behaviour
          MaxDispatches \* bound: dispatches in a behaviour

ASSUME EventAssumption ==
    /\ Once \subseteq Handlers
    /\ Retrying \subseteq Hooks
    /\ Wanted \in [Hooks -> SUBSET Events]
    /\ {MaxRetries, MaxSlots, MaxDispatches} \subseteq Nat
    /\ {Capacity, MaxHistory} \subseteq Nat \ {0}
    /\ {"audit", "hooks"} \cap Handlers = {}

VARIABLES published,   \* dispatches in the order of publish and publishExisting
          subscribed,  \* the Set of user entries, in insertion order
          retired,     \* entries that were subscribed once and no longer are
          wired,       \* are the service's own handlers subscribed?
          queue,       \* dispatch -> entries of its dispatch left; the head has been called
          toRemove,    \* dispatch -> once-entries its dispatch has called
          calls,       \* <<entry, dispatch>> pairs of calls to user handlers
          audit,       \* AuditLog.buffer
          dropped,     \* AuditLog.dropped
          cleared,     \* history: number of entries that clear() removed
          appended,    \* history: everything that was ever appended
          webhooks,    \* the Map of webhooks; a deleted key leaves a dead slot
          at,          \* dispatch -> slot of the webhook being delivered to, or 0
          attempt,     \* dispatch -> number of the attempt under way
          received,    \* history: <<hook, dispatch>> pairs that reached the endpoint
          served,      \* history: <<hook, dispatch>> pairs that have a result
          history,     \* WebhookDispatcher.deliveryHistory
          steady       \* history: dispatch -> hooks registered ever since its dispatch began

busVars == <<published, subscribed, retired, wired, queue, toRemove, calls>>
auditVars == <<audit, dropped, cleared, appended>>
hookVars == <<webhooks, at, attempt, received, served, history, steady>>
vars == <<busVars, auditVars, hookVars>>

\* <<e, n>> is the n-th dispatch of event e.
Dispatches == Events \X (1 .. MaxDispatches)
EventOf(d) == d[1]

Subscriber == Handlers \cup {"audit", "hooks"}
Result == [hook : Hooks, dispatch : Dispatches, success : BOOLEAN, attempts : Nat]

EventTypeOK ==
    /\ published \in Seq(Dispatches)
    /\ subscribed \in Seq(Handlers)
    /\ retired \subseteq Handlers
    /\ wired \in BOOLEAN
    /\ queue \in [Dispatches -> Seq(Subscriber)]
    /\ toRemove \in [Dispatches -> SUBSET Handlers]
    /\ calls \subseteq Handlers \X Dispatches
    /\ audit \in Seq(Dispatches) /\ Len(audit) <= Capacity
    /\ dropped \in Nat /\ cleared \in Nat
    /\ appended \in Seq(Dispatches)
    /\ webhooks \in Seq([id : Hooks, live : BOOLEAN])
    /\ at \in [Dispatches -> 0 .. Len(webhooks)]
    /\ attempt \in [Dispatches -> Nat]
    /\ received \subseteq Hooks \X Dispatches
    /\ served \subseteq Hooks \X Dispatches
    /\ history \in Seq(Result) /\ Len(history) <= MaxHistory
    /\ steady \in [Dispatches -> SUBSET Hooks]

\* The constructor wires the audit handler, then the webhook handler.
Init ==
    /\ published = <<>> /\ subscribed = <<>> /\ retired = {} /\ calls = {}
    /\ wired = TRUE
    /\ queue = [d \in Dispatches |-> <<>>]
    /\ toRemove = [d \in Dispatches |-> {}]
    /\ audit = <<>> /\ dropped = 0 /\ cleared = 0 /\ appended = <<>>
    /\ webhooks = <<>>
    /\ at = [d \in Dispatches |-> 0]
    /\ attempt = [d \in Dispatches |-> 0]
    /\ received = {} /\ served = {} /\ history = <<>>
    /\ steady = [d \in Dispatches |-> {}]

-----------------------------------------------------------------------------
(* The audit log. *)

\* Mutant: the entry that is pushed out is not counted.
AppendUncounted(d) ==
    /\ audit' = IF Len(audit) >= Capacity THEN Append(Tail(audit), d) ELSE Append(audit, d)
    /\ appended' = Append(appended, d)
    /\ UNCHANGED <<dropped, cleared>>

\* AuditLog.append, by recordEvent.
AppendAudit(d) ==
    LET full == Len(audit) >= Capacity
    IN /\ audit' = Append(IF full THEN Tail(audit) ELSE audit, d)
       /\ dropped' = IF full THEN dropped + 1 ELSE dropped
       /\ appended' = Append(appended, d)
       /\ UNCHANGED cleared

-----------------------------------------------------------------------------
(* The webhook dispatcher. *)

LiveHooks == {webhooks[i].id : i \in {j \in DOMAIN webhooks : webhooks[j].live}}

\* Mutant: the iteration runs over the number of webhooks there are now.
NextSlotByCount(i, d) ==
    LET ahead == {j \in i + 1 .. Cardinality(LiveHooks) :
                    webhooks[j].live /\ EventOf(d) \in Wanted[webhooks[j].id]}
    IN IF ahead = {} THEN 0 ELSE CHOOSE j \in ahead : \A k \in ahead : j <= k

\* The slot that the iteration of dispatch d visits after slot i: the Map is
\* read as it is now.  0 when the iteration is over.
NextSlot(i, d) ==
    LET ahead == {j \in i + 1 .. Len(webhooks) : webhooks[j].live /\ EventOf(d) \in Wanted[webhooks[j].id]}
    IN IF ahead = {} THEN 0 ELSE CHOOSE j \in ahead : \A k \in ahead : j <= k

MaxAttempts(h) == IF h \in Retrying THEN MaxRetries + 1 ELSE 1

\* The iteration of d moves to slot j and makes the first attempt there.
GoToSlot(d, j) == /\ at' = [at EXCEPT ![d] = j]
                  /\ attempt' = [attempt EXCEPT ![d] = IF j = 0 THEN 0 ELSE 1]

\* WebhookDispatcher.recordResult
RecordResult(res) ==
    /\ history' = IF Len(history) >= MaxHistory THEN Append(Tail(history), res) ELSE Append(history, res)
    /\ served' = served \cup {<<res.hook, res.dispatch>>}

\* Mutant: the hook gives up one attempt early.
AttemptOffByOne(d) ==
    /\ at[d] # 0
    /\ LET h == webhooks[at[d]].id IN
       \E arrives, ok \in BOOLEAN :
          /\ ok => arrives
          /\ received' = IF arrives THEN received \cup {<<h, d>>} ELSE received
          /\ IF ~ok /\ attempt[d] + 1 < MaxAttempts(h)
             THEN /\ attempt' = [attempt EXCEPT ![d] = @ + 1]
                  /\ UNCHANGED <<at, history, served>>
             ELSE /\ RecordResult([hook |-> h, dispatch |-> d, success |-> ok, attempts |-> attempt[d]])
                  /\ GoToSlot(d, NextSlot(at[d], d))
    /\ UNCHANGED <<busVars, auditVars, webhooks, steady>>

\* The attempt under way for d ends; what is sent may arrive although the
\* answer is an error, late or lost.  A failed attempt is repeated while the
\* hook has attempts left; otherwise the result is recorded and the iteration
\* goes on.
Attempt(d) ==
    /\ at[d] # 0
    /\ LET h == webhooks[at[d]].id IN
       \E arrives, ok \in BOOLEAN :
          /\ ok => arrives
          /\ received' = IF arrives THEN received \cup {<<h, d>>} ELSE received
          /\ IF ~ok /\ attempt[d] < MaxAttempts(h)
             THEN /\ attempt' = [attempt EXCEPT ![d] = @ + 1]
                  /\ UNCHANGED <<at, history, served>>
             ELSE /\ RecordResult([hook |-> h, dispatch |-> d, success |-> ok, attempts |-> attempt[d]])
                  /\ GoToSlot(d, NextSlot(at[d], d))
    /\ UNCHANGED <<busVars, auditVars, webhooks, steady>>

\* WebhookDispatcher.register: a new key goes to the end of the Map, a key
\* that is there keeps its place.
Register(h) ==
    /\ h \notin LiveHooks
    /\ Len(webhooks) < MaxSlots
    /\ webhooks' = Append(webhooks, [id |-> h, live |-> TRUE])
    /\ UNCHANGED <<busVars, auditVars, at, attempt, received, served, history, steady>>

\* WebhookDispatcher.unregister
Unregister(h) ==
    /\ h \in LiveHooks
    /\ webhooks' = [i \in DOMAIN webhooks |->
                      IF webhooks[i].id = h THEN [webhooks[i] EXCEPT !.live = FALSE] ELSE webhooks[i]]
    /\ steady' = [d \in Dispatches |-> steady[d] \ {h}]
    /\ UNCHANGED <<busVars, auditVars, at, attempt, received, served, history>>

-----------------------------------------------------------------------------
(* The event bus. *)

\* The handler of an entry is called with d's event and runs to its first await.
Call(entry, d) ==
    \/ /\ entry = "audit"
       /\ AppendAudit(d)
       /\ UNCHANGED <<calls, hookVars>>
    \/ /\ entry = "hooks"
       /\ GoToSlot(d, NextSlot(0, d))
       /\ steady' = [steady EXCEPT ![d] = LiveHooks]
       /\ UNCHANGED <<calls, auditVars, webhooks, received, served, history>>
    \/ /\ entry \in Handlers
       /\ calls' = calls \cup {<<entry, d>>}
       /\ UNCHANGED <<auditVars, hookVars>>

\* removeHandler of the entries in gone: the others stay, in their order.
RemoveHandlers(gone) ==
    /\ \E left \in SeqOf(Range(subscribed) \ gone, Len(subscribed)) :
          /\ Range(left) = Range(subscribed) \ gone
          /\ IsInjective(left)
          /\ \A i, j \in DOMAIN left, k, l \in DOMAIN subscribed :
                subscribed[k] = left[i] /\ subscribed[l] = left[j] => (i < j <=> k < l)
          /\ subscribed' = left
    /\ retired' = retired \cup (gone \cap Range(subscribed))

\* EventBus.subscribe and subscribeOnce
Subscribe(h) ==
    /\ h \notin retired \cup Range(subscribed)
    /\ subscribed' = Append(subscribed, h)
    /\ UNCHANGED <<published, retired, wired, queue, toRemove, calls, auditVars, hookVars>>

\* The function that subscribe returned.
Unsubscribe(h) ==
    /\ h \in Range(subscribed)
    /\ RemoveHandlers({h})
    /\ UNCHANGED <<published, wired, queue, toRemove, calls, auditVars, hookVars>>

\* Mutant: the wildcard handlers are wired in the other order.
InternalReversed == IF wired THEN <<"hooks", "audit">> ELSE <<>>

Internal == IF wired THEN <<"audit", "hooks">> ELSE <<>>

\* EventBus.dispatch begins, under a name d that no other dispatch has: typed
\* entries first, then the wildcard ones; the first of them is called at once.
Dispatch(d) ==
    LET entries == subscribed \o Internal IN
    /\ d \notin Range(published) /\ Len(published) < MaxDispatches
    /\ published' = Append(published, d)
    /\ queue' = [queue EXCEPT ![d] = entries]
    /\ IF entries = <<>> THEN UNCHANGED <<calls, auditVars, hookVars>> ELSE Call(Head(entries), d)
    /\ UNCHANGED <<subscribed, retired, wired, toRemove>>

\* EventBus.publish: the event is new, createEventId() has not given its id out.
Publish(e) ==
    /\ \A d \in Range(published) : EventOf(d) # e
    /\ Dispatch(<<e, 1>>)

\* EventBus.publishExisting: any event, also one that was dispatched before and
\* whose dispatches may still be under way.
PublishExisting(e) ==
    \E n \in 1 .. MaxDispatches :
       /\ \A m \in 1 .. n - 1 : <<e, m>> \in Range(published)
       /\ Dispatch(<<e, n>>)

\* Mutant: an error in a user handler ends the dispatch.
SettleNoCatch(d) ==
    /\ queue[d] # <<>>
    /\ Head(queue[d]) = "hooks" => at[d] = 0
    /\ \E failed \in BOOLEAN :
          /\ failed => Head(queue[d]) \in Handlers
          /\ queue' = [queue EXCEPT ![d] = IF failed THEN <<>> ELSE Tail(@)]
    /\ IF queue'[d] = <<>> THEN UNCHANGED <<calls, auditVars, hookVars>> ELSE Call(Head(queue'[d]), d)
    /\ UNCHANGED <<published, subscribed, retired, wired, toRemove>>

\* The entry that d awaits settles, with or without an error; the next one is
\* called, and after the last one the once-entries are removed.
Settle(d) ==
    LET entry == Head(queue[d])
        rest == Tail(queue[d])
        once == toRemove[d] \cup ({entry} \cap Once)
    IN /\ queue[d] # <<>>
       /\ entry = "hooks" => at[d] = 0
       /\ queue' = [queue EXCEPT ![d] = rest]
       /\ toRemove' = [toRemove EXCEPT ![d] = once]
       /\ IF rest = <<>>
          THEN /\ RemoveHandlers(once)
               /\ UNCHANGED <<calls, auditVars, hookVars>>
          ELSE /\ Call(Head(rest), d)
               /\ UNCHANGED <<subscribed, retired>>
       /\ UNCHANGED <<published, wired>>

\* EventService.close; dispatches under way go on with their snapshots.
Close ==
    /\ wired
    /\ wired' = FALSE
    /\ subscribed' = <<>>
    /\ retired' = retired \cup Range(subscribed)
    /\ webhooks' = [i \in DOMAIN webhooks |-> [webhooks[i] EXCEPT !.live = FALSE]]
    /\ steady' = [d \in Dispatches |-> {}]
    /\ UNCHANGED <<published, queue, toRemove, calls, auditVars, at, attempt, received, served, history>>

\* AuditLog.clear
ClearAudit ==
    /\ audit # <<>>
    /\ audit' = <<>>
    /\ cleared' = cleared + Len(audit)
    /\ UNCHANGED <<busVars, dropped, appended, hookVars>>

Next ==
    \/ \E h \in Handlers : Subscribe(h) \/ Unsubscribe(h)
    \/ \E h \in Hooks : Register(h) \/ Unregister(h)
    \/ \E e \in Events : Publish(e) \/ PublishExisting(e)
    \/ \E d \in Dispatches : Settle(d) \/ Attempt(d)
    \/ Close
    \/ ClearAudit

Spec == Init /\ [][Next]_vars

\* Handlers settle and fetches end (fetchWithTimeout aborts those that hang).
FairSpec == Spec /\ \A d \in Dispatches : WF_vars(Settle(d)) /\ WF_vars(Attempt(d))

-----------------------------------------------------------------------------
\* The audit trail is the newest part of what was appended; however often an
\* event is dispatched, no dispatch is recorded twice; and every entry that is
\* missing was dropped by the ring or by clear().
AuditTrailExact ==
    /\ IsSuffix(audit, appended)
    /\ IsInjective(appended)
    /\ Len(audit) + dropped + cleared = Len(appended)

\* What any endpoint has received of a dispatch is in the audit trail's history:
\* the audit handler always runs before the webhook handler.
AuditedBeforeDelivered ==
    \A h \in Hooks, d \in Dispatches : <<h, d>> \in received => d \in Range(appended)

\* A recorded success reached its endpoint, and a recorded failure used every
\* attempt its delivery mode grants.
ResultsTruthful ==
    \A i \in DOMAIN history :
        LET res == history[i] IN
        /\ res.success => <<res.hook, res.dispatch>> \in received
        /\ ~res.success => res.attempts = MaxAttempts(res.hook)
        /\ res.attempts <= MaxAttempts(res.hook)

\* When the webhook handler is done with a dispatch, every matching hook that
\* was registered throughout has a result, whatever was registered and
\* unregistered around it while deliveries were awaited.
SteadyHooksServed ==
    \A d \in Range(published) :
        at[d] = 0 => \A h \in steady[d] : EventOf(d) \in Wanted[h] => <<h, d>> \in served

\* event-bus.test.ts: "subscribeOnce removes handler after first dispatch".
OnceRunsOnce == \A h \in Once : Cardinality({d \in Dispatches : <<h, d>> \in calls}) <= 1

\* A dispatch begun while the service is open reaches the audit trail, also
\* when user handlers throw and when the service is closed meanwhile.
PublishedEventsAudited ==
    \A d \in Dispatches : (queue[d] # <<>> /\ Last(queue[d]) = "hooks") ~> d \in Range(appended)
=============================================================================
