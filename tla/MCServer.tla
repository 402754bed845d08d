------------------------------ MODULE MCServer ------------------------------
(***************************************************************************)
(* TLC instance of what runs beside and around the room registry: the      *)
(* registry itself, the metrics that read it, the life of the process, the *)
(* scan and the diagnostics.  A behaviour is about one of them, its focus, *)
(* and the others keep still: their state spaces add up, not multiply.     *)
(***************************************************************************)
EXTENDS MetricsService, Diagnostics

CONSTANTS FewPeers,             \* the peers of the focuses "figures" and "life"
          OneRoom, OneSocket,   \* the room and the socket of the focus "life"
          OnePeer,              \* the peer of the focus "admin"
          OneSignal             \* the signal that does not come in "scan" and "admin"

VARIABLE focus

serverVars == <<regVars, metricVars, scanVars, processVars, diagnosticsVars, focus>>

ServerInit ==
    /\ RegistryInit /\ MetricsInit /\ ScanInit /\ LifecycleInit /\ DiagnosticsInit
    /\ focus \in {"registry", "names", "figures", "life", "scan", "admin"}
    /\ focus # "names" => strict
    /\ focus # "scan" => hosts = 0
    /\ focus # "life" => (env.mdns <=> focus # "admin")
    /\ focus # "scan" => ~env.scan
    /\ focus # "admin" => ~provided /\ hung = {}

\* Registration with an idle room service, or collection with a few names.
OnNames == MetricsOperation /\ media' = media /\ UNCHANGED regVars
OnFigures == /\ MetricsNext
             /\ \A p \in Peers : socketOf'[p] \in {None, OneSocket}
             /\ sessions' \subseteq FewPeers
             /\ \A e \in instruments' : e.maker # "caller"
             /\ removed' \subseteq {"rooms"}
             /\ joined' = 0

OnlyOne == /\ rooms' \subseteq {OneRoom}
           /\ sessions' \subseteq FewPeers
           /\ \A p \in Peers : socketOf'[p] \in {None, OneSocket}

\* Diagnostics with one peer in two rooms, one of which may stand empty.
OnAdmin == /\ DiagnosticsNext
           /\ \A r \in rooms' \ {OneRoom} : members'[r] # {}
           /\ stopping'[OneSignal] = "idle"
           /\ \A p \in Peers : socketOf'[p] \in IF p = OnePeer THEN {None, OneSocket} ELSE {None}

ServerNext ==
    /\ UNCHANGED focus
    /\ \/ focus = "registry" /\ RegistryNext /\ UNCHANGED <<metricVars, scanVars, processVars, diagnosticsVars>>
       \/ focus = "names" /\ OnNames /\ UNCHANGED <<scanVars, processVars, diagnosticsVars>>
       \/ focus = "figures" /\ OnFigures /\ UNCHANGED <<scanVars, processVars, diagnosticsVars>>
       \/ focus = "life" /\ LifecycleNext /\ OnlyOne /\ UNCHANGED <<metricVars, diagnosticsVars>>
       \/ /\ focus = "scan" /\ LifecycleNext
          /\ rooms' = {} /\ stopping'[OneSignal] = "idle" /\ UNCHANGED <<metricVars, diagnosticsVars>>
       \/ focus = "admin" /\ OnAdmin /\ UNCHANGED metricVars

ServerSpec == ServerInit /\ [][ServerNext]_serverVars /\ LifecycleFairness /\ DiagnosticsFairness

\* The sections that the routes ask for, and a call that leaves two out.
SomeSelections == {{"workers", "rooms", "peers"}, {"rooms"}}

\* TLC evaluates this for all networks of 6-bit addresses.
ASSUME EnumerationAssumption == HostsEnumerated(6)
=============================================================================
