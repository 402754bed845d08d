--------------------------- MODULE MetricsService ---------------------------
(***************************************************************************)
(* The metrics of the server (apps/core/src/metrics): the MetricRegistry   *)
(* with its instruments and descriptors, the MetricsCollector that reads   *)
(* the room service, and the MetricsService over both.  Every method is    *)
(* one synchronous step; one that throws keeps what it did before that.    *)
(*                                                                         *)
(* The gauges that copy figures of the operating system are left out; the  *)
(* gauges of transports, producers and consumers, which are treated alike, *)
(* are one, and so are the two counters and the two built-in gauges.       *)
(***************************************************************************)
EXTENDS RoomRegistry, Naturals, Sequences, FiniteSets

CONSTANTS CallerNames,   \* names of the instruments that callers register
          MaxEvents      \* bound: joins counted

\* The mark of a series that was never set is no value of a series.
ASSUME MetricsServiceAssumption == None \notin Nat

VARIABLES strict,        \* MetricRegistry.strictMode
          instruments,   \* MetricRegistry's three stores: [type, name, maker]
          descriptors,   \* MetricRegistry.descriptors: [name, type]
          ready,         \* MetricsCollector.initialized
          initialized,   \* MetricsService.initialized
          media,         \* the peers that hold a transport
          connected,     \* peersConnectedGauge
          joined,        \* peersJoinedCounter
          roomSeries,    \* roomPeerCountGauge: room -> value of its series, or None
          mediaSeries,   \* peerTransportsGauge: room -> peer -> value, or None
          fresh,         \* history: nothing happened since the last collect
          removed        \* history: names that callers took out of the registry

storeVars == <<strict, instruments, descriptors>>
cellVars == <<connected, joined, roomSeries, mediaSeries>>
metricVars == <<storeVars, cellVars, ready, initialized, media, fresh, removed>>

Types == {"counter", "gauge", "histogram"}
Instrument(t, n, m) == [type |-> t, name |-> n, maker |-> m]
Custom(t, n) == Instrument(t, n, "caller")

\* What MetricsCollector.initialize registers, in this order, and what
\* registerBuiltInMetrics adds.
Standard == <<Instrument("gauge", "connected", "collector"),
              Instrument("counter", "joined", "collector"),
              Instrument("gauge", "rooms", "collector"),
              Instrument("gauge", "media", "collector"),
              Instrument("histogram", "requests", "collector")>>
BuiltIn == Instrument("gauge", "up", "service")
Names == {"connected", "joined", "rooms", "media", "requests", "up"} \cup CallerNames

MetricsInit ==
    /\ strict \in BOOLEAN
    /\ instruments = {}
    /\ descriptors = {}
    /\ ready = FALSE
    /\ initialized = FALSE
    /\ media = {}
    /\ connected = 0
    /\ joined = 0
    /\ roomSeries = [r \in Rooms |-> None]
    /\ mediaSeries = [r \in Rooms |-> [p \in Peers |-> None]]
    /\ fresh = FALSE
    /\ removed = {}

-----------------------------------------------------------------------------
(* MetricRegistry. *)

InStore(reg, e) == \E x \in reg.instruments : x.type = e.type /\ x.name = e.name

\* Mutant: the descriptors are not asked for the type of the name.
RegisterUnasked(reg, e) ==
    IF reg.threw \/ InStore(reg, e) THEN [reg EXCEPT !.threw = @ \/ strict]
    ELSE [instruments |-> reg.instruments \cup {e},
          descriptors |-> {d \in reg.descriptors : d.name # e.name} \cup {[name |-> e.name, type |-> e.type]},
          threw |-> FALSE]

\* MetricRegistry.register; the instrument that is there stays.  After a
\* throw the rest of the caller's code is not reached.
Register(reg, e) ==
    CASE reg.threw -> reg
      [] ~reg.threw /\ InStore(reg, e) -> [reg EXCEPT !.threw = strict]
      [] ~reg.threw /\ ~InStore(reg, e) /\ (\E d \in reg.descriptors : d.name = e.name /\ d.type # e.type)
           -> [reg EXCEPT !.threw = TRUE]
      [] OTHER -> [instruments |-> reg.instruments \cup {e},
                   descriptors |-> {d \in reg.descriptors : d.name # e.name} \cup {[name |-> e.name, type |-> e.type]},
                   threw |-> FALSE]

\* The registrations of MetricsCollector.initialize.
RegisterStandard(reg) ==
    Register(Register(Register(Register(Register(reg, Standard[1]), Standard[2]), Standard[3]), Standard[4]), Standard[5])

Registry == [instruments |-> instruments, descriptors |-> descriptors, threw |-> FALSE]
Keep(reg) == instruments' = reg.instruments /\ descriptors' = reg.descriptors

\* MetricRegistry.merge of a registry that holds these instruments.
MergeRegistry(c, g) ==
    /\ Keep(Register(Register(Registry, Custom("counter", c)), Custom("gauge", g)))
    /\ UNCHANGED <<strict, ready, initialized, removed, cellVars, media, fresh>>

\* MetricRegistry.unregister
Unregister(n) ==
    \E d \in descriptors :
        /\ d.name = n
        /\ descriptors' = descriptors \ {d}
        /\ instruments' = {e \in instruments : ~(e.type = d.type /\ e.name = n)}
        /\ removed' = removed \cup {n}
        /\ UNCHANGED <<strict, ready, initialized, cellVars, media, fresh>>

\* MetricRegistry.clear, called by somebody else than restart.
ClearRegistry ==
    /\ instruments' = {}
    /\ descriptors' = {}
    /\ removed' = Names
    /\ UNCHANGED <<strict, ready, initialized, cellVars, media, fresh>>

-----------------------------------------------------------------------------
(* MetricsService and MetricsCollector. *)

\* Mutant: the flag is set before the instruments are registered.
InitializedFlagFirst(reg) ==
    LET standard == IF ready THEN reg ELSE RegisterStandard(reg)
        all == IF initialized THEN reg ELSE Register(standard, BuiltIn)
    IN [registry |-> all, ready |-> TRUE, initialized |-> TRUE]

\* MetricsService.initialize: the collector's instruments, then the built-in
\* ones; a flag is set only when everything before it was registered.
Initialized(reg) ==
    LET standard == IF ready THEN reg ELSE RegisterStandard(reg)
        all == Register(standard, BuiltIn)
    IN IF initialized
       THEN [registry |-> reg, ready |-> ready, initialized |-> TRUE]
       ELSE [registry |-> all, ready |-> ready \/ ~standard.threw, initialized |-> ~all.threw]

\* initialize on the registry, after which it holds reg.
EnterInitialized(reg) ==
    /\ Keep(reg)
    /\ ready' = Initialized(Registry).ready
    /\ initialized' = Initialized(Registry).initialized
    /\ UNCHANGED <<strict, cellVars, media, fresh, removed>>

Initialize == EnterInitialized(Initialized(Registry).registry)

\* MetricsService.registerCounter, registerGauge, registerHistogram
RegisterCustom(t, n) == EnterInitialized(Register(Initialized(Registry).registry, Custom(t, n)))

\* Registration with getRegistry(), past the service.
RegisterDirectly(t, n) ==
    /\ Keep(Register(Registry, Custom(t, n)))
    /\ UNCHANGED <<strict, ready, initialized, removed, cellVars, media, fresh>>

\* MetricsService.onPeerJoined
OnPeerJoined ==
    /\ joined < MaxEvents
    /\ joined' = joined + 1
    /\ UNCHANGED <<storeVars, ready, initialized, removed, connected, roomSeries, mediaSeries, media, fresh>>

\* MetricsCollector.collectPeerMetrics: peers of listed rooms.
Connected == {p \in Peers : \E r \in rooms : p \in members[r]}

\* updatePeerMediaGauges, after the reset of the gauge: a peer in a room whose
\* session is registered has a series of its own, other series read 0.
MediaSeries == [r \in Rooms |-> [p \in Peers |->
                   IF r \in rooms /\ p \in members[r] /\ p \in sessions THEN IF p \in media THEN 1 ELSE 0
                   ELSE IF mediaSeries[r][p] = None THEN None ELSE 0]]

\* Mutant: the gauges are not reset before they are filled.
CollectOver ==
    LET done == Initialized(Registry) IN
    /\ Keep(done.registry)
    /\ ready' = done.ready
    /\ initialized' = done.initialized
    /\ UNCHANGED <<strict, joined, media, removed>>
    /\ connected' = Cardinality(Connected)
    /\ roomSeries' = [r \in Rooms |-> IF r \in rooms THEN Cardinality(members[r]) ELSE roomSeries[r]]
    /\ mediaSeries' = MediaSeries
    /\ fresh' = TRUE

\* MetricsService.collect, collectApplicationMetrics, and scrape: initialize,
\* then MetricsCollector.collect fills the gauges from the room service.
Collect ==
    LET done == Initialized(Registry) IN
    /\ Keep(done.registry)
    /\ ready' = done.ready
    /\ initialized' = done.initialized
    /\ UNCHANGED <<strict, joined, media, removed>>
    /\ IF done.registry.threw
       THEN UNCHANGED <<connected, roomSeries, mediaSeries, fresh>>
       ELSE /\ connected' = Cardinality(Connected)
            /\ roomSeries' = [r \in Rooms |-> IF r \in rooms THEN Cardinality(members[r])
                                              ELSE IF roomSeries[r] = None THEN None ELSE 0]
            /\ mediaSeries' = MediaSeries
            /\ fresh' = TRUE

\* Gauge.reset and Counter.reset of every series that has a cell.
Exported(n) == \E e \in instruments : e.name = n /\ e.maker = "collector"
Zeroed(cell) == IF cell = None THEN None ELSE 0

\* MetricsService.reset: MetricRegistry.resetAll reaches registered instruments.
Reset ==
    /\ connected' = IF Exported("connected") THEN 0 ELSE connected
    /\ joined' = IF Exported("joined") THEN 0 ELSE joined
    /\ roomSeries' = IF Exported("rooms") THEN [r \in Rooms |-> Zeroed(roomSeries[r])] ELSE roomSeries
    /\ mediaSeries' = IF Exported("media")
                      THEN [r \in Rooms |-> [p \in Peers |-> Zeroed(mediaSeries[r][p])]] ELSE mediaSeries
    /\ fresh' = FALSE
    /\ UNCHANGED <<storeVars, ready, initialized, removed, media>>

\* MetricsService.restart: clear the registry and initialize again.  The
\* collector's own flag is not touched, so its instruments do not come back.
Restart ==
    LET empty == [instruments |-> {}, descriptors |-> {}, threw |-> FALSE]
        standard == IF ready THEN empty ELSE RegisterStandard(empty)
    IN /\ Keep(Register(standard, BuiltIn))
       /\ ready' = TRUE
       /\ initialized' = TRUE
       /\ removed' = {}
       /\ UNCHANGED <<strict, cellVars, media, fresh>>

\* A media request of a peer, or the end of a transport.
MediaChange(p) ==
    /\ p \in sessions
    /\ media' = IF p \in media THEN media \ {p} ELSE media \cup {p}
    /\ fresh' = FALSE
    /\ UNCHANGED <<storeVars, cellVars, ready, initialized, removed>>

MetricsOperation ==
    \/ Initialize
    \/ \E n \in CallerNames : \/ \E t \in Types : RegisterCustom(t, n) \/ RegisterDirectly(t, n)
                              \/ \E m \in CallerNames : MergeRegistry(n, m)
    \/ \E n \in Names : Unregister(n)
    \/ ClearRegistry
    \/ OnPeerJoined
    \/ Collect
    \/ Reset
    \/ Restart
    \/ \E p \in Peers : MediaChange(p)

MetricsNext ==
    \/ MetricsOperation /\ UNCHANGED regVars
    \/ /\ RegistryNext
       /\ fresh' = FALSE
       /\ UNCHANGED <<storeVars, cellVars, ready, initialized, media, removed>>

MetricsSpec == RegistryInit /\ MetricsInit /\ [][MetricsNext]_<<regVars, metricVars>>

-----------------------------------------------------------------------------
\* The stores and the descriptors tell one story: a name belongs to one
\* instrument, and its descriptor has that instrument's type, so that has,
\* listByType, size and the scrape agree.
OneInstrumentPerName ==
    /\ {[name |-> e.name, type |-> e.type] : e \in instruments} = descriptors
    /\ \A e, f \in instruments : e.name = f.name => e = f

\* Right after a collect the series of rooms and peers that are gone read 0,
\* and those of the others what the room service says.
ScrapeCurrent ==
    fresh => \A r \in Rooms :
        /\ roomSeries[r] # None => roomSeries[r] = Cardinality(members[r])
        /\ r \in rooms => roomSeries[r] # None
        /\ \A p \in Peers : mediaSeries[r][p] \notin {None, 0} <=> p \in members[r] \cap media

\* On a strict registry the service calls itself initialized only when the
\* collector's instruments, and no others of their names, were entered: an
\* initialize that throws halfway leaves no flag behind.  (Names that callers
\* removed are not expected.)
InitializedMeansRegistered ==
    strict /\ initialized =>
        \/ \A i \in DOMAIN Standard : Standard[i] \in instruments \/ Standard[i].name \in removed
        \/ \A i \in DOMAIN Standard : Standard[i] \notin instruments

\* restart "clears all metrics and re-initializes the service": afterwards the
\* standard metrics are registered, unless a caller removed them since.
StandardMetricsRegistered ==
    initialized => \A i \in DOMAIN Standard :
        \/ Standard[i].name \in removed
        \/ \E e \in instruments : e.name = Standard[i].name
=============================================================================
