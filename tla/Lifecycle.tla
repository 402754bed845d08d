------------------------------ MODULE Lifecycle ------------------------------
(***************************************************************************)
(* The life of the server process: index.ts, bootstrap, the shutdown that  *)
(* a signal starts, the worker pool, the mDNS advertisement and the LAN    *)
(* scan (apps/core/src).  Requests reach the room registry for as long as  *)
(* the HTTP server listens, also while a shutdown is under way.  A step is *)
(* what runs between two awaits.                                           *)
(***************************************************************************)
EXTENDS RoomRegistry, LanScan

CONSTANTS WorkerCount,   \* env.mediasoupWorkerCount
          Signals        \* SIGINT, SIGTERM; each comes at most once

ASSUME LifecycleAssumption ==
    /\ WorkerCount \in Nat \ {0}
    /\ None \notin Nat     \* it is no exit code either

VARIABLES env,        \* [mdns, scan]: mdnsEnabled, lanScanEnabled
          stage,      \* of bootstrap: "env", "workers", "app", "listen", "up"
          exit,       \* exit code of the process (143: killed by a signal), or None
          pool,       \* WorkerPool.workers.length
          listening,  \* the HTTP server accepts connections
          published,  \* the service is advertised
          service,    \* MdnsBroadcaster.service is set
          bonjour,    \* MdnsBroadcaster.bonjour is set
          stopping,   \* signal -> "idle", "unpublishing", "closing", "exited"
          early       \* history: peers that had joined when the first signal came

processVars == <<env, stage, exit, pool, listening, published, service, bonjour, stopping, early>>

Running == exit = None
\* Nothing moves in a process that has ended.
Ended(code) == /\ exit' = code
               /\ listening' = FALSE
               /\ UNCHANGED <<env, stage, pool, published, service, bonjour, stopping, early, scanVars, regVars>>

LifecycleInit ==
    /\ env \in [mdns : BOOLEAN, scan : BOOLEAN]
    /\ stage = "env"
    /\ exit = None
    /\ pool = 0
    /\ listening = FALSE
    /\ published = FALSE
    /\ service = FALSE
    /\ bonjour = FALSE
    /\ stopping = [s \in Signals |-> "idle"]
    /\ early = {}

-----------------------------------------------------------------------------
(* bootstrap. *)

\* parseEnv rejects an empty port range, and a missing ANNOUNCED_IP outside
\* of DEV_MODE; an error while index.ts is loaded ends the process.
LoadEnv(portsOrdered, announced, devMode) ==
    /\ Running
    /\ stage = "env"
    /\ IF portsOrdered /\ (announced \/ devMode)
       THEN /\ stage' = "workers"
            /\ UNCHANGED <<env, exit, pool, listening, published, service, bonjour, stopping, early, scanVars, regVars>>
       ELSE Ended(1)

\* One turn of the loop of WorkerPool.start.
StartWorker ==
    /\ Running
    /\ stage = "workers"
    /\ pool' = pool + 1
    /\ stage' = IF pool' = WorkerCount THEN "app" ELSE "workers"
    /\ UNCHANGED <<env, exit, listening, published, service, bonjour, stopping, early, scanVars, regVars>>

\* createApp registers routes and the WebSocket, then app.listen is called
\* and the server accepts connections before bootstrap goes on.
Listen ==
    /\ Running
    /\ stage = "app"
    /\ stage' = "listen"
    /\ listening' = TRUE
    /\ UNCHANGED <<env, exit, pool, published, service, bonjour, stopping, early, scanVars, regVars>>

\* After listen: MdnsBroadcaster.start, the scan, and the signal handlers.  A
\* scan that fails at once is an unhandled rejection, which ends the process.
Announce(scanMdns, scanFails) ==
    /\ Running
    /\ stage = "listen"
    /\ IF env.scan /\ scanFails
       THEN Ended(1)
       ELSE /\ stage' = "up"
            /\ published' = env.mdns
            /\ service' = env.mdns
            /\ bonjour' = env.mdns
            /\ IF env.scan THEN StartScan(scanMdns) ELSE UNCHANGED scanVars
            /\ UNCHANGED <<env, exit, pool, listening, stopping, early, regVars>>

\* bootstrap rejects (a worker does not start, the port is taken), or a
\* worker dies: process.exit(1).
Fail == /\ Running
        /\ \/ stage \in {"workers", "app"}
           \/ pool > 0
        /\ Ended(1)

-----------------------------------------------------------------------------
(* shutdown. *)

\* The turn after mdns.stop resolved: bonjour is destroyed, the workers are
\* closed and the list emptied, app.close is called.
CloseWorkersAndApp(s) ==
    /\ bonjour' = FALSE
    /\ pool' = 0
    /\ stopping' = [stopping EXCEPT ![s] = "closing"]

\* A signal before the handlers are registered kills the process.
SignalEarly ==
    /\ Running
    /\ stage # "up"
    /\ Ended(143)

\* Mutant: the second signal's stop waits for a callback too, which went with
\* the first.
SignalWaits(s) ==
    /\ Running
    /\ stage = "up"
    /\ stopping[s] = "idle"
    /\ early' = IF \A t \in Signals : stopping[t] = "idle" THEN {p \in Peers : socketOf[p] # None} ELSE early
    /\ CloseAll
    /\ service' = FALSE
    /\ IF env.mdns
       THEN /\ stopping' = [stopping EXCEPT ![s] = "unpublishing"]
            /\ bonjour' = FALSE
            /\ UNCHANGED pool
       ELSE CloseWorkersAndApp(s)
    /\ UNCHANGED <<env, stage, exit, listening, published, scanVars>>

\* Mutant: the rooms are closed by nobody.
SignalKeepsRooms(s) ==
    /\ Running
    /\ stage = "up"
    /\ stopping[s] = "idle"
    /\ early' = IF \A t \in Signals : stopping[t] = "idle" THEN {p \in Peers : socketOf[p] # None} ELSE early
    /\ service' = FALSE
    /\ IF env.mdns /\ service
       THEN stopping' = [stopping EXCEPT ![s] = "unpublishing"] /\ UNCHANGED <<bonjour, pool>>
       ELSE CloseWorkersAndApp(s)
    /\ UNCHANGED <<env, stage, exit, listening, published, regVars, scanVars>>

\* handleShutdown up to its first await that waits for something outside: the
\* rooms are closed, and the callback of service.stop is awaited if there
\* is a service, which a second signal does not find.
Signal(s) ==
    /\ Running
    /\ stage = "up"
    /\ stopping[s] = "idle"
    /\ early' = IF \A t \in Signals : stopping[t] = "idle" THEN {p \in Peers : socketOf[p] # None} ELSE early
    /\ CloseAll
    /\ service' = FALSE
    /\ IF env.mdns /\ service
       THEN stopping' = [stopping EXCEPT ![s] = "unpublishing"] /\ UNCHANGED <<bonjour, pool>>
       ELSE CloseWorkersAndApp(s)
    /\ UNCHANGED <<env, stage, exit, listening, published, scanVars>>

\* The callback of service.stop: the service is withdrawn, unless bonjour was
\* destroyed meanwhile; then the callback may as well never come.
Unpublished(s) ==
    /\ Running
    /\ stopping[s] = "unpublishing"
    /\ published' = (published /\ ~bonjour)
    /\ CloseWorkersAndApp(s)
    /\ UNCHANGED <<env, stage, exit, listening, service, early, scanVars, regVars>>

\* Mutant: the server is left open.
AppStaysOpen(s) ==
    /\ Running
    /\ stopping[s] = "closing"
    /\ exit' = 0
    /\ stopping' = [stopping EXCEPT ![s] = "exited"]
    /\ UNCHANGED <<env, stage, pool, listening, published, service, bonjour, early, scanVars, regVars>>

\* app.close resolves, RouterManager.closeAll runs, and process.exit(0).
AppClosed(s) ==
    /\ Running
    /\ stopping[s] = "closing"
    /\ listening' = FALSE
    /\ exit' = 0
    /\ stopping' = [stopping EXCEPT ![s] = "exited"]
    /\ UNCHANGED <<env, stage, pool, published, service, bonjour, early, scanVars, regVars>>

\* A step of the shutdown rejects: nobody handles it, and the process ends.
ShutdownRejects(s) ==
    /\ Running
    /\ stopping[s] \in {"unpublishing", "closing"}
    /\ Ended(1)

-----------------------------------------------------------------------------
\* Clients create, join and leave while the server listens.
Requests ==
    /\ Running
    /\ listening
    /\ \/ \E r \in Rooms : CreateRoom(r)
       \/ \E r \in Rooms, s \in Sockets, p \in Peers : JoinRoom(r, s, p)
       \/ \E s \in Sockets : LeaveBySocket(s)
    /\ UNCHANGED <<processVars, scanVars>>

\* A step of the scan.
ScanOnly == Running /\ UNCHANGED <<processVars, regVars>>
Scanning == ScanStep /\ ScanOnly

Terminated == ~Running /\ UNCHANGED <<processVars, scanVars, regVars>>

LifecycleNext ==
    \/ \E portsOrdered, announced, devMode \in BOOLEAN : LoadEnv(portsOrdered, announced, devMode)
    \/ StartWorker
    \/ Listen
    \/ \E scanMdns, scanFails \in BOOLEAN : Announce(scanMdns, scanFails)
    \/ Fail
    \/ SignalEarly
    \/ \E s \in Signals : Signal(s) \/ Unpublished(s) \/ AppClosed(s) \/ ShutdownRejects(s)
    \/ Requests
    \/ Scanning
    \/ Terminated

lifecycleVars == <<processVars, scanVars, regVars>>

\* bonjour calls back, app.close settles, the steps of the scan end.
LifecycleFairness ==
    /\ \A s \in Signals : WF_lifecycleVars(bonjour /\ Unpublished(s)) /\ WF_lifecycleVars(AppClosed(s))
    /\ \A w \in SweepWorkers : WF_lifecycleVars((\E a \in {"alive", "dead"} : PingAnswered(w, a)) /\ ScanOnly)
    /\ \A ip \in Addresses : WF_lifecycleVars(Looked(ip) /\ ScanOnly)
    /\ WF_lifecycleVars(BrowseTimeout /\ ScanOnly)
    /\ WF_lifecycleVars(MergeDevices /\ ScanOnly)
    /\ WF_lifecycleVars(ScanDone /\ ScanOnly)

LifecycleSpec == /\ RegistryInit /\ ScanInit /\ LifecycleInit
                 /\ [][LifecycleNext]_lifecycleVars
                 /\ LifecycleFairness

-----------------------------------------------------------------------------
\* A shutdown comes to an end, also when a second signal starts another one
\* that takes the first one's advertisement away.
SignalEndsProcess == \A s \in Signals : stopping[s] # "idle" ~> ~Running

\* A process that ends with code 0 after one signal has withdrawn its
\* advertisement, closed its workers and the server; a second signal only
\* gives up the withdrawal.
CleanExit ==
    exit = 0 =>
        /\ pool = 0 /\ ~listening /\ ~bonjour /\ ~service
        /\ published => Cardinality({s \in Signals : stopping[s] # "idle"}) > 1

\* The peers that were there when the first signal came are out of their
\* rooms before the workers with their media are closed, and stay out: only
\* peers that joined during the shutdown are in a room then.
LateJoinersOnly ==
    \A s \in Signals : stopping[s] # "idle" =>
        \A r \in Rooms : members[r] \cap early = {}

\* The scan comes to an end, unless the process does.
ScanEnds == phase = "sweeping" ~> phase = "done" \/ ~Running
=============================================================================
