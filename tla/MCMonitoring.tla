---------------------------- MODULE MCMonitoring ----------------------------
(***************************************************************************)
(* TLC instance of the libraries that watch the rooms: the event service   *)
(* and telemetry.  They share no state: a behaviour is about one of them   *)
(* or one part of it, its focus, and the others keep still, so that their  *)
(* state spaces add up and do not multiply.                                *)
(***************************************************************************)
EXTENDS EventService, Telemetry, Estimators, TLC

CONSTANTS e1, e2, k1, k2

\* Hook k1 wants every event and k2 only the second.
SomeWanted == (k1 :> {e1, e2}) @@ (k2 :> {e2})

\* Figures on either side of a joint of the scales.
SomeFigures == [latency : {50, 401}, jitter : {30}, lost : {0, 6}, sent : {100},
                up : {64, 65}, down : {128, 130}]

VARIABLE focus

monitoringVars == <<vars, telemetryVars, estimatorVars, focus>>

MonitoringInit ==
    /\ Init /\ TelemetryInit /\ EstimatorInit
    /\ focus \in {"handlers", "webhooks", "store", "samples", "figures"}

\* The handlers change freely beside one webhook that stays until the service is
\* closed and always answers; both events are alike to it: let the first dispatch
\* be of e1.  Or the webhooks change and fail without any handler, and the audit
\* log is left alone.
OnHandlers == /\ Next
              /\ \A i \in DOMAIN webhooks' : i = 1 /\ webhooks'[i] = [id |-> k1, live |-> wired']
              /\ \A i \in DOMAIN history' : history'[i].success
              /\ published' # <<>> => Head(published') = <<e1, 1>>
OnWebhooks == Next /\ subscribed' = <<>> /\ cleared' = 0

MonitoringNext ==
    /\ UNCHANGED focus
    /\ \/ focus = "handlers" /\ OnHandlers /\ UNCHANGED <<telemetryVars, estimatorVars>>
       \/ focus = "webhooks" /\ OnWebhooks /\ UNCHANGED <<telemetryVars, estimatorVars>>
       \/ focus = "store" /\ TelemetryNext /\ UNCHANGED <<vars, estimatorVars>>
       \/ focus = "samples" /\ EstimatorNext /\ figures' = figures /\ UNCHANGED <<vars, telemetryVars>>
       \/ focus = "figures" /\ EstimatorNext /\ list' = list /\ UNCHANGED <<vars, telemetryVars>>

MonitoringSpec ==
    /\ MonitoringInit /\ [][MonitoringNext]_monitoringVars
    /\ \A d \in Dispatches : WF_vars(Settle(d)) /\ WF_vars(Attempt(d))
=============================================================================
