--------------------------- MODULE LifecycleProofs ---------------------------
(***************************************************************************)
(* The process, for any number of signals, workers, rooms and peers: what  *)
(* runs inside it keeps the registry's and the scan's promises, and a      *)
(* shutdown leaves nobody in a room who was there when it began.           *)
(*                                                                         *)
(* First the scan by itself: it is exact for any concurrency, any number   *)
(* of hosts and any order in which pings, services and lookups are         *)
(* answered.  Last the diagnostics that the process serves: whatever       *)
(* happens while they wait, a report is right at the moment it is stored.  *)
(***************************************************************************)
EXTENDS Diagnostics, RoomRegistryProofs, FiniteSetTheorems, TLAPS

(* The scan. *)

ScanTypeOK ==
    /\ phase \in {"idle", "sweeping", "resolving", "done"}
    /\ hosts \in Nat
    /\ next \in 0 .. hosts
    /\ at \in [SweepWorkers -> Nat \cup {Idle}]
    /\ results \in [Targets -> {"unset", "alive", "dead"}]
    /\ answer \in [Targets -> {"unset", "alive", "dead"}]
    /\ probed \in [Targets -> Nat]
    /\ browsing \in BOOLEAN
    /\ devices \in [Addresses -> SUBSET {"ping", "mdns"}]

\* The indices that are awaited were taken, each by one worker.
AwaitedOnce ==
    /\ \A w \in SweepWorkers : at[w] # Idle => at[w] < next
    /\ \A v, w \in SweepWorkers : at[v] = at[w] /\ at[v] # Idle => v = w

\* While there are indices to take, a worker is there to take them.
SomebodySweeps == phase # "idle" /\ next < hosts => \E w \in SweepWorkers : at[w] # Idle

\* Before the scan nothing was probed or heard, and after the merge nothing
\* is any more: the devices stay what the merge made them.
QuietOutside ==
    /\ phase # "sweeping" => ~browsing /\ \A w \in SweepWorkers : at[w] = Idle
    /\ phase = "idle" => next = 0
    /\ phase \in {"resolving", "done"} =>
         next = hosts /\ \A ip \in Addresses : devices[ip] = SourcesOf(ip)

ScanInv == ScanTypeOK /\ AwaitedOnce /\ SomebodySweeps /\ QuietOutside /\ SweepExact

-----------------------------------------------------------------------------
\* Nothing is taken at the beginning.
LEMMA ScanInitInv == ScanInit => ScanInv
<1> SUFFICES ASSUME ScanInit PROVE ScanInv
  OBVIOUS
<1>1. hosts \in Nat /\ next = 0 /\ \A i \in Targets : i \in Nat /\ i # Idle
  BY ScanAssumption DEF ScanInit, Targets
<1>2. ScanTypeOK
  <2>1. next \in 0 .. hosts
    BY <1>1
  <2>2. at \in [SweepWorkers -> Nat \cup {Idle}] /\ devices \in [Addresses -> SUBSET {"ping", "mdns"}]
    BY DEF ScanInit
  <2>3. /\ results \in [Targets -> {"unset", "alive", "dead"}]
        /\ answer \in [Targets -> {"unset", "alive", "dead"}]
    BY DEF ScanInit
  <2>4. probed \in [Targets -> Nat]
    BY DEF ScanInit
  <2>5. phase = "idle" /\ browsing \in BOOLEAN
    BY DEF ScanInit
  <2> QED BY <1>1, <2>1, <2>2, <2>3, <2>4, <2>5 DEF ScanTypeOK
<1>3. AwaitedOnce /\ SomebodySweeps /\ QuietOutside
  BY DEF ScanInit, AwaitedOnce, SomebodySweeps, QuietOutside
<1>4. SweepExact
  BY <1>1 DEF ScanInit, SweepExact
<1> QED BY <1>2, <1>3, <1>4 DEF ScanInv

\* The first workers take one index each, and there is a first one if there
\* are hosts.
LEMMA StartScanInv ==
  ASSUME ScanInv, NEW mdnsEnabled \in BOOLEAN, StartScan(mdnsEnabled)
  PROVE  ScanInv'
<1> DEFINE first == IF Concurrency < hosts THEN Concurrency ELSE hosts
<1> USE ScanAssumption
<1>1. first \in 0 .. hosts /\ first <= Concurrency /\ next' = first /\ hosts' = hosts
  BY DEF ScanInv, ScanTypeOK, StartScan
<1>2. \A w \in SweepWorkers : w \in Nat /\ w < Concurrency
  BY DEF SweepWorkers
<1>3. at' = [w \in SweepWorkers |-> IF w < first THEN w ELSE Idle]
  BY DEF StartScan
<1>4. ScanTypeOK'
  BY <1>1, <1>2, <1>3 DEF ScanInv, ScanTypeOK, StartScan, Targets
<1>5. AwaitedOnce'
  BY <1>1, <1>2, <1>3 DEF AwaitedOnce
<1>6. SomebodySweeps'
  <2>1. SUFFICES ASSUME first < hosts PROVE \E w \in SweepWorkers : at'[w] # Idle
    BY <1>1 DEF SomebodySweeps
  <2>2. first = Concurrency /\ 0 < first /\ 0 \in SweepWorkers /\ 0 # Idle
    BY <2>1 DEF SweepWorkers, ScanInv, ScanTypeOK
  <2> QED BY <2>2, <1>3
<1>7. QuietOutside'
  BY DEF QuietOutside, StartScan
<1>8. \A i \in Targets : i \in Nat /\ results[i] = "unset" /\ answer[i] = "unset"
  BY DEF ScanInv, ScanTypeOK, QuietOutside, SweepExact, StartScan, Targets
<1>9. \A i \in Targets : i < first => i \in SweepWorkers /\ at'[i] = i
  BY <1>1, <1>3 DEF Targets, SweepWorkers
<1>10. SweepExact'
  BY <1>1, <1>2, <1>3, <1>8, <1>9 DEF SweepExact, StartScan, Targets
<1> QED BY <1>4, <1>5, <1>6, <1>7, <1>10 DEF ScanInv

\* A worker stores its result at the index it awaited, which nobody else
\* does, and takes an index that nobody has taken.
LEMMA PingAnsweredInv ==
  ASSUME ScanInv, NEW w \in SweepWorkers, NEW a \in {"alive", "dead"}, PingAnswered(w, a)
  PROVE  ScanInv'
<1> USE ScanAssumption
<1>1. at[w] \in Nat /\ at[w] \in Targets /\ at[w] < next /\ phase = "sweeping"
  BY DEF ScanInv, ScanTypeOK, AwaitedOnce, QuietOutside, PingAnswered, Targets
<1>2. results' = [results EXCEPT ![at[w]] = a] /\ answer' = [answer EXCEPT ![at[w]] = a]
  BY DEF PingAnswered
<1>3. UNCHANGED <<phase, hosts, browsing, found, devices, lookups>>
  BY DEF PingAnswered
<1>4. \A v \in SweepWorkers : v # w => at'[v] = at[v]
  BY DEF PingAnswered, ScanInv, ScanTypeOK
<1>5. \A v \in SweepWorkers : v # w => at[v] # at[w]
  BY <1>1 DEF ScanInv, AwaitedOnce, PingAnswered
<1>6. CASE next < hosts
  <2>1. at'[w] = next /\ next' = next + 1 /\ next \in Targets /\ probed' = [probed EXCEPT ![next] = @ + 1]
        /\ at' = [at EXCEPT ![w] = next]
    BY <1>6 DEF PingAnswered, ScanInv, ScanTypeOK, Targets
  <2>2. ScanTypeOK'
    <3>1. next' \in 0 .. hosts /\ at' \in [SweepWorkers -> Nat \cup {Idle}] /\ Targets' = Targets
      BY <2>1, <1>3, <1>6 DEF ScanInv, ScanTypeOK, Targets
    <3>2. /\ results' \in [Targets -> {"unset", "alive", "dead"}]
          /\ answer' \in [Targets -> {"unset", "alive", "dead"}]
      BY <1>2 DEF ScanInv, ScanTypeOK
    <3>3. probed' \in [Targets -> Nat]
      BY <2>1 DEF ScanInv, ScanTypeOK
    <3> QED BY <3>1, <3>2, <3>3, <1>3 DEF ScanInv, ScanTypeOK
  <2>3. AwaitedOnce'
    BY <2>1, <1>4 DEF ScanInv, ScanTypeOK, AwaitedOnce
  <2>4. SomebodySweeps'
    BY <2>1 DEF SomebodySweeps, ScanInv, ScanTypeOK
  <2>5. QuietOutside'
    BY <1>1, <1>3 DEF QuietOutside
  <2>6. \A i \in Targets : probed'[i] = IF i < next' THEN 1 ELSE 0
    BY <2>1 DEF ScanInv, ScanTypeOK, SweepExact, Targets
  <2>7. \A i \in Targets : results'[i] = answer'[i]
    BY <1>1, <1>2 DEF ScanInv, ScanTypeOK, SweepExact
  <2>8. \A i \in Targets : results'[i] = "unset" <=> i >= next' \/ \E v \in SweepWorkers : at'[v] = i
    <3>1. SUFFICES ASSUME NEW i \in Targets
                   PROVE results'[i] = "unset" <=> i >= next' \/ \E v \in SweepWorkers : at'[v] = i
      OBVIOUS
    <3>2. CASE i = at[w]
      <4>1. results'[i] # "unset"
        BY <3>2, <1>2, <1>1 DEF ScanInv, ScanTypeOK
      <4>2. \A v \in SweepWorkers : at'[v] # i
        BY <3>2, <2>1, <1>1, <1>4, <1>5 DEF ScanInv, ScanTypeOK
      <4> QED BY <4>1, <4>2, <3>2, <2>1, <1>1 DEF ScanInv, ScanTypeOK
    <3>3. CASE i # at[w]
      <4>1. results'[i] = results[i]
        BY <3>3, <1>2 DEF ScanInv, ScanTypeOK
      <4>2. (\E v \in SweepWorkers : at'[v] = i) <=> i = next \/ \E v \in SweepWorkers : at[v] = i
        BY <3>3, <2>1, <1>4
      <4>3. i >= next <=> i = next \/ i >= next'
        BY <2>1 DEF Targets, ScanInv, ScanTypeOK
      <4> QED BY <4>1, <4>2, <4>3 DEF ScanInv, SweepExact
    <3> QED BY <3>2, <3>3
  <2> QED BY <2>2, <2>3, <2>4, <2>5, <2>6, <2>7, <2>8, <1>3 DEF ScanInv, SweepExact, Targets
<1>7. CASE ~(next < hosts)
  <2>1. at' = [at EXCEPT ![w] = Idle] /\ at'[w] = Idle /\ UNCHANGED <<next, probed>> /\ next = hosts
    BY <1>7 DEF PingAnswered, ScanInv, ScanTypeOK
  <2>2. ScanTypeOK'
    BY <2>1, <1>2, <1>3 DEF ScanInv, ScanTypeOK, Targets
  <2>3. AwaitedOnce'
    BY <2>1, <1>4 DEF ScanInv, AwaitedOnce
  <2>4. SomebodySweeps'
    BY <2>1, <1>3, <1>7 DEF SomebodySweeps
  <2>5. QuietOutside'
    BY <1>1, <1>3 DEF QuietOutside
  <2>6. \A i \in Targets : results'[i] = answer'[i]
    BY <1>1, <1>2 DEF ScanInv, ScanTypeOK, SweepExact
  <2>7. \A i \in Targets : results'[i] = "unset" <=> i >= next' \/ \E v \in SweepWorkers : at'[v] = i
    <3>1. SUFFICES ASSUME NEW i \in Targets
                   PROVE results'[i] = "unset" <=> i >= next' \/ \E v \in SweepWorkers : at'[v] = i
      OBVIOUS
    <3>2. i # Idle /\ i < next'
      BY <2>1 DEF Targets, ScanInv, ScanTypeOK
    <3>3. CASE i = at[w]
      <4>1. results'[i] # "unset"
        BY <3>3, <1>2, <1>1 DEF ScanInv, ScanTypeOK
      <4>2. \A v \in SweepWorkers : at'[v] # i
        BY <3>2, <3>3, <2>1, <1>4, <1>5
      <4> QED BY <4>1, <4>2, <3>2, <2>1 DEF Targets, ScanInv, ScanTypeOK
    <3>4. CASE i # at[w]
      <4>1. results'[i] = results[i]
        BY <3>4, <1>2 DEF ScanInv, ScanTypeOK
      <4>2. (\E v \in SweepWorkers : at'[v] = i) <=> \E v \in SweepWorkers : at[v] = i
        BY <3>2, <3>4, <2>1, <1>4
      <4> QED BY <4>1, <4>2, <2>1 DEF ScanInv, SweepExact
    <3> QED BY <3>3, <3>4
  <2> QED BY <2>1, <2>2, <2>3, <2>4, <2>5, <2>6, <2>7, <1>3 DEF ScanInv, SweepExact, Targets
<1> QED BY <1>6, <1>7

\* The sweep is over when the merge happens: with every worker idle, every
\* index was taken.
LEMMA MergeDevicesInv ==
  ASSUME ScanInv, MergeDevices
  PROVE  ScanInv'
<1>1. next = hosts
  BY DEF ScanInv, ScanTypeOK, SomebodySweeps, MergeDevices
<1>2. \A ip \in Addresses : devices'[ip] = SourcesOf(ip) /\ SourcesOf(ip) \in SUBSET {"ping", "mdns"}
  BY DEF MergeDevices, SourcesOf
<1>3. \A ip : SourcesOf(ip)' = SourcesOf(ip)
  BY DEF MergeDevices, SourcesOf, Alive, Targets
<1>4. ScanTypeOK'
  BY <1>2 DEF ScanInv, ScanTypeOK, MergeDevices, Targets
<1>5. QuietOutside'
  BY <1>1, <1>2, <1>3 DEF QuietOutside, MergeDevices
<1> QED BY <1>4, <1>5 DEF ScanInv, AwaitedOnce, SomebodySweeps, SweepExact, MergeDevices, Targets

\* The other steps move neither the sweep nor, once it is made, the report.
LEMMA AsideInv ==
  ASSUME ScanInv,
         \/ \E ip \in Addresses : RecordService(ip) \/ Looked(ip)
         \/ BrowseTimeout
         \/ ScanDone
         \/ UNCHANGED scanVars
  PROVE  ScanInv'
<1>1. UNCHANGED <<hosts, next, at, results, devices, probed, answer>>
  BY DEF RecordService, Looked, BrowseTimeout, ScanDone, scanVars
<1>2. \/ phase' = phase /\ (browsing' = browsing \/ browsing' = FALSE) /\ (found' = found \/ browsing)
      \/ phase = "resolving" /\ phase' = "done" /\ browsing' = browsing /\ found' = found
  BY DEF RecordService, Looked, BrowseTimeout, ScanDone, scanVars
<1>3. ScanTypeOK'
  BY <1>1, <1>2 DEF ScanInv, ScanTypeOK, Targets
<1>4. AwaitedOnce' /\ SomebodySweeps' /\ SweepExact'
  BY <1>1, <1>2 DEF ScanInv, ScanTypeOK, AwaitedOnce, SomebodySweeps, SweepExact, Targets
<1>5. QuietOutside'
  <2>1. phase' \in {"resolving", "done"} => \A ip : SourcesOf(ip)' = SourcesOf(ip)
    BY <1>1, <1>2 DEF ScanInv, QuietOutside, SourcesOf, Alive, Targets
  <2> QED BY <2>1, <1>1, <1>2 DEF ScanInv, QuietOutside
<1> QED BY <1>3, <1>4, <1>5 DEF ScanInv

\* Every step of the scan keeps its invariant.
LEMMA ScanStepInv == ScanInv /\ [ScanNext]_scanVars => ScanInv'
<1> SUFFICES ASSUME ScanInv, [ScanNext]_scanVars PROVE ScanInv'
  OBVIOUS
<1>1. ASSUME NEW m \in BOOLEAN, StartScan(m) PROVE ScanInv'
  BY <1>1, StartScanInv
<1>2. ASSUME NEW w \in SweepWorkers, NEW a \in {"alive", "dead"}, PingAnswered(w, a) PROVE ScanInv'
  BY <1>2, PingAnsweredInv
<1>3. CASE MergeDevices
  BY <1>3, MergeDevicesInv
<1>4. CASE \/ \E ip \in Addresses : RecordService(ip) \/ Looked(ip)
           \/ BrowseTimeout
           \/ ScanDone
           \/ UNCHANGED scanVars
  BY <1>4, AsideInv
<1> QED BY <1>1, <1>2, <1>3, <1>4 DEF ScanNext, ScanStep

\* What the invariant says of a scan that is done.
LEMMA InvGivesScanExact == ScanInv => ScanExact
<1> SUFFICES ASSUME ScanInv PROVE ScanExact
  OBVIOUS
<1>1. ASSUME phase = "done" PROVE \A i \in Targets : probed[i] = 1
  BY <1>1 DEF ScanInv, ScanTypeOK, QuietOutside, SweepExact, Targets
<1>2. ASSUME phase = "done", NEW ip \in Addresses
      PROVE  /\ "ping" \in devices[ip] <=> ip \in Targets /\ answer[ip] = "alive"
             /\ "mdns" \in devices[ip] <=> ip \in found
  BY <1>2 DEF ScanInv, QuietOutside, SweepExact, SourcesOf, Alive
<1> QED BY <1>1, <1>2 DEF ScanExact, ReportExact, ScanInv

-----------------------------------------------------------------------------
\* The scan's inductive invariant: which indices are taken, awaited, answered.
THEOREM ScanInvariance == ScanSpec => []ScanInv
  BY ScanInitInv, ScanStepInv, PTL DEF ScanSpec

\* No address is pinged twice or skipped, results stand in their slots, and
\* the report lists exactly what answered or was heard of.
THEOREM ScansAreExact == ScanSpec => []ScanExact
  BY ScanInvariance, InvGivesScanExact, PTL

-----------------------------------------------------------------------------
(* The process. *)

Steps == {"idle", "unpublishing", "closing", "exited"}
Stopped(s) == stopping[s] \in {"closing", "exited"}

LifecycleTypeOK ==
    /\ env \in [mdns : BOOLEAN, scan : BOOLEAN]
    /\ stage \in {"env", "workers", "app", "listen", "up"}
    /\ pool \in Nat
    /\ listening \in BOOLEAN /\ published \in BOOLEAN
    /\ service \in BOOLEAN /\ bonjour \in BOOLEAN
    /\ stopping \in [Signals -> Steps]
    /\ early \in SUBSET Peers

\* How far a shutdown has come, and what it has taken down by then.
ShutdownProgress ==
    /\ \A s \in Signals : stopping[s] # "idle" => stage = "up" /\ ~service
    /\ \A s \in Signals : Stopped(s) => pool = 0 /\ ~bonjour
    /\ exit = 0 => ~listening /\ \E s \in Signals : stopping[s] = "exited"

\* The advertisement stands while nobody stops the process; its withdrawal is
\* lost only to the shutdown of another signal.
Advertised ==
    /\ stage = "up" /\ (\A s \in Signals : stopping[s] = "idle") =>
         published = env.mdns /\ service = env.mdns /\ bonjour = env.mdns
    /\ \A s \in Signals : stopping[s] = "unpublishing" /\ ~bonjour => \E t \in Signals : Stopped(t)
    /\ \A s \in Signals : Stopped(s) /\ published => \E t \in Signals : t # s /\ stopping[t] # "idle"

\* The early peers have their sessions behind them, and no room.
EarlyPeersOut ==
    /\ \A p \in early : socketOf[p] # None
    /\ LateJoinersOnly

ShutdownInv == LifecycleTypeOK /\ ShutdownProgress /\ Advertised /\ EarlyPeersOut

-----------------------------------------------------------------------------
(* The process as a user of the registry and of the scan. *)

\* A step of the process is a call of the room service, or none.
LEMMA LifecycleCallsRegistry == [LifecycleNext]_lifecycleVars => [RegistryNext]_regVars
<1> SUFFICES ASSUME [LifecycleNext]_lifecycleVars PROVE [RegistryNext]_regVars
  OBVIOUS
<1>1. ASSUME NEW s \in Signals, Signal(s) PROVE [RegistryNext]_regVars
  BY <1>1 DEF Signal, RegistryNext
<1>2. CASE Requests
  BY <1>2 DEF Requests, RegistryNext
<1>3. CASE LifecycleNext /\ ~Requests /\ ~\E s \in Signals : Signal(s)
  BY <1>3 DEF LifecycleNext, LoadEnv, StartWorker, Listen, Announce, Fail, SignalEarly, Unpublished,
     AppClosed, ShutdownRejects, Ended, Scanning, ScanOnly, Terminated
<1> QED BY <1>1, <1>2, <1>3 DEF lifecycleVars

\* A step of the process is a step of the scan, or none.
LEMMA LifecycleRunsScan == [LifecycleNext]_lifecycleVars => [ScanNext]_scanVars
<1> SUFFICES ASSUME [LifecycleNext]_lifecycleVars PROVE [ScanNext]_scanVars
  OBVIOUS
<1>1. ASSUME NEW m \in BOOLEAN, NEW f \in BOOLEAN, Announce(m, f) PROVE [ScanNext]_scanVars
  BY <1>1 DEF Announce, Ended, ScanNext
<1>2. CASE Scanning
  BY <1>2 DEF Scanning, ScanNext
<1>3. CASE LifecycleNext /\ ~Scanning /\ ~\E m, f \in BOOLEAN : Announce(m, f)
  BY <1>3 DEF LifecycleNext, LoadEnv, StartWorker, Listen, Fail, SignalEarly, Signal, Unpublished,
     AppClosed, ShutdownRejects, Ended, Requests, Terminated
<1> QED BY <1>1, <1>2, <1>3 DEF lifecycleVars

\* The room service of the process is the registry: its theorems hold there,
\* during a shutdown as well.
THEOREM LifecycleImplementsRegistry == LifecycleSpec => RegistrySpec
  BY LifecycleCallsRegistry, PTL DEF LifecycleSpec, RegistrySpec

\* The scan of the process is exact as long as it runs.
THEOREM ScansInProcessAreExact == LifecycleSpec => []ScanExact
<1>1. LifecycleSpec => ScanSpec
  BY LifecycleRunsScan, PTL DEF LifecycleSpec, ScanSpec
<1> QED BY <1>1, ScansAreExact, PTL

-----------------------------------------------------------------------------
(* The shutdown. *)

\* Nothing is stopped at the beginning.
LEMMA LifecycleInitInv == RegistryInit /\ LifecycleInit => ShutdownInv
<1> SUFFICES ASSUME LifecycleInit PROVE ShutdownInv
  OBVIOUS
<1>1. exit # 0 /\ early = {} /\ stage = "env" /\ \A s \in Signals : stopping[s] = "idle"
  BY LifecycleAssumption DEF LifecycleInit
<1>2. LifecycleTypeOK
  BY DEF LifecycleInit, LifecycleTypeOK, Steps
<1>3. ShutdownProgress /\ Advertised
  BY <1>1 DEF ShutdownProgress, Advertised, Stopped
<1>4. EarlyPeersOut
  BY <1>1 DEF EarlyPeersOut, LateJoinersOnly
<1> QED BY <1>2, <1>3, <1>4 DEF ShutdownInv

\* A step before anybody stops the process.
LEMMA BootInv ==
  ASSUME ShutdownInv, Running,
         \/ \E o, a, d \in BOOLEAN : LoadEnv(o, a, d)
         \/ StartWorker
         \/ Listen
         \/ \E m, f \in BOOLEAN : Announce(m, f)
         \/ Fail
         \/ SignalEarly
         \/ \E s \in Signals : ShutdownRejects(s)
  PROVE  ShutdownInv'
<1> USE LifecycleAssumption DEF ShutdownInv
<1>1. ASSUME NEW code \in {1, 143}, Ended(code) PROVE ShutdownInv'
  <2>1. /\ exit' # 0 /\ listening' = FALSE /\ UNCHANGED <<members, socketOf>>
        /\ UNCHANGED <<env, stage, pool, published, service, bonjour, stopping, early>>
    BY <1>1 DEF Ended, regVars
  <2>2. LifecycleTypeOK'
    <3>1. listening' \in BOOLEAN
      BY <2>1
    <3> QED BY <2>1, <3>1 DEF LifecycleTypeOK
  <2>3. ShutdownProgress'
    BY <2>1 DEF ShutdownProgress, Stopped
  <2>4. Advertised'
    BY <2>1 DEF Advertised, Stopped
  <2>5. EarlyPeersOut'
    BY <2>1 DEF EarlyPeersOut, LateJoinersOnly
  <2> QED BY <2>2, <2>3, <2>4, <2>5
<1>2. ASSUME stage # "up", exit' = exit, pool' \in Nat, listening' \in BOOLEAN, UNCHANGED <<env, stopping, early, regVars>>,
             \/ stage' \in {"env", "workers", "app", "listen"} /\ UNCHANGED <<published, service, bonjour>>
             \/ stage' = "up" /\ published' = env.mdns /\ service' = env.mdns /\ bonjour' = env.mdns
      PROVE ShutdownInv'
  <2>1. \A s \in Signals : stopping[s] = "idle" /\ stopping'[s] = "idle" /\ ~Stopped(s)'
    BY <1>2 DEF ShutdownProgress, Stopped
  <2>2. LifecycleTypeOK'
    BY <1>2 DEF LifecycleTypeOK
  <2>3. ShutdownProgress'
    BY <1>2, <2>1 DEF ShutdownProgress, Running
  <2>4. Advertised'
    BY <1>2, <2>1 DEF Advertised
  <2>5. EarlyPeersOut'
    BY <1>2 DEF EarlyPeersOut, LateJoinersOnly, regVars
  <2> QED BY <2>2, <2>3, <2>4, <2>5
<1>3. ASSUME NEW o \in BOOLEAN, NEW a \in BOOLEAN, NEW d \in BOOLEAN, LoadEnv(o, a, d) PROVE ShutdownInv'
  BY <1>1, <1>2, <1>3 DEF LoadEnv, LifecycleTypeOK
<1>4. CASE StartWorker
  BY <1>2, <1>4 DEF StartWorker, LifecycleTypeOK
<1>5. CASE Listen
  BY <1>2, <1>5 DEF Listen, LifecycleTypeOK
<1>6. ASSUME NEW m \in BOOLEAN, NEW f \in BOOLEAN, Announce(m, f) PROVE ShutdownInv'
  BY <1>1, <1>2, <1>6 DEF Announce, LifecycleTypeOK
<1>7. CASE Fail \/ SignalEarly \/ \E s \in Signals : ShutdownRejects(s)
  BY <1>1, <1>7 DEF Fail, SignalEarly, ShutdownRejects
<1> QED BY <1>3, <1>4, <1>5, <1>6, <1>7

\* A signal empties the rooms.  The first one finds the advertisement, a later
\* one finds no service.
LEMMA SignalInv ==
  ASSUME RegistryInv, ShutdownInv, NEW s \in Signals, Signal(s)
  PROVE  ShutdownInv'
<1> USE DEF ShutdownInv
<1>1. /\ exit = None /\ exit' = exit /\ stage = "up" /\ stage' = "up" /\ service' = FALSE
      /\ UNCHANGED <<env, listening, published, socketOf>>
      /\ stopping[s] = "idle" /\ \A r \in Rooms : members'[r] = {}
  BY DEF Signal, Running, CloseAll
<1>2. \/ /\ env.mdns /\ service /\ stopping' = [stopping EXCEPT ![s] = "unpublishing"]
         /\ UNCHANGED <<bonjour, pool>>
      \/ /\ ~(env.mdns /\ service) /\ stopping' = [stopping EXCEPT ![s] = "closing"]
         /\ bonjour' = FALSE /\ pool' = 0
  BY DEF Signal, CloseWorkersAndApp
<1>3. early' = early \/ early' = {p \in Peers : socketOf[p] # None}
  BY DEF Signal
<1>4. \A t \in Signals : t # s => stopping'[t] = stopping[t]
  BY <1>2 DEF LifecycleTypeOK
<1>5. stopping'[s] \in {"unpublishing", "closing"}
  BY <1>2 DEF LifecycleTypeOK
<1>6. LifecycleTypeOK'
  <2>1. stopping' \in [Signals -> Steps]
    BY <1>2 DEF LifecycleTypeOK, Steps
  <2>2. pool' \in Nat
    BY <1>2 DEF LifecycleTypeOK
  <2>3. service' \in BOOLEAN /\ bonjour' \in BOOLEAN
    BY <1>1, <1>2 DEF LifecycleTypeOK
  <2>4. early' \in SUBSET Peers
    BY <1>3 DEF LifecycleTypeOK
  <2> QED BY <2>1, <2>2, <2>3, <2>4, <1>1 DEF LifecycleTypeOK
<1>7. ShutdownProgress'
  BY <1>1, <1>2, <1>4, <1>5, LifecycleAssumption DEF ShutdownProgress, Stopped, LifecycleTypeOK, Steps
<1>8. Advertised'
  <2>1. CASE \A t \in Signals : stopping[t] = "idle"
    BY <2>1, <1>1, <1>2, <1>4, <1>5 DEF Advertised, Stopped, LifecycleTypeOK
  <2>2. CASE \E t \in Signals : stopping[t] # "idle"
    <3>1. PICK t \in Signals : stopping[t] # "idle" /\ t # s
      BY <2>2, <1>1
    <3>2. ~service /\ stopping' = [stopping EXCEPT ![s] = "closing"] /\ bonjour' = FALSE
      BY <3>1, <1>2 DEF ShutdownProgress
    <3>3. stopping'[s] = "closing" /\ stopping'[t] # "idle"
      BY <3>1, <3>2, <1>4 DEF LifecycleTypeOK
    <3> QED BY <3>1, <3>2, <3>3, <1>1, <1>4 DEF Advertised, Stopped
  <2> QED BY <2>1, <2>2
<1>9. EarlyPeersOut'
  BY <1>1, <1>3 DEF EarlyPeersOut, LateJoinersOnly
<1> QED BY <1>6, <1>7, <1>8, <1>9

\* The withdrawal of the advertisement, and the end of the server.
LEMMA StoppingInv ==
  ASSUME ShutdownInv, NEW s \in Signals, Unpublished(s) \/ AppClosed(s)
  PROVE  ShutdownInv'
<1> USE DEF ShutdownInv
<1>1. EarlyPeersOut'
  <2>1. UNCHANGED <<members, socketOf, early>> /\ \A t \in Signals : stopping'[t] # "idle" => stopping[t] # "idle"
    BY DEF Unpublished, AppClosed, CloseWorkersAndApp, regVars, LifecycleTypeOK
  <2> QED BY <2>1 DEF EarlyPeersOut, LateJoinersOnly
<1>2. CASE Unpublished(s)
  <2>1. /\ exit = None /\ exit' = exit /\ stopping[s] = "unpublishing" /\ pool' = 0 /\ bonjour' = FALSE
        /\ published' = (published /\ ~bonjour) /\ UNCHANGED <<env, stage, listening, service, early>>
        /\ stopping' = [stopping EXCEPT ![s] = "closing"]
    BY <1>2 DEF Unpublished, CloseWorkersAndApp, Running
  <2>2. stopping'[s] = "closing" /\ \A t \in Signals : t # s => stopping'[t] = stopping[t]
    BY <2>1 DEF LifecycleTypeOK
  <2>3. LifecycleTypeOK'
    BY <2>1 DEF LifecycleTypeOK, Steps
  <2>4. ShutdownProgress'
    BY <2>1, <2>2, LifecycleAssumption DEF ShutdownProgress, Stopped, LifecycleTypeOK
  <2>5. Advertised'
    <3>1. ASSUME published' PROVE \E t \in Signals : t # s /\ Stopped(t)
      BY <3>1, <2>1 DEF Advertised, Stopped
    <3> QED BY <3>1, <2>1, <2>2 DEF Advertised, Stopped
  <2> QED BY <1>1, <2>3, <2>4, <2>5
<1>3. CASE AppClosed(s)
  <2>1. /\ exit' = 0 /\ listening' = FALSE /\ stopping[s] = "closing"
        /\ UNCHANGED <<env, stage, pool, published, service, bonjour, early>>
        /\ stopping' = [stopping EXCEPT ![s] = "exited"]
    BY <1>3 DEF AppClosed
  <2>2. stopping'[s] = "exited" /\ \A t \in Signals : t # s => stopping'[t] = stopping[t]
    BY <2>1 DEF LifecycleTypeOK
  <2>3. LifecycleTypeOK'
    BY <2>1 DEF LifecycleTypeOK, Steps
  <2>4. ShutdownProgress'
    BY <2>1, <2>2 DEF ShutdownProgress, Stopped
  <2>5. Advertised'
    BY <2>1, <2>2 DEF Advertised, Stopped
  <2> QED BY <1>1, <2>3, <2>4, <2>5
<1> QED BY <1>2, <1>3

\* Who enters a room during a shutdown was in none before.
LEMMA RequestsInv ==
  ASSUME RegistryInv, ShutdownInv, Requests
  PROVE  ShutdownInv'
<1>1. UNCHANGED processVars
  BY DEF Requests
<1> DEFINE Entered == /\ \A p \in Peers : socketOf[p] # None => socketOf'[p] # None
                      /\ \A r \in Rooms, p \in Peers : p \in members'[r] => p \in members[r] \/ socketOf[p] = None
<1>2. Entered
  <2>1. ASSUME NEW r \in Rooms, CreateRoom(r) PROVE Entered
    BY <2>1 DEF CreateRoom
  <2>2. ASSUME NEW r \in Rooms, NEW s \in Sockets, NEW p \in Peers, JoinRoom(r, s, p) PROVE Entered
    BY <2>2, RegistryAssumption DEF JoinRoom, RegistryInv, RegistryTypeOK
  <2>3. ASSUME NEW s \in Sockets, LeaveBySocket(s) PROVE Entered
    BY <2>3 DEF LeaveBySocket, LeavePeer, RemovePeer, Registered, regVars, RegistryInv, RegistryTypeOK
  <2> QED BY <2>1, <2>2, <2>3 DEF Requests
<1>3. EarlyPeersOut'
  <2>1. early \in SUBSET Peers
    BY DEF ShutdownInv, LifecycleTypeOK
  <2>2. members' \in [Rooms -> SUBSET Peers]
    BY LifecycleCallsRegistry, RegistryStepInv DEF RegistryInv, RegistryTypeOK, LifecycleNext
  <2> QED BY <1>1, <1>2, <2>1, <2>2 DEF ShutdownInv, EarlyPeersOut, LateJoinersOnly, processVars
<1> QED BY <1>1, <1>3 DEF ShutdownInv, LifecycleTypeOK, ShutdownProgress, Advertised, Stopped, processVars

\* Every step of the process keeps the invariant of the shutdown.
LEMMA ShutdownStepInv == RegistryInv /\ ShutdownInv /\ [LifecycleNext]_lifecycleVars => ShutdownInv'
<1> SUFFICES ASSUME RegistryInv, ShutdownInv, [LifecycleNext]_lifecycleVars PROVE ShutdownInv'
  OBVIOUS
<1>1. CASE \/ \E o, a, d \in BOOLEAN : LoadEnv(o, a, d)
           \/ StartWorker
           \/ Listen
           \/ \E m, f \in BOOLEAN : Announce(m, f)
           \/ Fail
           \/ SignalEarly
           \/ \E s \in Signals : ShutdownRejects(s)
  <2>1. Running
    BY <1>1 DEF LoadEnv, StartWorker, Listen, Announce, Fail, SignalEarly, ShutdownRejects
  <2> QED BY <1>1, <2>1, BootInv
<1>2. ASSUME NEW s \in Signals, Signal(s) PROVE ShutdownInv'
  BY <1>2, SignalInv
<1>3. ASSUME NEW s \in Signals, Unpublished(s) \/ AppClosed(s) PROVE ShutdownInv'
  BY <1>3, StoppingInv
<1>4. CASE Requests
  BY <1>4, RequestsInv
<1>5. CASE Scanning \/ Terminated \/ UNCHANGED lifecycleVars
  BY <1>5 DEF Scanning, ScanOnly, Terminated, lifecycleVars, processVars, regVars, ShutdownInv,
     LifecycleTypeOK, ShutdownProgress, Advertised, Stopped, EarlyPeersOut, LateJoinersOnly
<1> QED BY <1>1, <1>2, <1>3, <1>4, <1>5 DEF LifecycleNext

\* The invariant of the shutdown, over that of the registry.
THEOREM ShutdownInvariance == LifecycleSpec => []ShutdownInv
<1>1. LifecycleSpec => []RegistryInv
  BY LifecycleImplementsRegistry, RegistryInvariance, PTL
<1>2. LifecycleSpec => RegistryInit /\ LifecycleInit /\ [][LifecycleNext]_lifecycleVars
  BY PTL DEF LifecycleSpec
<1> QED BY <1>1, <1>2, LifecycleInitInv, ShutdownStepInv, PTL

\* The peers that were there when the first signal came stay out of the rooms.
THEOREM OnlyLateJoiners == LifecycleSpec => []LateJoinersOnly
<1>1. ShutdownInv => LateJoinersOnly
  BY DEF ShutdownInv, EarlyPeersOut
<1> QED BY <1>1, ShutdownInvariance, PTL

\* What a process that ends with code 0 has taken down: one signal does it all,
\* and only a second one loses the withdrawal of the advertisement.
THEOREM ExitsAreClean ==
  ASSUME IsFiniteSet(Signals)
  PROVE  LifecycleSpec => []CleanExit
<1>1. ShutdownInv => CleanExit
  <2>1. SUFFICES ASSUME ShutdownInv, exit = 0 PROVE CleanExit
    BY DEF CleanExit
  <2>2. PICK s \in Signals : stopping[s] = "exited"
    BY <2>1 DEF ShutdownInv, ShutdownProgress
  <2>3. pool = 0 /\ ~listening /\ ~bonjour /\ ~service
    BY <2>1, <2>2 DEF ShutdownInv, ShutdownProgress, Stopped
  <2>4. ASSUME published PROVE Cardinality({t \in Signals : stopping[t] # "idle"}) > 1
    <3> DEFINE S == {t \in Signals : stopping[t] # "idle"}
    <3>1. PICK t \in Signals : t # s /\ stopping[t] # "idle"
      BY <2>1, <2>2, <2>4 DEF ShutdownInv, Advertised, Stopped
    <3>2. {s, t} \subseteq S /\ IsFiniteSet(S)
      BY <2>2, <3>1, FS_Subset
    <3>3. Cardinality({s, t}) = 2 /\ Cardinality({s, t}) <= Cardinality(S) /\ Cardinality(S) \in Nat
      <4>1. IsFiniteSet({t}) /\ Cardinality({t}) = 1
        BY FS_Singleton
      <4>2. Cardinality({t} \cup {s}) = Cardinality({t}) + 1
        BY <4>1, <3>1, FS_AddElement
      <4>3. {t} \cup {s} = {s, t}
        OBVIOUS
      <4> QED BY <4>1, <4>2, <4>3, <3>2, FS_Subset, FS_CardinalityType
    <3> QED BY <3>3
  <2> QED BY <2>3, <2>4 DEF CleanExit
<1> QED BY <1>1, ShutdownInvariance, PTL

-----------------------------------------------------------------------------
(* The diagnostics that the process serves. *)

allVars == <<diagnosticsVars, lifecycleVars>>

\* The pool is whole once bootstrap went on, until a shutdown empties it.
PoolWhole ==
    /\ pool \in Nat
    /\ stage \in {"env", "workers", "app", "listen", "up"}
    /\ stage \in {"env", "workers"} => pool < WorkerCount
    /\ stage \in {"app", "listen", "up"} => pool \in {0, WorkerCount}
    /\ listening => stage \in {"listen", "up"}

\* A call that awaits workers has a provider, and has the answers of workers
\* that can answer.
AnswersHeard ==
    /\ hung \subseteq 0 .. WorkerCount - 1
    /\ \A q \in Inquiries : sampling[q] # Nothing =>
         /\ provided
         /\ stage \in {"listen", "up"}
         /\ sampling[q] \in [sections : Selections, answers : Seq(BOOLEAN)]
         /\ \A i \in DOMAIN sampling[q].answers : sampling[q].answers[i] => i - 1 \notin hung
    /\ sampling = [q \in Inquiries |-> sampling[q]]

RegistryFinite == IsFiniteSet(rooms) /\ IsFiniteSet(sessions)

DiagnosticsInv == RegistryInv /\ RegistryFinite /\ PoolWhole /\ AnswersHeard

-----------------------------------------------------------------------------
\* A signal that comes early ends the process; later ones find a whole pool.
LEMMA PoolStaysWhole ==
  ASSUME PoolWhole, [LifecycleNext]_lifecycleVars
  PROVE  PoolWhole'
<1> USE LifecycleAssumption
<1>1. ASSUME NEW code, Ended(code) PROVE PoolWhole'
  BY <1>1 DEF Ended, PoolWhole
<1>2. ASSUME NEW o \in BOOLEAN, NEW a \in BOOLEAN, NEW d \in BOOLEAN, LoadEnv(o, a, d) PROVE PoolWhole'
  BY <1>1, <1>2 DEF LoadEnv, PoolWhole
<1>3. CASE StartWorker
  BY <1>3 DEF StartWorker, PoolWhole
<1>4. CASE Listen
  BY <1>4 DEF Listen, PoolWhole
<1>5. ASSUME NEW m \in BOOLEAN, NEW f \in BOOLEAN, Announce(m, f) PROVE PoolWhole'
  BY <1>1, <1>5 DEF Announce, PoolWhole
<1>6. CASE Fail \/ SignalEarly \/ \E s \in Signals : ShutdownRejects(s)
  BY <1>1, <1>6 DEF Fail, SignalEarly, ShutdownRejects
<1>7. ASSUME NEW s \in Signals, Signal(s) PROVE PoolWhole'
  BY <1>7 DEF Signal, CloseWorkersAndApp, PoolWhole
<1>8. ASSUME NEW s \in Signals, Unpublished(s) PROVE PoolWhole'
  <2>1. stage \in {"app", "listen", "up"} \/ pool' = 0
    BY <1>8 DEF Unpublished, CloseWorkersAndApp
  <2> QED BY <1>8, <2>1 DEF Unpublished, CloseWorkersAndApp, PoolWhole
<1>9. ASSUME NEW s \in Signals, AppClosed(s) PROVE PoolWhole'
  BY <1>9 DEF AppClosed, PoolWhole
<1>10. CASE Requests \/ Scanning \/ Terminated \/ UNCHANGED lifecycleVars
  BY <1>10 DEF Requests, Scanning, ScanOnly, Terminated, lifecycleVars, processVars, PoolWhole
<1> QED BY <1>2, <1>3, <1>4, <1>5, <1>6, <1>7, <1>8, <1>9, <1>10 DEF LifecycleNext

\* bootstrap does not go back.
LEMMA StageHolds ==
  ASSUME [LifecycleNext]_lifecycleVars, stage \in {"listen", "up"}
  PROVE  stage' \in {"listen", "up"}
<1>1. ASSUME NEW s \in Signals, Signal(s) \/ Unpublished(s) \/ AppClosed(s) PROVE stage' = stage
  BY <1>1 DEF Signal, Unpublished, AppClosed
<1>2. CASE LifecycleNext /\ ~\E s \in Signals : Signal(s) \/ Unpublished(s) \/ AppClosed(s)
  BY <1>2 DEF LifecycleNext, LoadEnv, StartWorker, Listen, Announce, Fail, SignalEarly,
     ShutdownRejects, Ended, Requests, Scanning, ScanOnly, Terminated, processVars
<1> QED BY <1>1, <1>2 DEF lifecycleVars, processVars

\* One call of the room service enters at most one room and one session.
LEMMA RegistryStaysFinite ==
  ASSUME RegistryInv, RegistryFinite, [RegistryNext]_regVars
  PROVE  RegistryFinite'
<1>1. \/ sessions' \subseteq sessions
      \/ \E p \in Peers : sessions' = sessions \cup {p}
  BY RegistryStepCases DEF CreateRoom, JoinRoom, RemovePeer, CloseAll, regVars
<1>2. \/ rooms' \subseteq rooms
      \/ \E r \in Rooms : rooms' = rooms \cup {r}
  BY RegistryStepCases DEF CreateRoom, JoinRoom, RemovePeer, CloseAll, regVars
<1>3. IsFiniteSet(sessions')
  BY <1>1, FS_Subset, FS_AddElement DEF RegistryFinite
<1>4. IsFiniteSet(rooms')
  BY <1>2, FS_Subset, FS_AddElement DEF RegistryFinite
<1> QED BY <1>3, <1>4 DEF RegistryFinite

-----------------------------------------------------------------------------
(* What a report says. *)

\* PeerInspector finds each member of each room once, with its session.
EntryOf(seat) == [peer |-> seat[2], room |-> seat[1], known |-> TRUE]

\* These are all the entries there are, because the maps agree.
LEMMA EntriesAreSeats ==
  ASSUME RegistryInv
  PROVE  Entries = {EntryOf(seat) : seat \in Seats(rooms)}
<1> DEFINE inRoom(r) == {[peer |-> p, room |-> IF p \in sessions THEN roomOf[p] ELSE r, known |-> p \in sessions] :
                            p \in members[r]}
<1>1. rooms \subseteq Rooms /\ \A r \in rooms : members[r] \subseteq Peers
  BY DEF RegistryInv, RegistryTypeOK
<1>2. ASSUME NEW r \in rooms, NEW p \in members[r] PROVE p \in sessions /\ roomOf[p] = r
  BY <1>1, <1>2 DEF RegistryInv, MembershipAgrees
<1>3. ASSUME NEW r \in rooms, NEW e \in inRoom(r)
      PROVE  e \in {EntryOf(seat) : seat \in Seats(rooms)}
  <2>1. PICK p \in members[r] :
          e = [peer |-> p, room |-> IF p \in sessions THEN roomOf[p] ELSE r, known |-> p \in sessions]
    BY <1>3
  <2>2. e = [peer |-> p, room |-> r, known |-> TRUE]
    BY <2>1, <1>2
  <2>3. <<r, p>> \in Seats(rooms)
    BY <1>1, <2>1 DEF Seats
  <2>4. e = EntryOf(<<r, p>>)
    BY <2>2 DEF EntryOf
  <2> QED BY <2>3, <2>4
<1>4. ASSUME NEW seat \in Seats(rooms)
      PROVE  seat[1] \in rooms /\ EntryOf(seat) \in inRoom(seat[1])
  <2>1. seat[1] \in rooms /\ seat[2] \in members[seat[1]]
    BY DEF Seats
  <2>2. EntryOf(seat) = [peer |-> seat[2], room |-> IF seat[2] \in sessions THEN roomOf[seat[2]] ELSE seat[1],
                         known |-> seat[2] \in sessions]
    BY <2>1, <1>2 DEF EntryOf
  <2> QED BY <2>1, <2>2
<1>5. Entries = UNION {inRoom(r) : r \in rooms}
  BY DEF Entries
<1> HIDE DEF inRoom
<1> QED BY <1>3, <1>4, <1>5

\* So there are as many entries as seats.
LEMMA EntriesCounted ==
  ASSUME RegistryInv, RegistryFinite
  PROVE  /\ IsFiniteSet(Entries)
         /\ Cardinality(Entries) = Cardinality(Seats(rooms))
<1> DEFINE f == [seat \in Seats(rooms) |-> EntryOf(seat)]
           T == {EntryOf(seat) : seat \in Seats(rooms)}
<1>1. IsFiniteSet(Seats(rooms))
  <2>1. rooms \subseteq Rooms
    BY DEF RegistryInv, RegistryTypeOK
  <2>2. Seats(rooms) \subseteq rooms \X sessions
    <3>1. ASSUME NEW seat \in Seats(rooms) PROVE seat[1] \in rooms /\ seat[2] \in sessions /\ seat = <<seat[1], seat[2]>>
      BY <2>1 DEF Seats, RegistryInv, RegistryTypeOK, MembershipAgrees
    <3> QED BY <3>1
  <2>3. IsFiniteSet(rooms \X sessions)
    BY FS_Product DEF RegistryFinite
  <2> QED BY <2>2, <2>3, FS_Subset
<1>2. f \in Bijection(Seats(rooms), T)
  <2>1. f \in [Seats(rooms) -> T]
    OBVIOUS
  <2>2. \A t \in T : \E seat \in Seats(rooms) : f[seat] = t
    OBVIOUS
  <2>3. ASSUME NEW a \in Seats(rooms), NEW b \in Seats(rooms), f[a] = f[b] PROVE a = b
    <3>1. EntryOf(a) = EntryOf(b)
      BY <2>3
    <3>2. a[1] = b[1] /\ a[2] = b[2]
      BY <3>1 DEF EntryOf
    <3>3. a = <<a[1], a[2]>> /\ b = <<b[1], b[2]>>
      BY DEF Seats
    <3> QED BY <3>2, <3>3
  <2> QED BY <2>1, <2>2, <2>3 DEF Bijection, Injection, Surjection, IsInjective
<1>3. IsFiniteSet(T) /\ Cardinality(T) = Cardinality(Seats(rooms))
  BY <1>1, <1>2, FS_Bijection DEF ExistsBijection
<1> QED BY <1>3, EntriesAreSeats

\* A list that is long enough lists everything.
LEMMA FirstOfAll ==
  ASSUME NEW S, IsFiniteSet(S), NEW n \in Nat, NEW L \in FirstOf(n, S)
  PROVE  L \subseteq S /\ (Cardinality(S) <= n => L = S)
<1>1. Cardinality(S) \in Nat
  BY FS_CardinalityType
<1>2. L \in SUBSET S /\ Cardinality(L) = IF Cardinality(S) < n THEN Cardinality(S) ELSE n
  BY DEF FirstOf, kSubset
<1>3. ASSUME Cardinality(S) <= n PROVE Cardinality(S) = Cardinality(L)
  BY <1>1, <1>2, <1>3
<1> QED BY <1>2, <1>3, FS_Subset

\* The parts of a report agree with the room service and with each other.
ReportAgrees(r) ==
    /\ "rooms" \in r.sections => r.rooms = Cardinality(rooms)
    /\ \A e \in r.peers : e.known /\ e.room \in rooms /\ e.peer \in members[e.room]
    /\ {"rooms", "peers"} \subseteq r.sections
          /\ Cardinality(rooms) <= MaxRooms /\ Cardinality(Entries) <= MaxPeersListed
         => r.counted = Cardinality(r.peers)

\* What Report stores, at the moment it does.
LEMMA ReportIsRight ==
  ASSUME RegistryInv, RegistryFinite, NEW sections, NEW answers, Report(sections, answers)
  PROVE  /\ ReportAgrees(report')
         /\ report'.status = "healthy" => answers # <<>> /\ \A i \in DOMAIN answers : answers[i]
<1>1. PICK others \in SUBSET {"warning", "critical"},
           shown \in IF "rooms" \in sections THEN FirstOf(MaxRooms, rooms) ELSE {{}},
           listed \in IF "peers" \in sections THEN FirstOf(MaxPeersListed, Entries) ELSE {{}} :
        report' = [sections |-> sections, rooms |-> IF "rooms" \in sections THEN Cardinality(rooms) ELSE 0,
                   counted |-> Cardinality(Seats(shown)), peers |-> listed,
                   status |-> HealthStatus(others \cup WorkerFindings(answers)
                                             \cup RoomFindings(IF "rooms" \in sections THEN Cardinality(rooms) ELSE 0, shown)
                                             \cup PeerFindings(listed))]
  BY DEF Report
<1>2. /\ report'.sections = sections /\ report'.peers = listed /\ report'.counted = Cardinality(Seats(shown))
      /\ report'.rooms = IF "rooms" \in sections THEN Cardinality(rooms) ELSE 0
      /\ \E more : report'.status = HealthStatus(WorkerFindings(answers) \cup more)
  <2>1. report'.status = HealthStatus(WorkerFindings(answers)
            \cup (others \cup RoomFindings(IF "rooms" \in sections THEN Cardinality(rooms) ELSE 0, shown)
                         \cup PeerFindings(listed)))
    <3> DEFINE rf == RoomFindings(IF "rooms" \in sections THEN Cardinality(rooms) ELSE 0, shown)
               pf == PeerFindings(listed)
               wf == WorkerFindings(answers)
    <3>1. report'.status = HealthStatus(others \cup wf \cup rf \cup pf)
      BY <1>1
    <3> HIDE DEF rf, pf, wf
    <3>2. others \cup wf \cup rf \cup pf = wf \cup (others \cup rf \cup pf)
      OBVIOUS
    <3>3. report'.status = HealthStatus(wf \cup (others \cup rf \cup pf))
      BY <3>1, <3>2
    <3> QED BY <3>3 DEF rf, pf, wf
  <2> QED BY <1>1, <2>1
<1>3. \A e \in Entries : e.known /\ e.room \in rooms /\ e.peer \in members[e.room]
  BY EntriesAreSeats DEF EntryOf, Seats
<1>4. IsFiniteSet(rooms) /\ IsFiniteSet(Entries) /\ MaxRooms \in Nat /\ MaxPeersListed \in Nat
  BY EntriesCounted, DiagnosticsAssumption DEF RegistryFinite
<1>5. listed \subseteq Entries
  BY <1>4, FirstOfAll
<1>6. ASSUME {"rooms", "peers"} \subseteq sections, Cardinality(rooms) <= MaxRooms,
             Cardinality(Entries) <= MaxPeersListed
      PROVE  Cardinality(Seats(shown)) = Cardinality(listed)
  <2>1. shown = rooms
    <3>1. shown \in FirstOf(MaxRooms, rooms)
      BY <1>6
    <3> QED BY <3>1, <1>4, <1>6, FirstOfAll
  <2>2. listed = Entries
    <3>1. listed \in FirstOf(MaxPeersListed, Entries)
      BY <1>6
    <3> QED BY <3>1, <1>4, <1>6, FirstOfAll
  <2> QED BY <2>1, <2>2, EntriesCounted
<1>7. ReportAgrees(report')
  BY <1>2, <1>3, <1>5, <1>6 DEF ReportAgrees
<1>8. ASSUME report'.status = "healthy"
      PROVE  answers # <<>> /\ \A i \in DOMAIN answers : answers[i]
  <2>1. PICK more : report'.status = HealthStatus(WorkerFindings(answers) \cup more)
    BY <1>2
  <2>2. "critical" \notin WorkerFindings(answers)
    BY <1>8, <2>1 DEF HealthStatus
  <2> QED BY <2>2 DEF WorkerFindings
<1> QED BY <1>7, <1>8

-----------------------------------------------------------------------------
(* The steps of a call. *)

\* A call without workers to ask never reports a healthy process.
LEMMA DiagnoseIsRight ==
  ASSUME DiagnosticsInv, NEW q \in Inquiries, NEW sections \in Selections, Diagnose(q, sections)
  PROVE  /\ AnswersHeard'
         /\ report' # report => ReportAgrees(report') /\ report'.status # "healthy"
<1>1. UNCHANGED <<provided, hung, stage>> /\ listening
  BY DEF Diagnose, lifecycleVars, processVars
<1>2. stage \in {"listen", "up"}
  BY <1>1 DEF DiagnosticsInv, PoolWhole
<1>3. CASE "workers" \in sections /\ provided /\ pool > 0
  <2>1. /\ sampling' = [sampling EXCEPT ![q] = [sections |-> sections, answers |-> <<>>]]
        /\ report' = report
    BY <1>3 DEF Diagnose
  <2>2. [sections |-> sections, answers |-> <<>>] \in [sections : Selections, answers : Seq(BOOLEAN)]
    OBVIOUS
  <2>3. sampling'[q] = [sections |-> sections, answers |-> <<>>]
    BY <2>1 DEF DiagnosticsInv, AnswersHeard
  <2>4. \A t \in Inquiries : t # q => sampling'[t] = sampling[t]
    BY <2>1 DEF DiagnosticsInv, AnswersHeard
  <2>5. sampling' = [t \in Inquiries |-> sampling'[t]]
    BY <2>1 DEF DiagnosticsInv, AnswersHeard
  <2>6. DOMAIN sampling'[q].answers = {}
    BY <2>3
  <2>7. hung' \subseteq 0 .. WorkerCount - 1 /\ hung' = hung /\ provided' = provided /\ stage' = stage
    BY <1>1 DEF DiagnosticsInv, AnswersHeard
  <2>8. ASSUME NEW t \in Inquiries, sampling'[t] # Nothing
        PROVE  /\ provided'
               /\ stage' \in {"listen", "up"}
               /\ sampling'[t] \in [sections : Selections, answers : Seq(BOOLEAN)]
               /\ \A i \in DOMAIN sampling'[t].answers : sampling'[t].answers[i] => i - 1 \notin hung'
    <3>1. CASE t = q
      BY <3>1, <2>2, <2>3, <2>6, <2>7, <1>2, <1>3
    <3>2. CASE t # q
      BY <3>2, <2>4, <2>7, <2>8 DEF DiagnosticsInv, AnswersHeard
    <3> QED BY <3>1, <3>2
  <2>9. AnswersHeard'
    BY <2>5, <2>7, <2>8 DEF AnswersHeard
  <2> QED BY <2>1, <2>9
<1>4. CASE ~("workers" \in sections /\ provided /\ pool > 0)
  <2>1. Report(sections, <<>>) /\ sampling' = sampling
    BY <1>4 DEF Diagnose
  <2>2. ReportAgrees(report') /\ report'.status # "healthy"
    BY <2>1, ReportIsRight DEF DiagnosticsInv
  <2>3. AnswersHeard'
    BY <2>1, <1>1 DEF DiagnosticsInv, AnswersHeard
  <2> QED BY <2>2, <2>3
<1> QED BY <1>3, <1>4

\* The last answer comes when all workers of the pool were asked.
LEMMA SampledIsRight ==
  ASSUME DiagnosticsInv, NEW q \in Inquiries, NEW alive \in BOOLEAN, WorkerSampled(q, alive)
  PROVE  /\ AnswersHeard'
         /\ report' # report => ReportAgrees(report')
         /\ report' # report /\ report'.status = "healthy" /\ pool > 0 => provided /\ hung = {}
<1> DEFINE old == sampling[q].answers
           new == Append(old, alive)
<1>1. /\ sampling[q] # Nothing /\ (alive => Len(old) \notin hung)
      /\ Sampled(q, new)
      /\ UNCHANGED <<provided, hung, stage>>
  BY DEF WorkerSampled, lifecycleVars, processVars
<1>2. /\ provided /\ stage \in {"listen", "up"} /\ hung \subseteq 0 .. WorkerCount - 1
      /\ sampling[q] \in [sections : Selections, answers : Seq(BOOLEAN)]
      /\ \A i \in DOMAIN old : old[i] => i - 1 \notin hung
      /\ sampling = [t \in Inquiries |-> sampling[t]]
  BY <1>1 DEF DiagnosticsInv, AnswersHeard
<1>3. pool \in {0, WorkerCount} /\ pool \in Nat
  BY <1>2 DEF DiagnosticsInv, PoolWhole
<1>4. old \in Seq(BOOLEAN)
  BY <1>2
<1>5. /\ new \in Seq(BOOLEAN) /\ Len(new) = Len(old) + 1 /\ Len(old) \in Nat
      /\ DOMAIN new = 1 .. Len(new) /\ DOMAIN old = 1 .. Len(old)
      /\ new[Len(old) + 1] = alive /\ \A i \in DOMAIN old : new[i] = old[i]
  BY <1>4
<1> HIDE DEF old, new
<1>6. \A i \in DOMAIN new : new[i] => i - 1 \notin hung
  <2>1. ASSUME NEW i \in DOMAIN new, new[i] PROVE i - 1 \notin hung
    <3>1. CASE i = Len(old) + 1
      BY <3>1, <2>1, <1>1, <1>5
    <3>2. CASE i # Len(old) + 1
      <4>1. i \in DOMAIN old
        BY <3>2, <2>1, <1>5
      <4> QED BY <4>1, <2>1, <1>2, <1>5
    <3> QED BY <3>1, <3>2
  <2> QED BY <2>1
<1>7. CASE Len(new) < pool
  <2>1. sampling' = [sampling EXCEPT ![q].answers = new] /\ report' = report
    BY <1>1, <1>7 DEF Sampled
  <2>2. sampling'[q] = [sampling[q] EXCEPT !.answers = new]
    BY <2>1, <1>2
  <2>3. sampling'[q] \in [sections : Selections, answers : Seq(BOOLEAN)] /\ sampling'[q].answers = new
    BY <2>2, <1>2, <1>5
  <2>4. \A t \in Inquiries : t # q => sampling'[t] = sampling[t]
    BY <2>1, <1>2
  <2>5. sampling' = [t \in Inquiries |-> sampling'[t]]
    BY <2>1, <1>2
  <2>6. ASSUME NEW t \in Inquiries, sampling'[t] # Nothing
        PROVE  /\ provided'
               /\ stage' \in {"listen", "up"}
               /\ sampling'[t] \in [sections : Selections, answers : Seq(BOOLEAN)]
               /\ \A i \in DOMAIN sampling'[t].answers : sampling'[t].answers[i] => i - 1 \notin hung'
    <3>1. CASE t = q
      BY <3>1, <2>3, <1>1, <1>2, <1>6
    <3>2. CASE t # q
      BY <3>2, <2>4, <2>6, <1>1 DEF DiagnosticsInv, AnswersHeard
    <3> QED BY <3>1, <3>2
  <2>7. AnswersHeard'
    BY <2>5, <2>6, <1>1, <1>2 DEF AnswersHeard
  <2> QED BY <2>1, <2>7
<1>8. CASE ~(Len(new) < pool)
  <2>1. Report(sampling[q].sections, new) /\ sampling' = [sampling EXCEPT ![q] = Nothing]
    BY <1>1, <1>8 DEF Sampled
  <2>2. sampling'[q] = Nothing /\ \A t \in Inquiries : t # q => sampling'[t] = sampling[t]
    BY <2>1, <1>2
  <2>3. sampling' = [t \in Inquiries |-> sampling'[t]]
    BY <2>1, <1>2
  <2>4. ASSUME NEW t \in Inquiries, sampling'[t] # Nothing
        PROVE  /\ provided'
               /\ stage' \in {"listen", "up"}
               /\ sampling'[t] \in [sections : Selections, answers : Seq(BOOLEAN)]
               /\ \A i \in DOMAIN sampling'[t].answers : sampling'[t].answers[i] => i - 1 \notin hung'
    BY <2>2, <2>4, <1>1 DEF DiagnosticsInv, AnswersHeard
  <2>5. AnswersHeard'
    BY <2>3, <2>4, <1>1, <1>2 DEF AnswersHeard
  <2>6. /\ ReportAgrees(report')
        /\ report'.status = "healthy" => \A i \in DOMAIN new : new[i]
    BY <2>1, ReportIsRight DEF DiagnosticsInv
  <2>7. ASSUME report'.status = "healthy", pool > 0 PROVE hung = {}
    <3>1. pool = WorkerCount /\ Len(new) >= WorkerCount
      BY <2>7, <1>3, <1>5, <1>8
    <3>2. ASSUME NEW w \in hung PROVE FALSE
      <4>1. w \in 0 .. WorkerCount - 1
        BY <1>2
      <4>2. w + 1 \in DOMAIN new /\ (w + 1) - 1 = w
        BY <4>1, <3>1, <1>5, LifecycleAssumption
      <4> QED BY <4>2, <2>6, <2>7, <1>6
    <3> QED BY <3>2
  <2> QED BY <2>5, <2>6, <2>7, <1>2
<1> QED BY <1>7, <1>8

\* At the beginning nothing is asked and the registry is empty.
LEMMA DiagnosticsInitInv ==
  RegistryInit /\ LifecycleInit /\ DiagnosticsInit => DiagnosticsInv
<1> SUFFICES ASSUME RegistryInit, LifecycleInit, DiagnosticsInit PROVE DiagnosticsInv
  OBVIOUS
<1>1. RegistryInv
  BY RegistryInitInv
<1>2. RegistryFinite
  BY FS_EmptySet DEF RegistryInit, RegistryFinite
<1>3. PoolWhole
  BY LifecycleAssumption DEF LifecycleInit, PoolWhole
<1>4. AnswersHeard
  BY DEF DiagnosticsInit, AnswersHeard
<1> QED BY <1>1, <1>2, <1>3, <1>4 DEF DiagnosticsInv

\* Diagnostics are read-only: the process goes its way.
LEMMA DiagnosticsLeaveProcess ==
  [DiagnosticsNext]_allVars => [LifecycleNext]_lifecycleVars
  BY DEF DiagnosticsNext, DiagnosticsStep, Diagnose, WorkerSampled, allVars

\* Every step keeps the invariant, and what it reports is right.
LEMMA DiagnosticsStepInv ==
  ASSUME DiagnosticsInv, [DiagnosticsNext]_allVars
  PROVE  /\ DiagnosticsInv'
         /\ report' # report =>
              /\ ReportAgrees(report')
              /\ report'.status = "healthy" /\ pool > 0 => provided /\ hung = {}
<1>1. [LifecycleNext]_lifecycleVars
  BY DiagnosticsLeaveProcess
<1>2. RegistryInv' /\ RegistryFinite' /\ PoolWhole'
  BY <1>1, LifecycleCallsRegistry, RegistryStepInv, RegistryStaysFinite, PoolStaysWhole DEF DiagnosticsInv
<1>3. ASSUME NEW q \in Inquiries, NEW sections \in Selections, Diagnose(q, sections)
      PROVE  /\ DiagnosticsInv'
             /\ report' # report => ReportAgrees(report') /\ report'.status # "healthy"
  BY <1>2, <1>3, DiagnoseIsRight DEF DiagnosticsInv
<1>4. ASSUME NEW q \in Inquiries, NEW alive \in BOOLEAN, WorkerSampled(q, alive)
      PROVE  /\ DiagnosticsInv'
             /\ report' # report => ReportAgrees(report')
             /\ report' # report /\ report'.status = "healthy" /\ pool > 0 => provided /\ hung = {}
  BY <1>2, <1>4, SampledIsRight DEF DiagnosticsInv
<1>5. CASE UNCHANGED diagnosticsVars
  <2>1. UNCHANGED <<provided, hung, sampling, report>>
    BY <1>5 DEF diagnosticsVars
  <2>2. stage \in {"listen", "up"} => stage' \in {"listen", "up"}
    BY <1>1, StageHolds
  <2>3. AnswersHeard'
    BY <2>1, <2>2 DEF DiagnosticsInv, AnswersHeard
  <2> QED BY <1>2, <2>1, <2>3 DEF DiagnosticsInv
<1> QED BY <1>3, <1>4, <1>5 DEF DiagnosticsNext, DiagnosticsStep, allVars

\* What the diagnostics know about the pool, the room service and the calls
\* that are under way (AdminService, DiagnosticsAggregator).
THEOREM DiagnosticsInvariance == DiagnosticsSpec => []DiagnosticsInv
<1>1. DiagnosticsInv /\ [DiagnosticsNext]_allVars => DiagnosticsInv'
  BY DiagnosticsStepInv
<1> QED BY <1>1, DiagnosticsInitInv, PTL DEF DiagnosticsSpec, allVars

\* The process with diagnostics is the process: they change nothing of it.
THEOREM DiagnosticsReadOnly == DiagnosticsSpec => LifecycleSpec
  BY DiagnosticsLeaveProcess, PTL DEF DiagnosticsSpec, LifecycleSpec, allVars

\* Each report shows the rooms and peers of the moment it is stored, counts
\* them alike, and calls a pool healthy only when every worker answered.
THEOREM ReportsAreCurrent == DiagnosticsSpec => DiagnosticsCurrent
<1>1. ASSUME DiagnosticsInv, [DiagnosticsNext]_allVars
      PROVE  [report' # report =>
                /\ "rooms" \in report'.sections => report'.rooms = Cardinality(rooms)
                /\ \A e \in report'.peers : e.known /\ e.room \in rooms /\ e.peer \in members[e.room]
                /\ {"rooms", "peers"} \subseteq report'.sections
                      /\ Cardinality(rooms) <= MaxRooms /\ Cardinality(Entries) <= MaxPeersListed
                     => report'.counted = Cardinality(report'.peers)
                /\ report'.status = "healthy" /\ pool > 0 => provided /\ hung = {}]_<<diagnosticsVars, lifecycleVars>>
  BY <1>1, DiagnosticsStepInv DEF ReportAgrees
<1>2. DiagnosticsSpec => [][DiagnosticsNext]_allVars
  BY PTL DEF DiagnosticsSpec, allVars
<1> QED BY <1>1, <1>2, DiagnosticsInvariance, PTL DEF DiagnosticsCurrent, allVars
=============================================================================
