------------------------------- MODULE LanScan -------------------------------
(***************************************************************************)
(* The LAN scan at start-up (apps/core/src/discovery): LanScanner.scan     *)
(* pings every host address of the local networks with mapWithConcurrency  *)
(* while discoverMdnsServices listens, and merges both into a list of      *)
(* devices.  A step is what runs between two awaits.                       *)
(***************************************************************************)
EXTENDS Integers, FiniteSets

CONSTANTS Concurrency,   \* env.lanScanConcurrency
          MaxHosts,      \* bound: the length of targetIps
          Elsewhere,     \* addresses that only mDNS reports
          Idle           \* a worker of the sweep that waits for no ping

\* parseEnv accepts 1 .. 256.
ASSUME ScanAssumption == /\ Concurrency \in Nat \ {0}
                         /\ MaxHosts \in Nat
                         /\ Idle \notin Nat

VARIABLES phase,     \* "idle", "sweeping", "resolving", "done"
          hosts,     \* targetIps.length; a target is its index
          next,      \* nextIndex
          at,        \* worker -> the index it awaits a ping for, or Idle
          results,   \* index -> "unset", "alive", "dead"
          browsing,  \* the browsers of discoverMdnsServices are open
          found,     \* addresses in servicesByIp
          devices,   \* address -> its sources, for the devices of the result
          lookups,   \* devices whose reverse lookup is under way
          probed,    \* history: index -> pings started for it
          answer     \* history: index -> what its last ping said

scanVars == <<phase, hosts, next, at, results, browsing, found, devices, lookups, probed, answer>>

Targets == 0 .. hosts - 1
SweepWorkers == 0 .. Concurrency - 1
Addresses == (0 .. MaxHosts - 1) \cup Elsewhere

ScanInit ==
    /\ phase = "idle"
    /\ hosts \in 0 .. MaxHosts
    /\ next = 0
    /\ at = [w \in SweepWorkers |-> Idle]
    /\ results = [i \in Targets |-> "unset"]
    /\ browsing = FALSE
    /\ found = {}
    /\ devices = [ip \in Addresses |-> {}]
    /\ lookups = {}
    /\ probed = [i \in Targets |-> 0]
    /\ answer = [i \in Targets |-> "unset"]

-----------------------------------------------------------------------------
\* scan up to its first await: min(concurrency, hosts) workers take one index
\* each, and the browsers open if lanScanMdnsEnabled.
StartScan(mdnsEnabled) ==
    LET first == IF Concurrency < hosts THEN Concurrency ELSE hosts IN
    /\ phase = "idle"
    /\ phase' = "sweeping"
    /\ next' = first
    /\ at' = [w \in SweepWorkers |-> IF w < first THEN w ELSE Idle]
    /\ probed' = [i \in Targets |-> IF i < first THEN 1 ELSE 0]
    /\ browsing' = mdnsEnabled
    /\ UNCHANGED <<hosts, results, found, devices, lookups, answer>>

\* Mutant: nextIndex is increased only when the ping has answered.
PingAnsweredLateIncrement(w, a) ==
    /\ at[w] # Idle
    /\ results' = [results EXCEPT ![at[w]] = a]
    /\ answer' = [answer EXCEPT ![at[w]] = a]
    /\ IF next < hosts
       THEN /\ at' = [at EXCEPT ![w] = next]
            /\ next' = IF at[w] >= Concurrency THEN next + 1 ELSE next
            /\ probed' = [probed EXCEPT ![next] = @ + 1]
       ELSE /\ at' = [at EXCEPT ![w] = Idle]
            /\ UNCHANGED <<next, probed>>
    /\ UNCHANGED <<phase, hosts, browsing, found, devices, lookups>>

\* pingHost resolves, it never rejects; the worker of mapWithConcurrency
\* stores the result and takes the next index, if there is one.
PingAnswered(w, a) ==
    /\ at[w] # Idle
    /\ results' = [results EXCEPT ![at[w]] = a]
    /\ answer' = [answer EXCEPT ![at[w]] = a]
    /\ IF next < hosts
       THEN /\ at' = [at EXCEPT ![w] = next]
            /\ next' = next + 1
            /\ probed' = [probed EXCEPT ![next] = @ + 1]
       ELSE /\ at' = [at EXCEPT ![w] = Idle]
            /\ UNCHANGED <<next, probed>>
    /\ UNCHANGED <<phase, hosts, browsing, found, devices, lookups>>

\* A browser reports a service at ip.
RecordService(ip) ==
    /\ browsing
    /\ found' = found \cup {ip}
    /\ UNCHANGED <<phase, hosts, next, at, results, browsing, devices, lookups, probed, answer>>

\* Mutant: the promise resolves only when a service was seen.
BrowseTimeoutIfFound ==
    /\ browsing
    /\ found # {}
    /\ browsing' = FALSE
    /\ UNCHANGED <<phase, hosts, next, at, results, found, devices, lookups, probed, answer>>

\* The timer of discoverMdnsServices stops the browsers.
BrowseTimeout ==
    /\ browsing
    /\ browsing' = FALSE
    /\ UNCHANGED <<phase, hosts, next, at, results, found, devices, lookups, probed, answer>>

Alive == {i \in Targets : results[i] = "alive"}
SourcesOf(ip) == (IF ip \in Alive THEN {"ping"} ELSE {}) \cup (IF ip \in found THEN {"mdns"} ELSE {})

\* The first Promise.all has both: the devices are merged, and a reverse
\* lookup starts for each.
MergeDevices ==
    /\ phase = "sweeping"
    /\ \A w \in SweepWorkers : at[w] = Idle
    /\ ~browsing
    /\ devices' = [ip \in Addresses |-> SourcesOf(ip)]
    /\ lookups' = Alive \cup found
    /\ phase' = "resolving"
    /\ UNCHANGED <<hosts, next, at, results, browsing, found, probed, answer>>

\* A reverse lookup resolves or rejects; the device is kept either way.
Looked(ip) ==
    /\ ip \in lookups
    /\ lookups' = lookups \ {ip}
    /\ UNCHANGED <<phase, hosts, next, at, results, browsing, found, devices, probed, answer>>

\* The second Promise.all: the sorted devices are logged.
ScanDone ==
    /\ phase = "resolving"
    /\ lookups = {}
    /\ phase' = "done"
    /\ UNCHANGED <<hosts, next, at, results, browsing, found, devices, lookups, probed, answer>>

ScanStep == \/ \E w \in SweepWorkers, a \in {"alive", "dead"} : PingAnswered(w, a)
            \/ \E ip \in Addresses : RecordService(ip) \/ Looked(ip)
            \/ BrowseTimeout
            \/ MergeDevices
            \/ ScanDone

ScanNext == ScanStep \/ \E mdnsEnabled \in BOOLEAN : StartScan(mdnsEnabled)

ScanSpec == ScanInit /\ [][ScanNext]_scanVars

-----------------------------------------------------------------------------
(* enumerateHostAddresses, on signed words of Bits bits: & and | of 32-bit *)
(* integers give negative numbers for addresses above 127.255.255.255.     *)

Signed(v, bits) == IF v >= 2 ^ (bits - 1) THEN v - 2 ^ bits ELSE v
Unsigned(v, bits) == v % (2 ^ bits)
\* network and broadcast address, as the code has them, for a prefix length.
NetworkOf(a, prefix, bits) == Signed(a - (a % 2 ^ (bits - prefix)), bits)
BroadcastOf(a, prefix, bits) == Signed(a - (a % 2 ^ (bits - prefix)) + 2 ^ (bits - prefix) - 1, bits)

\* for (candidate = network + 1; candidate < broadcast; ...) longToIp(candidate)
HostAddresses(a, prefix, bits) ==
    {Unsigned(c, bits) : c \in NetworkOf(a, prefix, bits) + 1 .. BroadcastOf(a, prefix, bits) - 1}

-----------------------------------------------------------------------------
\* However the pings interleave, no address is pinged twice, the slots below
\* nextIndex are exactly those taken, and a result stands in its own slot.
SweepExact ==
    /\ \A i \in Targets : probed[i] = (IF i < next THEN 1 ELSE 0)
    /\ \A i \in Targets : results[i] = answer[i]
    /\ \A i \in Targets : results[i] = "unset" <=> i >= next \/ \E w \in SweepWorkers : at[w] = i

\* The report lists what answered a ping or was heard of by mDNS, with the
\* sources that saw it, and nothing was skipped.
ReportExact ==
    phase = "done" =>
        /\ \A i \in Targets : probed[i] = 1
        /\ \A ip \in Addresses :
             /\ "ping" \in devices[ip] <=> ip \in Targets /\ answer[ip] = "alive"
             /\ "mdns" \in devices[ip] <=> ip \in found

\* The scan is exact while it runs and when it reports.
ScanExact == SweepExact /\ ReportExact

\* The addresses to ping are those between the network and the broadcast
\* address, on either side of the sign bit; of the whole address space, none.
HostsEnumerated(bits) ==
    \A a \in 0 .. 2 ^ bits - 1, prefix \in 1 .. bits :
        HostAddresses(a, prefix, bits) =
            {h \in 0 .. 2 ^ bits - 1 : /\ h \div 2 ^ (bits - prefix) = a \div 2 ^ (bits - prefix)
                                       /\ h % 2 ^ (bits - prefix) \notin {0, 2 ^ (bits - prefix) - 1}}
=============================================================================
