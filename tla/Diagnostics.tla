----------------------------- MODULE Diagnostics -----------------------------
(***************************************************************************)
(* The admin diagnostics (apps/core/src/admin): a request asks the media   *)
(* workers one after the other, each with a time limit, and then inspects  *)
(* rooms and peers in one turn.  Requests overlap, and rooms, the worker   *)
(* pool and the process change while workers are awaited.                  *)
(*                                                                         *)
(* Of a finding only its severity is kept; those that come from figures    *)
(* of the operating system, ages and numbers of media objects are chosen.  *)
(***************************************************************************)
EXTENDS Lifecycle, Sequences, FiniteSetsExt

CONSTANTS Inquiries,      \* getDiagnostics calls that may be under way at once
          Selections,     \* sets of sections that the options may include
          MaxRooms,       \* maxRooms of RoomInspector
          MaxPeersListed, \* maxPeers of PeerInspector
          Nothing         \* no collection under way; no report yet

ASSUME DiagnosticsAssumption ==
    /\ Selections \subseteq SUBSET {"workers", "rooms", "peers"}
    /\ {MaxRooms, MaxPeersListed} \subseteq Nat

VARIABLES provided,   \* AdminService has a WorkerProvider, over WorkerPool's own array
          hung,       \* indices of workers that never answer
          sampling,   \* call -> its sections and the workers asked so far, or Nothing
          report      \* AdminService.lastDiagnostics, or Nothing

diagnosticsVars == <<provided, hung, sampling, report>>

DiagnosticsInit ==
    /\ provided \in BOOLEAN
    /\ hung \in SUBSET (0 .. WorkerCount - 1)
    /\ sampling = [q \in Inquiries |-> Nothing]
    /\ report = Nothing

-----------------------------------------------------------------------------
(* Inspection of the room service, in one turn. *)

\* Mutant: the peers are looked up by their sockets.
EntriesBySocket ==
    {[peer |-> socketToPeer[s], room |-> roomOf[socketToPeer[s]], known |-> socketToPeer[s] \in sessions] :
        s \in {t \in Sockets : socketToPeer[t] # None}}

\* PeerInspector.collect and inspectPeersInRoom: the members of the listed
\* rooms, each with the room its session names; one without a session is
\* entered with the room it was found in.
Entries == UNION {{[peer |-> p, room |-> IF p \in sessions THEN roomOf[p] ELSE r, known |-> p \in sessions] :
                      p \in members[r]} : r \in rooms}

\* What RoomInspector.collect adds up to totalPeers: the peers of each room shown.
Seats(shown) == {seat \in shown \X Peers : seat[2] \in members[seat[1]]}

\* The first n of the Map's entries, which the sets of the model do not order.
FirstOf(n, S) == kSubset(IF Cardinality(S) < n THEN Cardinality(S) ELSE n, S)

-----------------------------------------------------------------------------
(* Findings. *)

\* WorkerDiagnostics.analyze: a list without workers is critical, whatever
\* the reason.
WorkerFindings(answers) ==
    IF answers = <<>> THEN {"critical"}
    ELSE IF \A i \in DOMAIN answers : answers[i] THEN {"info"} ELSE {"critical", "warning"}

\* RoomInspector.analyze
RoomFindings(total, shown) == {"info"} \cup (IF total > 0 /\ \E r \in shown : members[r] = {} THEN {"warning"} ELSE {})

\* PeerInspector.analyze
PeerFindings(listed) == {"info"} \cup (IF \E e \in listed : ~e.known THEN {"warning"} ELSE {})
                                 \cup (IF \E e \in listed : e.known /\ e.room = None THEN {"error"} ELSE {})

\* deriveHealthStatus
HealthStatus(severities) == CASE severities \cap {"critical", "error"} # {} -> "unhealthy"
                              [] severities \cap {"critical", "error", "warning"} = {"warning"} -> "degraded"
                              [] OTHER -> "healthy"

\* The rest of DiagnosticsAggregator.collect once the workers are asked, and
\* the assignment to lastDiagnostics; a section that is not asked for is empty.
\* The entries of the workers show in the status only.
Report(sections, answers) ==
    LET total == IF "rooms" \in sections THEN Cardinality(rooms) ELSE 0 IN
    \E others \in SUBSET {"warning", "critical"},
       shown \in IF "rooms" \in sections THEN FirstOf(MaxRooms, rooms) ELSE {{}},
       listed \in IF "peers" \in sections THEN FirstOf(MaxPeersListed, Entries) ELSE {{}} :
       report' = [sections |-> sections, rooms |-> total,
                  counted |-> Cardinality(Seats(shown)), peers |-> listed,
                  status |-> HealthStatus(others \cup WorkerFindings(answers) \cup RoomFindings(total, shown)
                                            \cup PeerFindings(listed))]

-----------------------------------------------------------------------------
\* A call of getDiagnostics up to its first answer; without workers to ask it
\* is done at once.
Diagnose(q, sections) ==
    /\ Running
    /\ listening
    /\ sampling[q] = Nothing
    /\ IF "workers" \in sections /\ provided /\ pool > 0
       THEN /\ sampling' = [sampling EXCEPT ![q] = [sections |-> sections, answers |-> <<>>]]
            /\ UNCHANGED report
       ELSE Report(sections, <<>>) /\ UNCHANGED sampling
    /\ UNCHANGED <<provided, hung, lifecycleVars>>

\* The loop of WorkerDiagnostics.collect looks at the length the array has now.
Sampled(q, answers) ==
    IF Len(answers) < pool
    THEN /\ sampling' = [sampling EXCEPT ![q].answers = answers]
         /\ UNCHANGED report
    ELSE /\ Report(sampling[q].sections, answers)
         /\ sampling' = [sampling EXCEPT ![q] = Nothing]

\* Mutant: the time limit is not armed.
WorkerSampledNoLimit(q, alive) ==
    /\ Running
    /\ sampling[q] # Nothing
    /\ Len(sampling[q].answers) \notin hung
    /\ Sampled(q, Append(sampling[q].answers, alive))
    /\ UNCHANGED <<provided, hung, lifecycleVars>>

\* The worker that is asked answers, or it rejects or the time is over, and it
\* is entered as not alive; an answer after that is dropped.
WorkerSampled(q, alive) ==
    /\ Running
    /\ sampling[q] # Nothing
    /\ alive => Len(sampling[q].answers) \notin hung
    /\ Sampled(q, Append(sampling[q].answers, alive))
    /\ UNCHANGED <<provided, hung, lifecycleVars>>

DiagnosticsStep ==
    \/ \E q \in Inquiries, sections \in Selections : Diagnose(q, sections)
    \/ \E q \in Inquiries, alive \in BOOLEAN : WorkerSampled(q, alive)

DiagnosticsNext == DiagnosticsStep \/ (LifecycleNext /\ UNCHANGED diagnosticsVars)

DiagnosticsFairness ==
    \A q \in Inquiries : WF_<<diagnosticsVars, lifecycleVars>>(\E alive \in BOOLEAN : WorkerSampled(q, alive))

DiagnosticsSpec == /\ RegistryInit /\ ScanInit /\ LifecycleInit /\ DiagnosticsInit
                   /\ [][DiagnosticsNext]_<<diagnosticsVars, lifecycleVars>>
                   /\ LifecycleFairness /\ DiagnosticsFairness

-----------------------------------------------------------------------------
\* Rooms come and go and calls overtake each other while workers are awaited,
\* but what is stored as the last diagnostics has the rooms and peers of the
\* moment it is stored: both sections name the same members, each peer in the
\* room it is in, and no peer without a session or without a room.  While the
\* pool is up it is called healthy only when every worker of it has answered.
DiagnosticsCurrent ==
    [][report' # report =>
          /\ "rooms" \in report'.sections => report'.rooms = Cardinality(rooms)
          /\ \A e \in report'.peers : e.known /\ e.room \in rooms /\ e.peer \in members[e.room]
          /\ {"rooms", "peers"} \subseteq report'.sections
                /\ Cardinality(rooms) <= MaxRooms /\ Cardinality(Entries) <= MaxPeersListed
               => report'.counted = Cardinality(report'.peers)
          /\ report'.status = "healthy" /\ pool > 0 => provided /\ hung = {}]_<<diagnosticsVars, lifecycleVars>>

\* A call of getDiagnostics ends, also when workers hang, when the pool is
\* emptied under it and when other calls ask the same workers, unless the
\* process ends first.
DiagnosticsEnd == \A q \in Inquiries : sampling[q] # Nothing ~> sampling[q] = Nothing \/ ~Running
=============================================================================
