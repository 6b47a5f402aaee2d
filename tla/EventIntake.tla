---------------------------- MODULE EventIntake ----------------------------
(***************************************************************************)
(* Event intake (api/events.py): an event is stored under its dedup key,    *)
(* judged by its severity and its surroundings, and, when it needs a case,  *)
(* merged into the open case of an upstream device or given a case of its   *)
(* own; operators dispose of events, send them to diagnosis and open        *)
(* tickets.                                                                 *)
(*                                                                         *)
(* The API is one event loop.  A handler runs alone until it awaits NetBox  *)
(* or the ticket system, or the process dies between two of its commits; it *)
(* goes on with the row its session loaded before.  Everything happens      *)
(* within the windows of the decision (24 h) and the correlation (30 min).  *)
(***************************************************************************)
EXTENDS Integers, FiniteSets, Sequences, FiniteSetsExt

CONSTANTS
  Requests,           \* handlers under way at once
  Events,             \* source events, by dedup key
  Devices, NoDevice,
  DeviceOf, SourceOf, \* of an event
  LevelsOf,           \* the severity levels an event is reported with
  Flagged,            \* the log signals that ask for a case
  Tier,               \* role_tier of a device: 0 is the core
  Links,              \* NetBox cables, as a symmetric relation
  MaxHops,            \* TOPOLOGY_CORRELATION_MAX_HOPS
  NoiseToTicket, ToCase, PeerBoost,  \* the thresholds of config/pipeline_thresholds.py
  Modes,              \* the settings: [auto, external] records
  MaxEnv              \* bounds: how often the environment does what, by kind

(* A sender delivers an event; an operator acts on one; a case is closed; the
   API process dies. *)
EnvKinds == {"ingest", "operator", "close", "crash"}

ASSUME IntakeAssumption ==
  /\ Events # {}
  /\ DeviceOf \in [Events -> Devices \cup {NoDevice}] /\ NoDevice \notin Devices
  /\ SourceOf \in [Events -> {"ELK", "ZABBIX"}]
  /\ LevelsOf \in [Events -> SUBSET (0 .. 5)]
  /\ Flagged \subseteq Events
  /\ Tier \in [Devices -> 0 .. 3]
  /\ Links \subseteq Devices \X Devices /\ \A l \in Links : <<l[2], l[1]>> \in Links
  /\ MaxHops \in Nat \ {0}
  /\ {NoiseToTicket, ToCase, PeerBoost} \subseteq Nat \ {0}
  /\ Modes \subseteq [auto : BOOLEAN, external : BOOLEAN]
  /\ MaxEnv \in [EnvKinds -> Nat]

VARIABLES
  rows,      \* source_event, by event
  canonical, \* event_decision_canonical.disposition, by event
  cases,     \* case_record, in the order they were opened
  graphs,    \* the cases a diagnostic graph was asked for
  requests,  \* what each handler is doing
  modes,     \* automation mode and ticket mode
  env        \* how often the environment has acted, by kind

vars == <<rows, canonical, cases, graphs, requests, modes, env>>

Dispositions == {"noise", "ticket_only", "case_required"}

(* decision: event_decision.disposition, which overrides the evaluation; case:
   its place in cases, 0 for none. *)
Row == [status : {"none", "new", "correlated", "case_created", "closed"}, level : 0 .. 5,
        decision : Dispositions \cup {"none"}, case : Nat, ticket : BOOLEAN]
NoRow == [status |-> "none", level |-> 0, decision |-> "none", case |-> 0, ticket |-> FALSE]

(* derived: the events merged into the case as derivative evidence. *)
Case == [event : Events, open : BOOLEAN, derived : SUBSET Events]

(* seen: the row as the handler's session loaded it; parents: the cases that
   were open when it asked. *)
Request == [at : {"idle", "upserted", "correlating", "intake", "projecting", "dispatching",
                  "triggering", "ticketing"},
            kind : {"ingest", "operator", "dispatch"}, event : Events, seen : Row,
            case : Nat, parents : SUBSET Nat]
Waiting == {"idle", "correlating", "ticketing"}

TypeOK ==
  /\ rows \in [Events -> Row]
  /\ canonical \in [Events -> Dispositions \cup {"none"}]
  /\ cases \in Seq(Case)
  /\ graphs \subseteq DOMAIN cases
  /\ requests \in [Requests -> Request]
  /\ modes \in [auto : BOOLEAN, external : BOOLEAN]
  /\ env \in [EnvKinds -> Nat]
  /\ \A e \in Events : rows[e].case \in {0} \cup DOMAIN cases
  /\ Cardinality({q \in Requests : requests[q].at \notin Waiting}) <= 1

Idle == [at |-> "idle", kind |-> "ingest", event |-> CHOOSE e \in Events : TRUE, seen |-> NoRow,
         case |-> 0, parents |-> {}]

Init ==
  /\ rows = [e \in Events |-> NoRow]
  /\ canonical = [e \in Events |-> "none"]
  /\ cases = <<>> /\ graphs = {}
  /\ requests = [q \in Requests |-> Idle]
  /\ modes \in Modes
  /\ env = [k \in EnvKinds |-> 0]

Happens(kind) == env[kind] < MaxEnv[kind] /\ env' = [env EXCEPT ![kind] = @ + 1]
LoopFree      == \A q \in Requests : requests[q].at \in Waiting
(* Which handler object serves a request makes no difference. *)
Free(q)       == LoopFree /\ requests[q].at = "idle"
                          /\ q = CHOOSE p \in Requests : requests[p].at = "idle"
At(q, place)  == requests[q].at = place
Ends(q)         == requests' = [requests EXCEPT ![q] = Idle]

-----------------------------------------------------------------------------
(* The decision. *)

Stored  == {e \in Events : rows[e].status # "none"}
Same(e) == {f \in Stored : DeviceOf[f] = DeviceOf[e]}

Evaluate(e, row) ==
  CASE row.decision # "none" -> row.decision
    [] row.decision = "none" /\ row.case # 0 -> "case_required"
    [] row.decision = "none" /\ row.case = 0 /\ row.ticket -> "ticket_only"
    [] OTHER -> IF row.level >= 4 \/ (SourceOf[e] = "ELK" /\ e \in Flagged) THEN "case_required"
                ELSE IF row.level >= 2 THEN "ticket_only" ELSE "noise"

OpenAtAnchor(e) == \E c \in DOMAIN cases : cases[c].open /\ DeviceOf[cases[c].event] = DeviceOf[e]

(* Frequency and the other kind of source raise a disposition; nothing lowers it. *)
Enriched(e, row) ==
  LET judged == Evaluate(e, row)
      crowd  == Cardinality(Same(e))
      peers  == Cardinality({f \in Same(e) : SourceOf[f] # SourceOf[e]})
      raised == IF judged = "noise" /\ crowd >= NoiseToTicket THEN "ticket_only" ELSE judged IN
  IF \/ OpenAtAnchor(e)
     \/ crowd >= ToCase
     \/ raised = "ticket_only" /\ peers >= PeerBoost /\ row.level \in 2 .. 3
  THEN "case_required" ELSE raised

-----------------------------------------------------------------------------
(* Topology correlation. *)

(* The neighbours on the same tier or nearer the core; a device whose topology
   cannot be fetched shows none. *)
Uphill(reached, silent) ==
  {p \in Devices : \E d \in reached \ silent : <<d, p>> \in Links /\ Tier[p] <= Tier[d]}

Upstream(start, silent) ==
  LET within[n \in 0 .. MaxHops] ==
        IF n = 0 THEN {start} ELSE within[n - 1] \cup Uphill(within[n - 1], silent)
  IN  [p \in within[MaxHops] \ {start} |-> Min({n \in 1 .. MaxHops : p \in within[n]})]

Anchor(c) == DeviceOf[cases[c].event]

(* Open cases at other devices. *)
Parents(e) == {c \in DOMAIN cases : cases[c].open /\ Anchor(c) \notin {NoDevice, DeviceOf[e]}}

(* Of the nearest the one opened last, 0 for none: they are asked for in that
   order, and a later one only wins when it is nearer. *)
Parent(parents, hops) ==
  LET upstream == {c \in parents : Anchor(c) \in DOMAIN hops}
      nearest  == {c \in upstream : \A d \in upstream : hops[Anchor(c)] <= hops[Anchor(d)]}
  IN  IF upstream = {} THEN 0 ELSE Max(nearest)

-----------------------------------------------------------------------------
(* Ingestion. *)

(* A delivery starts the event over: decision, case and ticket are cleared. *)
Ingest(q, e, level) ==
  LET row == [NoRow EXCEPT !.status = "new", !.level = level] IN
  /\ Free(q) /\ Happens("ingest")
  /\ rows' = [rows EXCEPT ![e] = row]
  /\ requests' = [requests EXCEPT ![q] = [Idle EXCEPT !.at = "upserted", !.event = e, !.seen = row]]
  /\ UNCHANGED <<canonical, cases, graphs, modes>>

(* The decision is stored; an event that needs a case and has a device first
   looks for a parent, which waits for NetBox when there are candidates. *)
Decide(q) ==
  LET e == requests[q].event
      d == Enriched(e, rows[e]) IN
  /\ At(q, "upserted")
  /\ canonical' = [canonical EXCEPT ![e] = d]
  /\ IF d # "case_required" THEN Ends(q)
     ELSE requests' = [requests EXCEPT
            ![q].at = IF DeviceOf[e] # NoDevice /\ Parents(e) # {} THEN "correlating" ELSE "intake",
            ![q].parents = Parents(e)]
  /\ UNCHANGED <<rows, cases, graphs, modes, env>>

Hit(q, silent) == Parent(requests[q].parents, Upstream(DeviceOf[requests[q].event], silent))

(* For a mutant: the event is marked, the evidence is forgotten. *)
CorrelateSilently(q, silent) ==
  LET e == requests[q].event
      c == Hit(q, silent) IN
  /\ At(q, "correlating") /\ LoopFree /\ c # 0
  /\ rows' = [rows EXCEPT ![e] = [requests[q].seen EXCEPT !.case = c, !.decision = "case_required",
                                                          !.status = "correlated"]]
  /\ Ends(q)
  /\ UNCHANGED <<canonical, cases, graphs, modes, env>>

(* A hit: evidence at the parent and the link at the event, in one commit. *)
Correlate(q, silent) ==
  LET e == requests[q].event
      c == Hit(q, silent) IN
  /\ At(q, "correlating") /\ LoopFree /\ c # 0
  /\ cases' = [cases EXCEPT ![c].derived = @ \cup {e}]
  /\ rows' = [rows EXCEPT ![e] = [requests[q].seen EXCEPT !.case = c, !.decision = "case_required",
                                                          !.status = "correlated"]]
  /\ Ends(q)
  /\ UNCHANGED <<canonical, graphs, modes, env>>

(* For a mutant: no parent, no case. *)
GiveUp(q, silent) ==
  /\ At(q, "correlating") /\ LoopFree /\ Hit(q, silent) = 0
  /\ Ends(q)
  /\ UNCHANGED <<rows, canonical, cases, graphs, modes, env>>

(* No hit, or no topology: the event gets a case of its own. *)
FailOpen(q, silent) ==
  /\ At(q, "correlating") /\ LoopFree /\ Hit(q, silent) = 0
  /\ requests' = [requests EXCEPT ![q].at = "intake"]
  /\ UNCHANGED <<rows, canonical, cases, graphs, modes, env>>

OpenCases(e) == {c \in DOMAIN cases : cases[c].event = e /\ cases[c].open}   \* for a mutant
OwnCases(e)  == {c \in DOMAIN cases : cases[c].event = e}

(* intake_case: the case of this event, whatever its status, or a new one.  The
   commit of a new one makes the session read the row again. *)
IntakeExisting(q) ==
  LET e == requests[q].event IN
  /\ At(q, "intake") /\ OwnCases(e) # {}
  /\ requests' = [requests EXCEPT ![q].at = "projecting", ![q].case = Max(OwnCases(e))]
  /\ UNCHANGED <<rows, canonical, cases, graphs, modes, env>>

IntakeNew(q) ==
  LET e == requests[q].event IN
  /\ At(q, "intake") /\ OwnCases(e) = {}
  /\ cases' = Append(cases, [event |-> e, open |-> TRUE, derived |-> {}])
  /\ requests' = [requests EXCEPT ![q].at = "projecting", ![q].case = Len(cases) + 1,
                                   ![q].seen = rows[e]]
  /\ UNCHANGED <<rows, canonical, graphs, modes, env>>

Project(q) ==
  LET r == requests[q] IN
  /\ At(q, "projecting")
  /\ rows' = [rows EXCEPT ![r.event] = [r.seen EXCEPT !.case = r.case, !.decision = "case_required",
                                                      !.status = "case_created"]]
  /\ CASE r.kind = "dispatch" -> requests' = [requests EXCEPT ![q].at = "dispatching"]
       [] r.kind = "ingest" /\ modes.auto /\ canonical[r.event] = "case_required" ->
            requests' = [requests EXCEPT ![q].at = "triggering"]
       [] OTHER -> Ends(q)
  /\ UNCHANGED <<canonical, cases, graphs, modes, env>>

Trigger(q) ==
  /\ At(q, "triggering")
  /\ graphs' = graphs \cup {requests[q].case}
  /\ Ends(q)
  /\ UNCHANGED <<rows, canonical, cases, modes, env>>

-----------------------------------------------------------------------------
(* Operators. *)

(* The disposition is committed first; a case is then asked for unless the row
   has one already. *)
Dispose(q, e, disposition) ==
  LET row == [rows[e] EXCEPT !.decision = disposition,
                             !.status = IF disposition = "noise" THEN "closed" ELSE "correlated"] IN
  /\ Free(q) /\ e \in Stored /\ Happens("operator")
  /\ rows' = [rows EXCEPT ![e] = row]
  /\ IF disposition = "case_required" /\ row.case = 0
     THEN requests' = [requests EXCEPT ![q] = [Idle EXCEPT !.at = "intake", !.kind = "operator",
                                                           !.event = e, !.seen = row]]
     ELSE Ends(q)
  /\ UNCHANGED <<canonical, cases, graphs, modes>>

(* dispatch-readonly: a case is made if the row has none. *)
Dispatch(q, e) ==
  /\ Free(q) /\ e \in Stored /\ Happens("operator")
  /\ requests' = [requests EXCEPT ![q] = [Idle EXCEPT
        !.at = IF rows[e].case = 0 THEN "intake" ELSE "dispatching", !.kind = "dispatch",
        !.event = e, !.seen = rows[e], !.case = rows[e].case]]
  /\ UNCHANGED <<rows, canonical, cases, graphs, modes>>

Dispatched(q) ==
  /\ At(q, "dispatching")
  /\ rows' = [rows EXCEPT ![requests[q].event].status = "case_created"]
  /\ requests' = [requests EXCEPT ![q].at = "triggering"]
  /\ UNCHANGED <<canonical, cases, graphs, modes, env>>

Ticketed(row) == [row EXCEPT !.ticket = TRUE, !.decision = "ticket_only", !.status = "correlated"]

CreateLocalTicket(q, e) ==
  /\ Free(q) /\ ~modes.external /\ e \in Stored /\ Happens("operator")
  /\ rows' = [rows EXCEPT ![e] = Ticketed(@)]
  /\ UNCHANGED <<canonical, cases, graphs, requests, modes>>

StartTicket(q, e) ==
  /\ Free(q) /\ modes.external /\ e \in Stored /\ Happens("operator")
  /\ requests' = [requests EXCEPT ![q] = [Idle EXCEPT !.at = "ticketing", !.kind = "operator",
                                                       !.event = e, !.seen = rows[e]]]
  /\ UNCHANGED <<rows, canonical, cases, graphs, modes>>

(* The answer is written over the row as it was before the request. *)
TicketCreated(q) ==
  /\ At(q, "ticketing") /\ LoopFree
  /\ rows' = [rows EXCEPT ![requests[q].event] = Ticketed(requests[q].seen)]
  /\ Ends(q)
  /\ UNCHANGED <<canonical, cases, graphs, modes, env>>

TicketFailed(q) ==
  /\ At(q, "ticketing") /\ LoopFree
  /\ Ends(q)
  /\ UNCHANGED <<rows, canonical, cases, graphs, modes, env>>

-----------------------------------------------------------------------------
(* The environment. *)

(* Another part of the system resolves or closes a case. *)
CloseCase(c) ==
  /\ Happens("close")
  /\ cases[c].open
  /\ cases' = [cases EXCEPT ![c].open = FALSE]
  /\ UNCHANGED <<rows, canonical, graphs, requests, modes>>

Crash ==
  /\ Happens("crash")
  /\ \E q \in Requests : requests[q].at # "idle"
  /\ requests' = [q \in Requests |-> Idle]
  /\ UNCHANGED <<rows, canonical, cases, graphs, modes>>

Correlating(q) ==
  \E silent \in {{}, Devices} : Correlate(q, silent) \/ FailOpen(q, silent)

Continue(q) ==
  \/ Decide(q) \/ Correlating(q) \/ IntakeExisting(q) \/ IntakeNew(q) \/ Project(q) \/ Trigger(q)
  \/ Dispatched(q) \/ TicketCreated(q) \/ TicketFailed(q)

Next ==
  \/ \E q \in Requests :
       \/ Continue(q)
       \/ \E e \in Events : \/ \E level \in LevelsOf[e] : Ingest(q, e, level)
                           \/ \E d \in Dispositions : Dispose(q, e, d)
                           \/ Dispatch(q, e) \/ CreateLocalTicket(q, e) \/ StartTicket(q, e)
  \/ \E c \in DOMAIN cases : CloseCase(c)
  \/ Crash

Spec == Init /\ [][Next]_vars

(* The event loop runs what it can, and every request of NetBox or the ticket
   system ends by its timeout. *)
FairSpec == Spec /\ \A q \in Requests : WF_vars(Continue(q))

-----------------------------------------------------------------------------
(* Properties. *)

(* An event never gets two cases, however often it is delivered, disposed of
   and dispatched, while earlier requests about it are still waiting. *)
OneCasePerEvent ==
  \A b, c \in DOMAIN cases : cases[b].event = cases[c].event => b = c

(* An event that points at a case is either the event the case was opened for
   or part of its evidence: nothing that was merged is dropped silently. *)
LinksBacked ==
  \A e \in Events : rows[e].case # 0 =>
    LET c == cases[rows[e].case] IN c.event = e \/ e \in c.derived

(* A decision for a case is followed by a case for the event, or evidence in
   another's: NetBox being down opens more cases, never fewer. *)
Covered(e) == \E c \in DOMAIN cases : cases[c].event = e \/ e \in cases[c].derived
DecisionsCovered ==
  \A e \in Events : canonical[e] = "case_required" ~> Covered(e) \/ env["crash"] > 0

=============================================================================
