------------------------------ MODULE CaseState ------------------------------
(***************************************************************************)
(* The status machine every case obeys: the table and the legality test of  *)
(* services/case_state_service.py, and the abstract specification they      *)
(* promise to every other component: a case changes status one allowed edge *)
(* at a time, and never leaves a terminal status.                           *)
(***************************************************************************)
EXTENDS Naturals

(* TERMINAL and ALLOWED.  A status without a row (ALLOWED.get gives the empty
   set) is a terminal one: nothing leaves it. *)
Terminal == {"resolved", "rolled_back", "escalated", "failed", "closed"}

(* Every row of ALLOWED ends in these two. *)
GiveUp == {"escalated", "failed"}

Allowed ==
  [ new                 |-> {"normalized"} \cup GiveUp,
    open                |-> {"normalized", "triaged", "investigating", "planned"} \cup GiveUp,
    normalized          |-> {"triaged"} \cup GiveUp,
    triaged             |-> {"evidence_collecting", "diagnosing", "investigating", "planned"} \cup GiveUp,
    investigating       |-> {"evidence_collecting", "diagnosing", "planning"} \cup GiveUp,
    evidence_collecting |-> {"diagnosing"} \cup GiveUp,
    diagnosing          |-> {"evidence_collecting", "hypothesis_review", "planning"} \cup GiveUp,
    hypothesis_review   |-> {"evidence_collecting", "diagnosing", "planning"} \cup GiveUp,
    planning            |-> {"safety_review", "awaiting_approval", "observing"} \cup GiveUp,
    planned             |-> {"safety_review", "awaiting_approval", "executing", "observing"} \cup GiveUp,
    safety_review       |-> {"awaiting_approval", "observing"} \cup GiveUp,
    awaiting_approval   |-> {"planning", "planned", "executing", "observing"} \cup GiveUp,
    executing           |-> {"verifying", "rolled_back"} \cup GiveUp,
    verifying           |-> {"resolved", "rolled_back"} \cup GiveUp,
    observing           |-> {"planning", "awaiting_approval", "resolved"} \cup GiveUp,
    resolved            |-> {},
    rolled_back         |-> {},
    escalated           |-> {},
    failed              |-> {},
    closed              |-> {} ]

Status == DOMAIN Allowed

(* A plausible bug: only the terminal statuses are guarded. *)
CanLeave(from, to) == from = to \/ from \notin Terminal

(* The test of CaseStateService.transition: staying put is always legal. *)
CanMove(from, to) == from = to \/ to \in Allowed[from]
=============================================================================
