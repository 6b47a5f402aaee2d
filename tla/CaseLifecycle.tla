---------------------------- MODULE CaseLifecycle ----------------------------
(***************************************************************************)
(* What CaseStateService promises about one case, whoever calls it: the     *)
(* abstract specification that CaseGraph (and every other writer of the     *)
(* case status) is shown to implement.                                      *)
(***************************************************************************)
EXTENDS CaseState

CONSTANT Start          \* the statuses a case can be in when it is first seen

VARIABLE case

Init == case \in Start

(* One call of transition that changes the status. *)
Move == \E to \in Allowed[case] : case' = to

Spec == Init /\ [][Move]_case
=============================================================================
