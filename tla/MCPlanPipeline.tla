--------------------------- MODULE MCPlanPipeline ---------------------------
(* TLC instances of PlanPipeline. *)
EXTENDS PlanPipeline, TLC

CONSTANTS u1, u2, w1, w2, k1, k2, Crashes, Stalls, Writes, Moves, Rechecks

(* Two mutations; a mutation after a human step; a human step; two reads. *)
MCActions == [ pair   |-> <<"mutation", "mutation">>,
               guided |-> <<"manual", "mutation">>,
               advice |-> <<"manual">>,
               survey |-> <<"readonly", "readonly">> ]

ActionsOf == [c \in Contents |-> MCActions[c]]

MCMaxEnv == [crash |-> Crashes, stall |-> Stalls, write |-> Writes, move |-> Moves,
             recheck |-> Rechecks]

Symmetry == Permutations(Users) \cup Permutations(Verifiers) \cup Permutations(Keys)
=============================================================================
