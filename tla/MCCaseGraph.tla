----------------------------- MODULE MCCaseGraph -----------------------------
(* TLC instances of CaseGraph. *)
EXTENDS CaseGraph, TLC

CONSTANTS r1, r2, w1, w2, AgentRuns, LlmCalls, ProbeCalls, Replans,
          Crashes, Stalls, Faults, Moves, Elapses, OtherProbes, Slows

MCBudget == [agent_runs |-> AgentRuns, llm_calls |-> LlmCalls,
             probe_calls |-> ProbeCalls, replan_count |-> Replans]

MCMaxEnv == [crash |-> Crashes, stall |-> Stalls, fault |-> Faults, move |-> Moves,
             elapse |-> Elapses, probe |-> OtherProbes, slow |-> Slows]

Symmetry == Permutations(Runs) \cup Permutations(Workers)
=============================================================================
