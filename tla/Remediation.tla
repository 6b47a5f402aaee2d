---------------------------- MODULE Remediation ----------------------------
(***************************************************************************)
(* Remediation plans between the agent that drafts them and the devices:    *)
(* the recommended actions, the agent's check beforehand and the safety     *)
(* critic (agents/), the policy guard (policies/guard.py) with the system's *)
(* autonomy level (services/automation_settings_service.py), and the loop   *)
(* of actions of an accepted job (services/execution_service.py) down to    *)
(* the execution engine.  Approvals and the job's life as a whole are       *)
(* PlanPipeline's.                                                         *)
(*                                                                         *)
(* Each job has a case and an approved plan of its own; the cases have one  *)
(* target, the device or address the breaker counts runs by.  A change goes *)
(* to the device its action names, which may be another.  The jobs share    *)
(* one event loop: a job runs alone until it awaits a baseline, a script,   *)
(* an HTTP call or a verification.  What it writes is its own until it      *)
(* commits at its end; a session sees what is committed when it asks.       *)
(***************************************************************************)
EXTENDS Integers, Sequences, FiniteSets, FiniteSetsExt

CONSTANTS
  Jobs,     \* requests that execute a plan at once
  Rules,    \* what the rules of the policy file recommend: sequences of actions
  Undo,     \* what an approved plan's rollback payload recommends
  Settings, \* the levels someone sets
  EnvLevel, \* the level of the environment: 1 if automation_observe_only, else 2
  MaxRuns,  \* EXECUTION_CIRCUIT_BREAKER_MAX_RUNS
  MaxEnv    \* bounds: how often the environment does what, by kind

(* A plan is drafted, the level is set, a run grows older than the breaker's
   window, the process dies. *)
EnvKinds == {"draft", "level", "age", "crash"}

Levels == 0 .. 5

VARIABLES
  level, \* the setting automation_mode: "none" without a row, else the level
  plans, \* the plan of each job's case, approved before the job is accepted
  jobs,  \* where each job is
  log,   \* the target's runs within the breaker's window, in the order they began
  lost,  \* how many jobs ended without a commit after they had begun
  env    \* how often the environment has acted, by kind

vars == <<level, plans, jobs, log, lost, env>>

(* tools/catalog.json, one probe without and one with a required parameter.
   needs: there are required parameters; screened: commands are matched against
   patterns or a list of prefixes. *)
Catalog ==
  LET Spec(cap, exec, risk, modes, runs, approval, needs, screened) ==
        [capability |-> cap, executor |-> exec, risk |-> risk, modes |-> modes,
         executable |-> runs, approval |-> approval, needs |-> needs, screened |-> screened]
  IN [ manual    |-> Spec("manual", "manual", 0, {"observe"}, FALSE, FALSE, FALSE, "no"),
       notify    |-> Spec("notification", "notification", 0, {"observe", "execute"}, TRUE, FALSE, TRUE, "no"),
       api       |-> Spec("mutation", "api", 1, {"observe", "execute"}, TRUE, TRUE, TRUE, "no"),
       script    |-> Spec("mutation", "script", 2, {"execute"}, TRUE, TRUE, TRUE, "patterns"),
       show      |-> Spec("read_only", "script", 0, {"observe"}, FALSE, FALSE, TRUE, "both"),
       config    |-> Spec("mutation", "ssh", 3, {"execute"}, TRUE, TRUE, TRUE, "no"),
       status    |-> Spec("read_only", "probe", 0, {"observe"}, TRUE, FALSE, FALSE, "no"),
       interface |-> Spec("read_only", "probe", 0, {"observe"}, TRUE, FALSE, TRUE, "no") ]

Registered == DOMAIN Catalog

(* params and rest: the required parameters and the commands as far as they are
   in the action's params, and among the other keys that the execution adds where
   params lacks them. *)
Values == {"none", "plain", "rough"}
Action == [tool : Registered \cup {"none", "unknown"}, type : Registered \cup {"other"},
           mode : {"none", "observe", "execute", "manual_check"}, params : Values, rest : Values]

(* Rules name no tool at all or any tool, known or not. *)
ASSUME RemediationAssumption ==
  /\ IsFiniteSet(Jobs) /\ {"committed", "lost"} \cap Jobs = {}
  /\ Rules \subseteq Seq(Action) /\ Undo \in Seq(Action)
  /\ Settings \subseteq Levels /\ EnvLevel \in {1, 2}
  /\ MaxRuns \in Nat /\ MaxEnv \in [EnvKinds -> Nat]

(* critic: its decision; against: the rules by which it contradicts the agent. *)
NoPlan == [stage |-> "none", actions |-> <<>>, mode |-> "manual", critic |-> "none", against |-> {}]

(* next: its next action, past the last of the plan those of the rollback. *)
Job == [at : {"idle", "next", "baseline", "device", "verdict", "undoing"}, next : Nat,
        ok : BOOLEAN, failed : BOOLEAN, undo : BOOLEAN]
Idle == [at |-> "idle", next |-> 1, ok |-> FALSE, failed |-> FALSE, undo |-> FALSE]
Waiting == {"idle", "baseline", "device", "verdict", "undoing"}

(* of: the job that has not committed it yet; ended: succeeded, verified or
   failed; undone: rolled_back; acted: its change has reached a device. *)
Run == [of : Jobs \cup {"committed", "lost"}, status : {"running", "ended", "undone"},
        acted : BOOLEAN]

TypeOK ==
  /\ level \in Levels \cup {-1}
  /\ \A j \in Jobs :
       /\ plans[j].stage \in {"none", "drafted", "approved"} /\ plans[j].mode \in {"auto", "manual"}
       /\ plans[j].critic \in {"none", "pass", "soft", "rejected"}
       /\ \A i \in DOMAIN plans[j].actions : plans[j].actions[i] \in Action
  /\ jobs \in [Jobs -> Job]
  /\ log \in Seq(Run)
  /\ lost \in Nat /\ env \in [EnvKinds -> Nat]
  /\ Cardinality({j \in Jobs : jobs[j].at \notin Waiting}) <= 1

Init ==
  /\ level \in Settings \cup {-1} /\ lost = 0 /\ log = <<>>
  /\ plans = [j \in Jobs |-> NoPlan]
  /\ jobs = [j \in Jobs |-> Idle]
  /\ env = [k \in EnvKinds |-> 0]

Happens(kind) == env[kind] < MaxEnv[kind] /\ env' = [env EXCEPT ![kind] = @ + 1]
LoopFree == \A j \in Jobs : jobs[j].at \in Waiting

-----------------------------------------------------------------------------
(* The guard. *)

Stored == IF level = -1 THEN 1 ELSE level
Threshold == [lv \in Levels |-> CASE lv <= 1 -> 1 [] lv \in 2 .. 4 -> lv [] OTHER -> 4]

Valid(t, v) == Catalog[t].needs => v # "none"

Risk(t, v, core) ==
  LET matched == IF v = "rough" /\ Catalog[t].screened # "no" THEN 3 ELSE 0
      strays  == IF v = "rough" /\ Catalog[t].screened = "both" THEN 2 ELSE 0
      risk    == Max({Catalog[t].risk, matched, strays})
  IN IF core /\ risk > 0 THEN Min({4, risk + 1}) ELSE risk

WantsApproval(t, v, core, lv) == Catalog[t].approval \/ Risk(t, v, core) >= Threshold[lv]

Refusal(t, v, mode, core, approved, lv, tripped) ==
  IF t \notin Registered THEN "unregistered_tool"
  ELSE IF ~Valid(t, v) THEN "invalid_params"
  ELSE IF mode \notin Catalog[t].modes THEN "mode_not_allowed"
  ELSE IF WantsApproval(t, v, core, lv) /\ ~approved THEN "approval_required"
  ELSE IF lv = 0 THEN "autonomy_block_all"
  ELSE IF lv = 1 /\ Catalog[t].capability = "mutation" /\ Catalog[t].executor # "notification"
    THEN "observe_only_blocked"
  ELSE IF tripped THEN "circuit_breaker"
  ELSE IF ~Catalog[t].executable THEN "tool_not_executable"
  ELSE "none"

(* What a job's session finds of the runs within the window.  A plausible bug
   looks at what is committed. *)
CountedRunsCommitted(j) == {i \in DOMAIN log : log[i].of = "committed" /\ log[i].status = "ended"}
CountedRuns(j) == {i \in DOMAIN log : log[i].of \in {j, "committed"} /\ log[i].status = "ended"}
Tripped(j) == Cardinality(CountedRuns(j)) >= MaxRuns

SetLevel(lv) ==
  /\ LoopFree /\ Happens("level") /\ level' = lv
  /\ UNCHANGED <<plans, jobs, log, lost>>
Toggle == SetLevel(IF Stored <= 1 THEN 2 ELSE 1)
SetMode(mode) == SetLevel(IF mode = "auto" THEN 2 ELSE 1)

-----------------------------------------------------------------------------
(* Drafting. *)

(* The tool an action names, or the one its type and mode suggest: first when the
   actions are recommended, where SSH is not among them, then again when they are
   executed. *)
Inferred(a) == IF a.tool # "none" THEN a.tool
               ELSE IF a.type \in {"notify", "api", "script"} THEN a.type ELSE "manual"
Resolved(a) == IF a.tool # "none" THEN a.tool
               ELSE IF a.type \in {"notify", "api", "script", "show", "config"} THEN a.type ELSE "manual"

Advice == [tool |-> "none", type |-> "other", mode |-> "manual_check", params |-> "none", rest |-> "none"]

(* The rule's actions, or a review if no rule matches, with more advice the more
   widely and urgently the incident reaches. *)
Recommended(rule, urgent) ==
  LET all == (IF rule = <<>> THEN <<Advice>> ELSE rule) \o (IF urgent THEN <<Advice>> ELSE <<>>)
  IN [i \in DOMAIN all |-> [all[i] EXCEPT !.tool = Inferred(all[i])]]

Executable(a) == a.tool \in Registered /\ Catalog[a.tool].executable

PreMode(a) == IF a.mode = "none" THEN "execute" ELSE a.mode
PreRefusal(a, core) == Refusal(a.tool, a.params, PreMode(a), core, FALSE, EnvLevel, FALSE)
PreSound(a) == Valid(a.tool, a.params) /\ PreMode(a) \in Catalog[a.tool].modes
PreNeedsApproval(a, core) == PreSound(a) /\ WantsApproval(a.tool, a.params, core, EnvLevel)

(* seen: what the agent knows, confidence in tenths.  A plausible bug leaves the
   approvals to the execution. *)
EligibleUnasked(acts, core, lv, seen) ==
  /\ \E i \in DOMAIN acts : Executable(acts[i])
  /\ lv >= 2 /\ seen.confidence >= 7 /\ seen.priority # "P1"
Eligible(acts, core, lv, seen) ==
  /\ \E i \in DOMAIN acts : Executable(acts[i])
  /\ \A i \in DOMAIN acts : Executable(acts[i]) =>
       /\ ~PreNeedsApproval(acts[i], core)
       /\ PreRefusal(acts[i], core) \in {"none", "approval_required"}
  /\ lv >= 2 /\ seen.confidence >= 7 /\ seen.priority \in {"P2", "P3"}

Findings(acts, core, mode, lv, seen) ==
  LET auto == mode = "auto"
      high == \E i \in DOMAIN acts : /\ Executable(acts[i]) /\ PreSound(acts[i])
                                     /\ Risk(acts[i].tool, acts[i].params, core) >= 3
      kept == Min({9, Max({seen.confidence, 4})})
  IN {c \in {"R001", "R003", "R004", "R005", "R006", "R007", "R008", "R010", "R011", "R012"} :
        \/ c = "R001" /\ ~seen.evidence
        \/ c = "R011" /\ seen.failed
        \/ c = "R003" /\ acts = <<>>
        \/ c = "R004" /\ auto /\ lv <= 1
        \/ c = "R005" /\ auto /\ kept < 7
        \/ c = "R006" /\ auto /\ seen.priority = "P1"
        \/ c = "R007" /\ high /\ seen.confidence < 5
        \/ c \in {"R008", "R012"} /\ seen.shallow
        \/ c = "R010" /\ \E i \in DOMAIN acts : acts[i].tool = "unknown"}
Hard == {"R001", "R003", "R004", "R005", "R006", "R010", "R011"}

Decision(found) == IF found \cap Hard # {} THEN "rejected" ELSE IF found # {} THEN "soft" ELSE "pass"

(* After a hard finding only a human executes the plan. *)
Reviewed(plan, found) ==
  [plan EXCEPT !.critic = Decision(found), !.against = found \cap {"R004", "R005", "R006"},
               !.mode = IF Decision(found) = "rejected" THEN "manual" ELSE @]

(* What the agents of a case may have before them. *)
Seen == {s \in [confidence : {4, 6, 8}, priority : {"P1", "P2", "P3"}, evidence : BOOLEAN,
                failed : BOOLEAN, shallow : BOOLEAN] : s.shallow => s.confidence = 4}

(* The plans the agents may come to at a level as the agent reads it. *)
Drafts ==
  [lv \in Levels |->
     {LET acts == Recommended(c[1], c[2].priority \in {"P1", "P2"})
          mode == IF Eligible(acts, c[3], lv, c[2]) THEN "auto" ELSE "manual"
      IN Reviewed([NoPlan EXCEPT !.stage = "drafted", !.actions = acts, !.mode = mode],
                  Findings(acts, c[3], mode, lv, c[2])) : c \in Rules \X Seen \X BOOLEAN}]

(* An agent that cannot read the level takes the environment's. *)
Draft(j) ==
  /\ LoopFree /\ jobs[j].at = "idle" /\ plans[j].stage # "approved" /\ Happens("draft")
  /\ \E plan \in Drafts[Max({1, Stored})] \cup Drafts[EnvLevel] : plans' = [plans EXCEPT ![j] = plan]
  /\ UNCHANGED <<level, jobs, log, lost>>

(* A human has the plan frozen and approves it, whatever its labels; of these the
   execution reads none. *)
Approve(j) ==
  /\ LoopFree /\ plans[j].stage = "drafted"
  /\ plans' = [plans EXCEPT ![j] = [NoPlan EXCEPT !.stage = "approved",
                                                !.actions = plans[j].actions]]
  /\ UNCHANGED <<level, jobs, log, lost, env>>

-----------------------------------------------------------------------------
(* Executing. *)

Forward(j) == plans[j].actions
All(j)     == Forward(j) \o Undo
Undoing(j) == jobs[j].next > Len(Forward(j))
Current(j) == All(j)[jobs[j].next]
Tool(j)    == Resolved(Current(j))
Entry(j)   == Catalog[Tool(j)]

ModeOf(t) == IF t \in Registered /\ Catalog[t].capability \in {"read_only", "manual"}
             THEN "observe" ELSE "execute"

(* The parameters of the request: the action's own, what its other keys add, and
   for a notification always a message. *)
Merged(a) == CASE Resolved(a) = "notify" -> "plain"
               [] "rough" \in {a.params, a.rest} -> "rough"
               [] "plain" \in {a.params, a.rest} -> "plain"
               [] OTHER -> "none"

(* The approval covers whatever risk the device's role adds. *)
RefusalAt(j) ==
  Refusal(Tool(j), Merged(Current(j)), ModeOf(Tool(j)), FALSE, TRUE, Stored, Tripped(j))

At(j, place) == jobs[j].at = place
Busy(j) == At(j, "next") /\ jobs[j].next <= Len(All(j)) /\ (Undoing(j) => jobs[j].undo)
Advisory(j) == Tool(j) = "manual" /\ ~Undoing(j)
Passes(j, capabilities) ==
  /\ Busy(j) /\ ~Advisory(j) /\ RefusalAt(j) = "none" /\ Entry(j).capability \in capabilities

(* The job goes on with the next action, having written down how this one went. *)
GoesOn(j, ok, failed) ==
  jobs' = [jobs EXCEPT ![j].at = "next", ![j].next = @ + 1, ![j].ok = @ \/ ok, ![j].failed = @ \/ failed]
Moves(j, place) == jobs' = [jobs EXCEPT ![j].at = place]

Began(j, status, acted) == log' = Append(log, [of |-> j, status |-> status, acted |-> acted])
Open(j) == {i \in DOMAIN log : log[i].of = j /\ log[i].status = "running"}
Wrote(j, status, acted) ==
  log' = [i \in DOMAIN log |->
            IF i \in Open(j) THEN [log[i] EXCEPT !.status = status, !.acted = @ \/ acted] ELSE log[i]]

(* The version is found approved twice over; the job begins. *)
Accept(j) ==
  /\ LoopFree /\ At(j, "idle") /\ plans[j].stage = "approved"
  /\ Moves(j, "next")
  /\ UNCHANGED <<level, plans, log, lost, env>>

Skip(j) ==
  /\ Busy(j) /\ Advisory(j)
  /\ GoesOn(j, FALSE, FALSE)
  /\ UNCHANGED <<level, plans, log, lost, env>>

(* A refused action leaves a failed run, which the breaker counts like any other;
   in a rollback even advice is refused. *)
Refuse(j) ==
  /\ Busy(j) /\ ~Advisory(j) /\ RefusalAt(j) # "none"
  /\ Began(j, "ended", FALSE) /\ GoesOn(j, FALSE, TRUE)
  /\ UNCHANGED <<level, plans, lost, env>>

(* A notification goes to the webhook outbox. *)
Notify(j) ==
  /\ Passes(j, {"notification"})
  /\ Began(j, IF Undoing(j) THEN "undone" ELSE "ended", FALSE) /\ GoesOn(j, TRUE, FALSE)
  /\ UNCHANGED <<level, plans, lost, env>>

(* The engine has no executor for probes. *)
Unsupported(j) ==
  /\ Passes(j, {"read_only"})
  /\ Began(j, "ended", FALSE) /\ GoesOn(j, FALSE, TRUE)
  /\ UNCHANGED <<level, plans, lost, env>>

CaptureBaseline(j) ==
  /\ Passes(j, {"mutation"}) /\ ~Undoing(j)
  /\ Began(j, "running", FALSE) /\ Moves(j, "baseline")
  /\ UNCHANGED <<level, plans, lost, env>>

BaselineFails(j) ==
  /\ LoopFree /\ At(j, "baseline")
  /\ Wrote(j, "ended", FALSE) /\ GoesOn(j, FALSE, TRUE)
  /\ UNCHANGED <<level, plans, lost, env>>

(* The engine asks for the level once more, on a session of its own. *)
Aborts(j) ==
  /\ LoopFree /\ At(j, "baseline") /\ Stored <= 1
  /\ Wrote(j, "ended", FALSE) /\ GoesOn(j, FALSE, TRUE)
  /\ UNCHANGED <<level, plans, lost, env>>

(* SSH holds the event loop until the device has answered or could not be reached. *)
ActOverSSH(j) ==
  /\ LoopFree /\ At(j, "baseline") /\ Stored > 1 /\ Entry(j).executor = "ssh"
  /\ \/ Wrote(j, "ended", TRUE) /\ Moves(j, "verdict")
     \/ \E acted \in BOOLEAN : Wrote(j, "ended", acted) /\ GoesOn(j, FALSE, TRUE)
  /\ UNCHANGED <<level, plans, lost, env>>

(* A script or a request runs on while the job waits for it. *)
Act(j) ==
  /\ LoopFree /\ At(j, "baseline") /\ Stored > 1 /\ Entry(j).executor # "ssh"
  /\ \E acted \in BOOLEAN : Wrote(j, "running", acted)
  /\ Moves(j, "device")
  /\ UNCHANGED <<level, plans, lost, env>>

Answer(j) ==
  /\ LoopFree /\ At(j, "device")
  /\ Wrote(j, "ended", FALSE)
  /\ Moves(j, "verdict") \/ GoesOn(j, FALSE, TRUE)
  /\ UNCHANGED <<level, plans, lost, env>>

Verify(j) ==
  /\ LoopFree /\ At(j, "verdict")
  /\ GoesOn(j, TRUE, FALSE)
  /\ UNCHANGED <<level, plans, log, lost, env>>

(* After a half-failed plan its rollback runs, each action past the same guard. *)
RollsBack(j) ==
  /\ At(j, "next") /\ jobs[j].next = Len(Forward(j)) + 1 /\ ~jobs[j].undo
  /\ jobs[j].ok /\ jobs[j].failed /\ Undo # <<>>
BeginRollback(j) ==
  /\ RollsBack(j)
  /\ jobs' = [jobs EXCEPT ![j].undo = TRUE]
  /\ UNCHANGED <<level, plans, log, lost, env>>

(* Without a baseline: the engine is asked at once. *)
StartUndo(j) ==
  /\ Passes(j, {"mutation"}) /\ Undoing(j)
  /\ \E acted \in BOOLEAN : Began(j, "running", acted)
  /\ Moves(j, "undoing")
  /\ UNCHANGED <<level, plans, lost, env>>

(* Its change has taken place, and the run counts no more; or it has failed. *)
EndUndo(j) ==
  /\ LoopFree /\ At(j, "undoing")
  /\ Wrote(j, "undone", TRUE) \/ Wrote(j, "ended", FALSE)
  /\ GoesOn(j, FALSE, FALSE)
  /\ UNCHANGED <<level, plans, lost, env>>

Execute(j) ==
  \/ Accept(j) \/ Skip(j) \/ Refuse(j) \/ Notify(j) \/ Unsupported(j)
  \/ CaptureBaseline(j) \/ BaselineFails(j) \/ Aborts(j) \/ ActOverSSH(j) \/ Act(j) \/ Answer(j)
  \/ Verify(j) \/ BeginRollback(j) \/ StartUndo(j) \/ EndUndo(j)

Leaves(gone, as) ==
  /\ jobs' = [j \in Jobs |-> IF j \in gone THEN Idle ELSE jobs[j]]
  /\ plans' = [j \in Jobs |-> IF j \in gone THEN NoPlan ELSE plans[j]]
  /\ log' = [i \in DOMAIN log |-> IF log[i].of \in gone THEN [log[i] EXCEPT !.of = as] ELSE log[i]]

Commit(j) ==
  /\ At(j, "next") /\ ~Busy(j) /\ ~RollsBack(j)
  /\ Leaves({j}, "committed")
  /\ UNCHANGED <<level, lost, env>>

(* The outcome asks for a transition the case's table refuses: the exception takes
   every row of the job with it, not what the device was told. *)
Raise(j) ==
  /\ LoopFree /\ At(j, "verdict")
  /\ Leaves({j}, "lost") /\ lost' = lost + 1
  /\ UNCHANGED <<level, env>>

Crash ==
  /\ Happens("crash")
  /\ LET gone == {j \in Jobs : ~At(j, "idle")}
     IN gone # {} /\ Leaves(gone, "lost") /\ lost' = lost + Cardinality(gone)
  /\ UNCHANGED level

(* The oldest run leaves the breaker's window. *)
Age ==
  /\ log # <<>> /\ Happens("age") /\ log' = Tail(log)
  /\ UNCHANGED <<level, plans, jobs, lost>>

Next ==
  \/ \E lv \in Settings : SetLevel(lv)
  \/ Toggle \/ \E mode \in {"auto", "observe_only"} : SetMode(mode)
  \/ \E j \in Jobs : Draft(j) \/ Approve(j) \/ Execute(j) \/ Commit(j) \/ Raise(j)
  \/ Crash \/ Age

RemediationSpec == Init /\ [][Next]_vars

-----------------------------------------------------------------------------
(* Properties. *)

(* The breaker bounds the changes made within its window for the cases of one
   target, jobs at once and jobs that died with their rows included, except those
   a rollback has made: it does not count a run that was rolled back.  It bounds
   nothing of what reaches a device that the actions of other targets name too. *)
BreakerHolds ==
  Cardinality({i \in DOMAIN log : log[i].acted /\ log[i].status # "undone"})
    <= MaxRuns * (Cardinality(Jobs) + lost)

(* A plan the agent calls automatic is one the critic agrees with, and the check
   beforehand stands: at any level that acts at all, whatever the case says of the
   device and with or without an approval, the guard of the execution lets every
   executable action of it pass, the breaker aside. *)
AutoStands ==
  \A j \in Jobs :
    /\ plans[j].against = {}
    /\ plans[j].mode = "auto" => \A i \in DOMAIN plans[j].actions :
         LET a == plans[j].actions[i]
             t == Resolved(a)
         IN Executable(a) => \A lv \in 2 .. 5, core, approved \in BOOLEAN :
              Refusal(t, Merged(a), ModeOf(t), core, approved, lv, FALSE) = "none"
=============================================================================
