------------------------------ MODULE CaseGraph ------------------------------
(***************************************************************************)
(* The durable diagnostic graph of one case: graph runs queued by the API   *)
(* (orchestration/graph_service.py), claimed under a lease by workers       *)
(* (orchestration/graph_worker.py) that execute one task at a time          *)
(* (orchestration/graph_engine.py), chosen by the supervisor                *)
(* (orchestration/case_supervisor.py).                                      *)
(*                                                                         *)
(* One action is one database transaction: a node executes between its      *)
(* first flush, which row-locks the run and the task, and its commit, so    *)
(* nobody else's writes to those rows fall inside.  Follow-up evidence      *)
(* tasks are the exception, the probe gateway commits around every SSH      *)
(* session, and are split there.                                            *)
(***************************************************************************)
EXTENDS CaseState, Integers, FiniteSets, Sequences

CONSTANTS
  Runs,               \* the graph runs the case can get
  Workers,            \* worker processes (each run_once is one at a time)
  NoRun,              \* the run of an idle worker
  MaxAttempts,        \* agent_task.max_attempts
  Budget,             \* the limits of agent_budget, by resource
  ProbesPerRequest,   \* evidence requests of one follow-up task
  CaseStart,          \* the statuses of the case when the model starts
  FlakyAgents,        \* the agent nodes whose agent may raise
  CredStart,          \* may a run be enqueued with / without a credential
  MaxEnv              \* bounds: how often the environment does what, by kind

Resources == {"agent_runs", "llm_calls", "probe_calls", "replan_count"}
Calls     == 1 .. ProbesPerRequest

(* What the environment does, each bounded by MaxEnv: a worker process
   crashes, a lease expires under a live worker, a transaction fails for a
   reason of the database's, the plan pipeline moves the case, a run uses up
   its runtime, somebody else probes the device, a model or the log store takes
   longer to answer than a third of the lease. *)
EnvKinds == {"crash", "stall", "fault", "move", "elapse", "probe", "slow"}

ASSUME ConstantsAssumption ==
  /\ NoRun \notin Runs
  /\ {"free", "orphan", "other"} \cap Workers = {}
  /\ MaxAttempts \in Nat \ {0}
  /\ Budget \in [Resources -> Nat]
  /\ ProbesPerRequest \in Nat \ {0}
  /\ CaseStart \subseteq Status
  /\ FlakyAgents \subseteq {"triage", "historical", "diagnostic", "plan_candidate"}
  /\ CredStart \subseteq BOOLEAN
  /\ MaxEnv \in [EnvKinds -> Nat]

VARIABLES
  case,      \* case_record.status
  plan,      \* the newest remediation plan: none, or its safety review
  run,       \* agent_graph_run, by run: status, lease, credential, runtime
  tasks,     \* agent_task and agent_tool_call, by run, in order of id
  used,      \* agent_budget, by run and resource
  probe,     \* who holds the device's running probe_run row
  wk,        \* the worker processes: pc, and the rows they have in memory
  env        \* how often the environment has acted, by kind

vars == <<case, plan, run, tasks, used, probe, wk, env>>

Happens(kind) == env[kind] < MaxEnv[kind] /\ env' = [env EXCEPT ![kind] = @ + 1]

-----------------------------------------------------------------------------
(* Values.                                                                 *)

Nodes == {"normalize", "triage", "supervisor", "evidence_collection", "historical",
          "diagnostic", "critic", "plan_candidate", "safety_review"}

(* The statuses the code gives a task or a run.  (Nothing sets a task's
   deadline_at or a run's "paused", so timed_out and paused never occur.) *)
TaskStatus == {"ready", "running", "waiting_human", "completed", "failed", "cancelled"}
ActiveTask == {"ready", "running", "waiting_human"}

(* The runs a worker looks for. *)
Claimable  == {"queued", "running", "waiting_evidence"}
ActiveRun  == Claimable \cup {"waiting_human"}
RunStatus  == {"absent", "completed", "failed", "cancelled", "budget_exhausted"} \cup ActiveRun
CallStatus == {"none", "running", "completed", "failed", "rejected"}

(* What later decisions read in a task's output: more evidence is requested,
   a hypothesis meets the confirmation thresholds, the critic or the safety
   critic rejects, the agent raised and left an agent_failure claim. *)
Flags == {"requests", "confirmable", "reject", "failed"}

(* "born" numbers the transaction that created the task: created_at is the
   transaction's now(), so tasks of one transaction tie on it. *)
Task == [node : Nodes, round : Nat, prio : {80, 90, 100}, born : Nat, status : TaskStatus,
         attempts : Nat, out : SUBSET Flags, calls : [Calls -> CallStatus]]

NoCalls == [i \in Calls |-> "none"]

RunRecord == [status : RunStatus, lease : {"free", "held", "expired"}, cred : BOOLEAN,
              started : BOOLEAN, over : BOOLEAN]

(* What a worker re-read before executing: the run's and the task's status
   and the task's attempts, as its session still holds them. *)
Seen == [run : RunStatus, task : TaskStatus, attempts : Nat]

Worker == [pc : {"idle", "claimed", "begun", "looping", "probing", "hung", "finish"},
           run : Runs \cup {NoRun}, task : Nat, seen : Seen, idx : Nat,
           pend : [Calls -> CallStatus]]

IdleWorker == [pc |-> "idle", run |-> NoRun, task |-> 0, idx |-> 1, pend |-> NoCalls,
               seen |-> [run |-> "absent", task |-> "ready", attempts |-> 0]]

TypeOK ==
  /\ case \in Status
  /\ plan \in {"none", "unreviewed", "passed", "rejected"}
  /\ run \in [Runs -> RunRecord]
  /\ tasks \in [Runs -> Seq(Task)]
  /\ used \in [Runs -> [Resources -> Nat]]
  /\ probe \in {"free", "orphan", "other"} \cup Workers
  /\ wk \in [Workers -> Worker]
  /\ env \in [EnvKinds -> Nat]

Init ==
  /\ case \in CaseStart
  /\ plan = "none"
  /\ run = [r \in Runs |-> [status |-> "absent", lease |-> "free", cred |-> FALSE,
                            started |-> FALSE, over |-> FALSE]]
  /\ tasks = [r \in Runs |-> <<>>]
  /\ used = [r \in Runs |-> [k \in Resources |-> 0]]
  /\ probe = "free"
  /\ wk = [w \in Workers |-> IdleWorker]
  /\ env = [k \in EnvKinds |-> 0]

-----------------------------------------------------------------------------
(* Tasks and runs.                                                         *)

(* What AgentTaskService.create is asked for: node, insight round, priority. *)
Todo(node, round, prio) == [node |-> node, round |-> round, prio |-> prio]
Supervisor == Todo("supervisor", 0, 100)

(* A plausible bug: the row keeps the first status of TASK_TRANSITIONS. *)
CreatePending(ts, todo) ==
  ts \o [i \in 1 .. Len(todo) |->
          [node |-> todo[i].node, round |-> todo[i].round, prio |-> todo[i].prio,
           born |-> Len(ts), status |-> "pending", attempts |-> 0, out |-> {},
           calls |-> NoCalls]]

(* The rows of one transaction, appended in order of id. *)
Create(ts, todo) ==
  ts \o [i \in 1 .. Len(todo) |->
          [node |-> todo[i].node, round |-> todo[i].round, prio |-> todo[i].prio,
           born |-> Len(ts), status |-> "ready", attempts |-> 0, out |-> {},
           calls |-> NoCalls]]

(* The partial unique index uq_agent_graph_run_case_active. *)
UniqueActive(rs) ==
  \A r, q \in Runs : rs[r].status \in ActiveRun /\ rs[q].status \in ActiveRun => r = q

(* The runs a new one supersedes. *)
Superseded == {q \in Runs : run[q].status \in ActiveRun}

(* Workers whose open transaction has the run's row locked for good. *)
Hung(r) == {w \in Workers : wk[w].pc = "hung" /\ wk[w].run = r}

(* GraphService.enqueue.  Without force an active run is answered as it is,
   which changes nothing; with force it is cancelled with its live tasks. *)
Enqueue(r) ==
  /\ run[r].status = "absent"
  /\ \A q \in Superseded : Hung(q) = {}
  /\ LET old == Superseded IN
     \E cred \in CredStart :
       /\ run' = [q \in Runs |->
                  IF q = r THEN [run[r] EXCEPT !.status = "queued", !.cred = cred]
                  ELSE IF q \in old THEN [run[q] EXCEPT !.status = "cancelled"] ELSE run[q]]
       /\ tasks' = [q \in Runs |->
                  IF q = r THEN Create(<<>>, <<Todo("normalize", 0, 100)>>)
                  ELSE IF q \in old
                       THEN [t \in DOMAIN tasks[q] |->
                              IF tasks[q][t].status \in ActiveTask
                              THEN [tasks[q][t] EXCEPT !.status = "cancelled"] ELSE tasks[q][t]]
                       ELSE tasks[q]]
  /\ UNCHANGED <<case, plan, used, probe, wk, env>>

(* The run and its tasks once the human gate is passed; a plausible bug leaves
   the run waiting. *)
StillGated(r) == [run EXCEPT ![r].cred = TRUE]
Resumed(r) == [run EXCEPT ![r].status = "queued", ![r].cred = TRUE, ![r].lease = "free"]

Unblocked(r) ==
  [t \in DOMAIN tasks[r] |->
     IF tasks[r][t].status = "waiting_human" THEN [tasks[r][t] EXCEPT !.status = "ready"] ELSE tasks[r][t]]

(* resume_case_graph: a human supplies the missing credential. *)
ResumeHuman(r) ==
  /\ run[r].status = "waiting_human"
  /\ Hung(r) = {}
  /\ \E t \in DOMAIN tasks[r] : tasks[r][t].status = "waiting_human"
  /\ run' = Resumed(r)
  /\ tasks' = [tasks EXCEPT ![r] = Unblocked(r)]
  /\ UNCHANGED <<case, plan, used, probe, wk, env>>

-----------------------------------------------------------------------------
(* The worker: AgentGraphWorker.run_once.                                  *)

(* The runs a poll selects, passing locked rows over; a plausible bug forgets
   the lease. *)
CanClaimHeld(r) == run[r].status \in Claimable /\ Hung(r) = {}
CanClaim(r) == run[r].status \in Claimable /\ run[r].lease # "held" /\ Hung(r) = {}

(* A plausible bug: a takeover that leaves the dead worker's task running. *)
NothingRecovered(r) == tasks[r]

(* Tasks a dead worker left running are ready again, if the run still has a
   lease (an expired one) and has started. *)
Recovered(r) ==
  IF run[r].lease = "expired" /\ run[r].started
  THEN [t \in DOMAIN tasks[r] |->
         IF tasks[r][t].status = "running"
         THEN [tasks[r][t] EXCEPT !.status = "ready"] ELSE tasks[r][t]]
  ELSE tasks[r]

(* ORDER BY priority, created_at: a tie goes either way. *)
Picks(ts) ==
  LET ready == {t \in DOMAIN ts : ts[t].status = "ready"}
      Before(s, t) == ts[s].prio < ts[t].prio \/ (ts[s].prio = ts[t].prio /\ ts[s].born < ts[t].born)
  IN  {t \in ready : \A s \in ready : ~Before(s, t)}

Claim(w) == \E r \in Runs :
  /\ wk[w].pc = "idle"
  /\ CanClaim(r)
  /\ tasks' = [tasks EXCEPT ![r] = Recovered(r)]
  /\ \/ \E t \in Picks(Recovered(r)) :
          /\ run' = [run EXCEPT ![r].lease = "held"]
          /\ wk' = [wk EXCEPT ![w].pc = "claimed", ![w].run = r, ![w].task = t]
     \/ /\ Picks(Recovered(r)) = {}
        /\ run' = [run EXCEPT ![r].lease = "free"]
        /\ UNCHANGED wk
  /\ UNCHANGED <<case, plan, used, probe, env>>

(* The claim is committed; run and task are read again before they execute. *)
Reread(w) ==
  LET r == wk[w].run   task == tasks[r][wk[w].task] IN
  /\ wk[w].pc = "claimed"
  /\ wk' = [wk EXCEPT ![w].pc = "begun",
             ![w].seen = [run |-> run[r].status, task |-> task.status, attempts |-> task.attempts]]
  /\ UNCHANGED <<case, plan, run, tasks, used, probe, env>>

(* The status run.status = "running" leaves in the row: an object already
   holding "running" emits no UPDATE. *)
Begun(w) == IF wk[w].seen.run = "running" THEN run[wk[w].run].status ELSE "running"

(* execute_task up to its try: the task transition must be legal and the
   flush must not meet the unique index. *)
CanBegin(w) ==
  /\ wk[w].seen.task \in {"ready", "running"}
  /\ UniqueActive([run EXCEPT ![wk[w].run].status = Begun(w)])

(* Otherwise the exception leaves run_once: nothing is committed and the
   lease stays until it expires. *)
BeginRefused(w) ==
  /\ wk[w].pc = "begun"
  /\ ~CanBegin(w)
  /\ wk' = [wk EXCEPT ![w] = IdleWorker]
  /\ UNCHANGED <<case, plan, run, tasks, used, probe, env>>

(* The end of run_once gives the lease up, whoever holds it by now. *)
Release(w) ==
  /\ wk[w].pc = "finish"
  /\ run' = [run EXCEPT ![wk[w].run].lease = "free"]
  /\ wk' = [wk EXCEPT ![w] = IdleWorker]
  /\ UNCHANGED <<case, plan, tasks, used, probe, env>>

-----------------------------------------------------------------------------
(* Executing a task: CaseGraphEngine.execute_task.                         *)

TaskOf(w) == tasks[wk[w].run][wk[w].task]

(* The row once the flush before the try is in it. *)
Started(w) ==
  [TaskOf(w) EXCEPT !.status = "running",
                    !.attempts = IF wk[w].seen.task = "ready" THEN wk[w].seen.attempts + 1 ELSE @]

(* record_runtime comes before every node. *)
Executes(w, node) ==
  /\ wk[w].pc = "begun"
  /\ CanBegin(w)
  /\ TaskOf(w).node = node
  /\ ~run[wk[w].run].over

CanCharge(r, resources) == \A k \in resources : used[r][k] < Budget[k]

Charged(r, resources) ==
  [used EXCEPT ![r] = [k \in Resources |-> IF k \in resources THEN @[k] + 1 ELSE @[k]]]

(* The commit of a node that leaves the run object at "status". *)
Complete(w, out, todo, status) ==
  LET r == wk[w].run IN
  /\ tasks' = [tasks EXCEPT ![r] =
        Create([@ EXCEPT ![wk[w].task] = [Started(w) EXCEPT !.status = "completed", !.out = out]], todo)]
  /\ run' = [run EXCEPT ![r].status = IF status = "running" THEN Begun(w) ELSE status,
                        ![r].started = TRUE]
  /\ UniqueActive(run')
  /\ wk' = [wk EXCEPT ![w].pc = "finish"]

Normalize(w) ==
  /\ Executes(w, "normalize")
  /\ case' = IF case \in {"new", "open"} THEN "normalized" ELSE case
  /\ Complete(w, {}, <<Todo("triage", 0, 100), Supervisor>>, "running")
  /\ UNCHANGED <<plan, used, probe, env>>

-----------------------------------------------------------------------------
(* The supervisor: CaseSupervisor.decide and _supervise.                   *)

Done(r, node) == {t \in DOMAIN tasks[r] : tasks[r][t].node = node /\ tasks[r][t].status = "completed"}

(* The completed diagnosis of the highest round, the last one of that round. *)
Latest(r) ==
  CHOOSE t \in Done(r, "diagnostic") :
    \A s \in Done(r, "diagnostic") :
      \/ tasks[r][s].round < tasks[r][t].round
      \/ tasks[r][s].round = tasks[r][t].round /\ s <= t

LatestRound(r) == tasks[r][Latest(r)].round

Critics(r) == {t \in Done(r, "critic") : tasks[r][t].round = LatestRound(r)}

LastOf(S) == CHOOSE t \in S : \A s \in S : s <= t

(* A plausible bug: confirmation by the score alone, whatever the critic says. *)
ConfirmedByScore(r, fresh) == fresh /\ "confirmable" \in tasks[r][Latest(r)].out

(* _confirmable, of some hypothesis of the latest round; "fresh" is the age
   of its evidence at the moment of the decision. *)
Confirmed(r, fresh) ==
  /\ fresh
  /\ "confirmable" \in tasks[r][Latest(r)].out
  /\ "reject" \notin tasks[r][LastOf(Critics(r))].out

(* The follow-up evidence task, by its idempotency key evidence_after_round_N. *)
FollowUps(r) ==
  {t \in DOMAIN tasks[r] : tasks[r][t].node = "evidence_collection" /\ tasks[r][t].round = LatestRound(r) + 1}

AgentsActive(r) ==
  \E t \in DOMAIN tasks[r] : tasks[r][t].node # "supervisor" /\ tasks[r][t].status \in ActiveTask

EvidenceWanted(r) == "requests" \in tasks[r][Latest(r)].out

EvidenceAnswered(r) ==
  /\ \E t \in FollowUps(r) : tasks[r][t].status = "completed"
  /\ ~\E t \in DOMAIN tasks[r] : tasks[r][t].node = "diagnostic" /\ tasks[r][t].round > LatestRound(r)

(* The chain of early returns of decide. *)
Decide(r, fresh) ==
  IF AgentsActive(r) THEN "wait_agents"
  ELSE IF Done(r, "evidence_collection") = {} THEN "collect_initial"
  ELSE IF Done(r, "diagnostic") = {} THEN "run_diagnostics"
  ELSE IF EvidenceWanted(r) /\ FollowUps(r) = {} THEN "collect_requested"
  ELSE IF EvidenceWanted(r) /\ EvidenceAnswered(r) THEN "rerun_diagnostics"
  ELSE IF Critics(r) = {} THEN "run_critic"
  ELSE IF ~Confirmed(r, fresh) THEN "escalate"
  ELSE IF Done(r, "plan_candidate") = {} THEN "plan"
  ELSE IF Done(r, "safety_review") = {} THEN "safety_review"
  ELSE IF "reject" \in tasks[r][LastOf(Done(r, "safety_review"))].out THEN "escalate"
  ELSE "observe_only_stop"

StateTransition ==
  [ collect_initial |-> "evidence_collecting", collect_requested |-> "evidence_collecting",
    run_diagnostics |-> "diagnosing", rerun_diagnostics |-> "diagnosing",
    run_critic |-> "hypothesis_review", plan |-> "planning", safety_review |-> "safety_review",
    escalate |-> "escalated", observe_only_stop |-> "observing" ]

(* The next round's diagnosis. *)
NextRound(r) == <<Todo("diagnostic", LatestRound(r) + 1, 100)>>

NextTasks(r, decision) ==
  CASE decision = "collect_initial"   -> <<Todo("evidence_collection", 0, 100)>>
    [] decision = "run_diagnostics"   -> <<Todo("historical", 0, 90), Todo("diagnostic", 0, 100)>>
    [] decision = "collect_requested" -> <<Todo("evidence_collection", LatestRound(r) + 1, 80)>>
    [] decision = "rerun_diagnostics" -> NextRound(r)
    [] decision = "run_critic"        -> <<Todo("critic", LatestRound(r), 100)>>
    [] decision = "plan"              -> <<Todo("plan_candidate", 0, 100)>>
    [] decision = "safety_review"     -> <<Todo("safety_review", 0, 100)>>
    [] OTHER                          -> <<>>

RunStatusAfter(decision) ==
  CASE decision \in {"collect_initial", "collect_requested"} -> "waiting_evidence"
    [] decision = "observe_only_stop"                        -> "completed"
    [] decision = "escalate"                                 -> "failed"
    [] OTHER                                                 -> "running"

(* Where the decision takes the case; the wait decision leaves it. *)
CaseAfter(decision) == IF decision = "wait_agents" THEN case ELSE StateTransition[decision]

ReplanCharge(decision) == IF decision = "collect_requested" THEN {"replan_count"} ELSE {}

Supervise(w) ==
  /\ Executes(w, "supervisor")
  /\ LET r == wk[w].run IN \E fresh \in BOOLEAN : LET decision == Decide(r, fresh) IN
       /\ CanMove(case, CaseAfter(decision))
       /\ case' = CaseAfter(decision)
       /\ CanCharge(r, ReplanCharge(decision))
       /\ used' = Charged(r, ReplanCharge(decision))
       /\ Complete(w, {}, NextTasks(r, decision), RunStatusAfter(decision))
  /\ UNCHANGED <<plan, probe, env>>

-----------------------------------------------------------------------------
(* The agent nodes: _run_agent_node.  Each charges an agent run, the two    *)
(* agents of type insight_analysis an LLM call as well.                     *)

AgentCharge(node) ==
  IF node \in {"diagnostic", "critic"} THEN {"agent_runs", "llm_calls"} ELSE {"agent_runs"}

(* AgentRunner.execute swallows what an agent raises: the task completes with
   an empty output and an agent_failure claim. *)
Outcomes(node, usual) == usual \cup (IF node \in FlakyAgents THEN {{"failed"}} ELSE {})

Agent(w, node, out) ==
  /\ Executes(w, node)
  /\ CanCharge(wk[w].run, AgentCharge(node))
  /\ used' = Charged(wk[w].run, AgentCharge(node))
  /\ Complete(w, out, <<Supervisor>>, "running")
  /\ UNCHANGED <<probe, env>>

Triage(w) == \E out \in Outcomes("triage", {{}}) :
  /\ Agent(w, "triage", out)
  /\ CanMove(case, "triaged")
  /\ case' = "triaged"
  /\ UNCHANGED plan

Historical(w) == \E out \in Outcomes("historical", {{}}) :
  Agent(w, "historical", out) /\ UNCHANGED <<case, plan>>

(* _persist_hypotheses: what matters later is whether validated requests and
   a hypothesis over the thresholds are among them. *)
Diagnostic(w) == \E out \in Outcomes("diagnostic", SUBSET {"requests", "confirmable"}) :
  Agent(w, "diagnostic", out) /\ UNCHANGED <<case, plan>>

(* The critic is deterministic and rejects a round without hypotheses, which
   is what a failed diagnosis leaves. *)
Critic(w) == \E out \in {{}, {"reject"}} :
  /\ Agent(w, "critic", out)
  /\ "failed" \in tasks[wk[w].run][Latest(wk[w].run)].out => out = {"reject"}
  /\ UNCHANGED <<case, plan>>

(* PlanBuilder.build writes the newest plan of the case over: draft, and its
   safety_checks without a critic decision. *)
PlanCandidate(w) == \E out \in Outcomes("plan_candidate", {{}}) :
  /\ Agent(w, "plan_candidate", out)
  /\ plan' = "unreviewed"
  /\ UNCHANGED case

AgentFailed(r) == \E t \in DOMAIN tasks[r] : tasks[r][t].status = "completed" /\ "failed" \in tasks[r][t].out

(* R011 of the safety critic rejects after any agent failure of this run. *)
SafetyReview(w) == \E out \in {{}, {"reject"}} :
  /\ Agent(w, "safety_review", out)
  /\ AgentFailed(wk[w].run) => out = {"reject"}
  /\ plan' = IF plan = "none" THEN "none" ELSE IF out = {} THEN "passed" ELSE "rejected"
  /\ UNCHANGED case

-----------------------------------------------------------------------------
(* Evidence collection: _collect_evidence, AgentToolService.execute_probe   *)
(* and ProbeGateway.run.                                                    *)

IsFollowUp(w) == TaskOf(w).node = "evidence_collection" /\ TaskOf(w).round > 0

(* The loop over the requests, in the transaction that began the task or in a
   later one. *)
AtRequests(w) ==
  /\ \/ Executes(w, "evidence_collection")
     \/ wk[w].pc = "looping"
  /\ IsFollowUp(w)
  /\ run[wk[w].run].cred

(* The calls the loop passes on its way to call i without probing: one whose
   row exists is answered from it, a new one is blocked by the policy guard
   and leaves a rejected row. *)
Passed(w, i) == {j \in wk[w].idx .. (i - 1) : TaskOf(w).calls[j] = "none"}

(* The call rows as this session flushes them on the way to call i. *)
Flushed(w, i) ==
  [j \in Calls |-> IF j \in Passed(w, i) THEN "rejected"
                   ELSE IF wk[w].pend[j] # "none" THEN wk[w].pend[j] ELSE TaskOf(w).calls[j]]

(* A plausible bug: only the calls the guard lets through are charged. *)
ChargeAllowed(w, i) == used[wk[w].run]["probe_calls"]

(* Every new row is charged, rejected or not, before it is inserted. *)
ProbeCharge(w, i) == used[wk[w].run]["probe_calls"] + Cardinality(Passed(w, i))

(* A plausible bug: no look-up of the call's row, as if a retry were new. *)
AtAnyCall(w, i) == AtRequests(w) /\ i >= wk[w].idx

(* Call i is new and the guard lets it through. *)
AtNewCall(w, i) ==
  /\ AtRequests(w)
  /\ i >= wk[w].idx
  /\ TaskOf(w).calls[i] = "none"

(* Without a credential the task and the run wait at the human gate. *)
WaitHuman(w) ==
  LET r == wk[w].run IN
  /\ Executes(w, "evidence_collection")
  /\ IsFollowUp(w)
  /\ ~run[r].cred
  /\ tasks' = [tasks EXCEPT ![r][wk[w].task] = [Started(w) EXCEPT !.status = "waiting_human"]]
  /\ run' = [run EXCEPT ![r].status = "waiting_human", ![r].started = TRUE]
  /\ UniqueActive(run')
  /\ wk' = [wk EXCEPT ![w].pc = "finish"]
  /\ UNCHANGED <<case, plan, used, probe, env>>

(* The first commit of the gateway commits the probe_run row and everything
   this session had flushed: the task's begin, the call, its charge. *)
CommitBegin(w, calls) ==
  LET r == wk[w].run
      row == IF wk[w].pc = "begun" THEN Started(w) ELSE TaskOf(w) IN
  /\ tasks' = [tasks EXCEPT ![r][wk[w].task] = [row EXCEPT !.calls = calls]]
  /\ run' = IF wk[w].pc = "begun"
            THEN [run EXCEPT ![r].status = Begun(w), ![r].started = TRUE] ELSE run

StartProbe(w) == \E i \in Calls :
  /\ AtNewCall(w, i)
  /\ ProbeCharge(w, i) < Budget["probe_calls"]
  /\ probe = "free"
  /\ probe' = w
  /\ CommitBegin(w, [Flushed(w, i) EXCEPT ![i] = "running"])
  /\ used' = [used EXCEPT ![wk[w].run]["probe_calls"] = ProbeCharge(w, i) + 1]
  /\ wk' = [wk EXCEPT ![w].pc = "probing", ![w].idx = i, ![w].pend = NoCalls]
  /\ UNCHANGED <<case, plan, env>>

(* The gateway turns the request down before it looks at the device: the
   credential is not bound, no host key is registered, the template does not
   render.  It commits its own rejected row, and with it what the session had
   flushed, the call as running; execute_probe marks the call rejected after. *)
RejectProbe(w) == \E i \in Calls :
  /\ AtNewCall(w, i)
  /\ ProbeCharge(w, i) < Budget["probe_calls"]
  /\ CommitBegin(w, [Flushed(w, i) EXCEPT ![i] = "running"])
  /\ used' = [used EXCEPT ![wk[w].run]["probe_calls"] = ProbeCharge(w, i) + 1]
  /\ wk' = [wk EXCEPT ![w].pc = "looping", ![w].idx = i + 1,
                      ![w].pend = [NoCalls EXCEPT ![i] = "rejected"]]
  /\ UNCHANGED <<case, plan, probe, env>>

(* The device has a running probe_run: the commit fails on the unique index
   and the gateway rolls the whole transaction back; execute_probe goes on
   with the next request. *)
ProbeRefused(w) == \E i \in Calls :
  /\ AtNewCall(w, i)
  /\ ProbeCharge(w, i) < Budget["probe_calls"]
  /\ probe # "free"
  /\ wk' = [wk EXCEPT ![w].pc = "looping", ![w].idx = i + 1, ![w].pend = NoCalls]
  /\ UNCHANGED <<case, plan, run, tasks, used, probe, env>>

(* The initial collection probes the device too, with no tool-call row and
   no charge.  (If the device is busy the exception reaches execute_task:
   FailTask.) *)
StartInitialProbe(w) ==
  /\ Executes(w, "evidence_collection")
  /\ ~IsFollowUp(w)
  /\ probe = "free"
  /\ probe' = w
  /\ CommitBegin(w, NoCalls)
  /\ wk' = [wk EXCEPT ![w].pc = "probing", ![w].idx = ProbesPerRequest]
  /\ UNCHANGED <<case, plan, used, env>>

RejectInitialProbe(w) ==
  /\ Executes(w, "evidence_collection")
  /\ ~IsFollowUp(w)
  /\ CommitBegin(w, NoCalls)
  /\ wk' = [wk EXCEPT ![w].pc = "looping", ![w].idx = ProbesPerRequest + 1]
  /\ UNCHANGED <<case, plan, used, probe, env>>

(* The SSH session ends; the second commit finishes the probe_run row, and
   the result of the call (and its evidence) is flushed after it. *)
FinishProbe(w) == \E result \in {"completed", "failed"} :
  /\ wk[w].pc = "probing"
  /\ probe = w
  /\ probe' = "free"
  /\ wk' = [wk EXCEPT ![w].pc = "looping", ![w].idx = @ + 1,
             ![w].pend[wk[w].idx] = IF IsFollowUp(w) THEN result ELSE @]
  /\ UNCHANGED <<case, plan, run, tasks, used, env>>

(* The end of the node.  After a gateway commit or rollback the session reads
   the task and the run again, so the task completes only if it is running
   (not cancelled, not rolled back to ready), and a supervisor follows only
   if the run has not stopped. *)
CollectDone(w) ==
  LET r    == wk[w].run
      last == IF IsFollowUp(w) THEN ProbesPerRequest + 1 ELSE wk[w].idx
      row  == IF wk[w].pc = "begun" THEN Started(w) ELSE TaskOf(w)
      live == wk[w].pc = "begun" \/ run[r].status \in Claimable IN
  /\ \/ Executes(w, "evidence_collection")
     \/ wk[w].pc = "looping"
  /\ IsFollowUp(w) => run[r].cred
  /\ ProbeCharge(w, last) <= Budget["probe_calls"]
  /\ tasks' = [tasks EXCEPT ![r] =
        Create([@ EXCEPT ![wk[w].task] =
                  [row EXCEPT !.calls = Flushed(w, last),
                              !.status = IF @ = "running" THEN "completed" ELSE @]],
               IF row.status \in {"running", "completed"} /\ live THEN <<Supervisor>> ELSE <<>>)]
  /\ used' = [used EXCEPT ![r]["probe_calls"] = ProbeCharge(w, last)]
  /\ run' = IF wk[w].pc = "begun"
            THEN [run EXCEPT ![r].status = Begun(w), ![r].started = TRUE] ELSE run
  /\ wk' = [wk EXCEPT ![w].pc = "finish"]
  /\ UNCHANGED <<case, plan, probe, env>>

-----------------------------------------------------------------------------
(* The two exception handlers of execute_task.                             *)

(* What the node in hand is about to charge. *)
Charges(w) ==
  LET r == wk[w].run   node == TaskOf(w).node IN
  CASE node = "normalize" -> {}
    [] node = "evidence_collection" -> {}
    [] node = "supervisor" ->
         IF CanMove(case, CaseAfter(Decide(r, TRUE))) THEN ReplanCharge(Decide(r, TRUE)) ELSE {}
    [] OTHER -> AgentCharge(node)

(* A charge, or the runtime, is over the limit: BudgetExhausted. *)
OverBudget(w) ==
  LET r == wk[w].run IN
  \/ /\ wk[w].pc = "begun"
     /\ CanBegin(w)
     /\ run[r].over \/ ~CanCharge(r, Charges(w))
  \/ \E i \in Calls : AtNewCall(w, i) /\ ProbeCharge(w, i) >= Budget["probe_calls"]

(* Everything uncommitted is rolled back; task, run and case give up. *)
Exhaust(w) ==
  LET r == wk[w].run IN
  /\ OverBudget(w)
  /\ CanMove(case, "escalated")
  /\ case' = "escalated"
  /\ tasks' = [tasks EXCEPT ![r][wk[w].task].status = "failed"]
  /\ run' = [run EXCEPT ![r].status = "budget_exhausted"]
  /\ wk' = [wk EXCEPT ![w].pc = "finish"]
  /\ UNCHANGED <<plan, used, probe, env>>

(* Where the case cannot be escalated the handler itself raises, out of
   run_once: nothing is committed and the lease stays until it expires. *)
ExhaustEscapes(w) ==
  /\ OverBudget(w)
  /\ ~CanMove(case, "escalated")
  /\ wk' = [wk EXCEPT ![w] = IdleWorker]
  /\ UNCHANGED <<case, plan, run, tasks, used, probe, env>>

RunBecomes(w, status) == [run EXCEPT ![wk[w].run].status = status]

(* The node in hand is bound to raise: the case cannot make its transition,
   the run's new status meets the unique index, the device of an initial
   probe is busy. *)
Raises(w) ==
  LET r == wk[w].run IN
  \/ /\ Executes(w, "triage")
     /\ ~CanMove(case, "triaged")
  \/ /\ Executes(w, "supervisor")
     /\ \E fresh \in BOOLEAN : LET decision == Decide(r, fresh) IN
          \/ ~CanMove(case, CaseAfter(decision))
          \/ RunStatusAfter(decision) # "running" /\ ~UniqueActive(RunBecomes(w, RunStatusAfter(decision)))
  \/ /\ Executes(w, "evidence_collection")
     /\ IF IsFollowUp(w) THEN ~run[r].cred /\ ~UniqueActive(RunBecomes(w, "waiting_human"))
                         ELSE probe # "free"

(* Any other exception (what the node raises, or the database): roll back,
   count the attempt, retry or give the run up.  The rows are written
   whatever their status has become. *)
FailTask(w) ==
  LET r == wk[w].run
      attempts == TaskOf(w).attempts + 1
      last == attempts >= MaxAttempts IN
  /\ \/ wk[w].pc = "begun" /\ CanBegin(w)
     \/ wk[w].pc = "looping"
  /\ tasks' = [tasks EXCEPT ![r][wk[w].task] =
        [@ EXCEPT !.attempts = attempts, !.status = IF last THEN "failed" ELSE "ready"]]
  /\ run' = [run EXCEPT ![r].status = IF last THEN "failed" ELSE @]
  /\ wk' = [wk EXCEPT ![w].pc = "finish"]
  /\ \/ Raises(w) /\ UNCHANGED env
     \/ Happens("fault")
  /\ UNCHANGED <<case, plan, used, probe>>

-----------------------------------------------------------------------------
(* The environment.                                                        *)

(* A worker process dies; its open transaction goes, its probe_run row stays
   "running" and nothing ever takes it back. *)
Crash(w) ==
  /\ wk[w].pc # "idle"
  /\ Happens("crash")
  /\ wk' = [wk EXCEPT ![w] = IdleWorker]
  /\ probe' = IF probe = w THEN "orphan" ELSE probe
  /\ UNCHANGED <<case, plan, run, tasks, used>>

Working(r) == {w \in Workers : wk[w].pc # "idle" /\ wk[w].run = r}
Renewing(r) == Working(r) \ Hung(r)

(* The node awaits the model or the log store, with the run's row written and
   not committed, when its renewal falls due: the renewal's UPDATE waits for
   that row in the only thread there is, which therefore never takes the answer.
   The database sees no cycle, and nothing sets a lock timeout. *)
RenewalBlocks(w) ==
  /\ \/ Executes(w, "diagnostic")
     \/ Executes(w, "evidence_collection") /\ ~IsFollowUp(w)
  /\ CanCharge(wk[w].run, Charges(w))
  /\ Happens("slow")
  /\ wk' = [wk EXCEPT ![w].pc = "hung"]
  /\ UNCHANGED <<case, plan, run, tasks, used, probe>>

(* Whatever writes the rows of a run waits while they are locked. *)
NotHeldUp(w) == wk[w].pc \in {"idle", "hung"} \/ Hung(wk[w].run) = {}

(* Time passes a lease's expiry.  A live worker renews its lease, so under
   one this is a stall (the renewal blocked or failed) and is counted. *)
LeaseExpire(r) ==
  /\ run[r].lease = "held"
  /\ run' = [run EXCEPT ![r].lease = "expired"]
  /\ \/ Renewing(r) = {} /\ UNCHANGED env
     \/ Renewing(r) # {} /\ Happens("stall")
  /\ UNCHANGED <<case, plan, tasks, used, probe, wk>>

(* Time passes max_runtime_seconds since the run's first task began. *)
Elapse(r) ==
  /\ run[r].started
  /\ run[r].status \in ActiveRun
  /\ ~run[r].over
  /\ run' = [run EXCEPT ![r].over = TRUE]
  /\ Happens("elapse")
  /\ UNCHANGED <<case, plan, tasks, used, probe, wk>>

(* An operator's own probe of the device (the API uses the same gateway). *)
OtherProbe ==
  /\ \/ probe = "free" /\ probe' = "other" /\ Happens("probe")
     \/ probe = "other" /\ probe' = "free" /\ UNCHANGED env
  /\ UNCHANGED <<case, plan, run, tasks, used, wk>>

(* Approval, execution and verification of a plan move the case as well. *)
PlanMoves ==
  [ planning |-> {"awaiting_approval"}, safety_review |-> {"awaiting_approval"},
    observing |-> {"awaiting_approval"}, awaiting_approval |-> {"planning", "executing"},
    executing |-> {"verifying", "rolled_back", "escalated"},
    verifying |-> {"resolved", "rolled_back", "escalated"} ]

PlanPipelineMove ==
  /\ plan # "none"
  /\ Happens("move")
  /\ case \in DOMAIN PlanMoves
  /\ case' \in PlanMoves[case]
  /\ UNCHANGED <<plan, run, tasks, used, probe, wk>>

-----------------------------------------------------------------------------
AgentNode(w) ==
  \/ Triage(w) \/ Historical(w) \/ Diagnostic(w)
  \/ Critic(w) \/ PlanCandidate(w) \/ SafetyReview(w)

Collection(w) ==
  \/ WaitHuman(w) \/ StartProbe(w) \/ RejectProbe(w) \/ ProbeRefused(w)
  \/ StartInitialProbe(w) \/ RejectInitialProbe(w)
  \/ FinishProbe(w) \/ CollectDone(w)

(* The steps of a live worker. *)
Work(w) ==
  /\ NotHeldUp(w)
  /\ \/ Claim(w) \/ Reread(w) \/ BeginRefused(w) \/ Release(w)
     \/ Normalize(w) \/ Supervise(w) \/ AgentNode(w) \/ Collection(w)
     \/ Exhaust(w) \/ ExhaustEscapes(w) \/ FailTask(w)

Next ==
  \/ \E r \in Runs : Enqueue(r) \/ ResumeHuman(r) \/ LeaseExpire(r) \/ Elapse(r)
  \/ \E w \in Workers : Work(w) \/ Crash(w) \/ RenewalBlocks(w)
  \/ OtherProbe \/ PlanPipelineMove

Spec == Init /\ [][Next]_vars

(* The scheduler polls for ever, a lease nobody renews expires, and time
   passes, where the limit can end a run; nothing obliges an operator, a human
   or a crash, and nobody need kill a worker that hangs. *)
Fairness ==
  /\ \A w \in Workers : WF_vars(Work(w))
  /\ \A r \in Runs : /\ WF_vars(LeaseExpire(r) /\ Renewing(r) = {})
                     /\ WF_vars(Elapse(r) /\ CanMove(case, "escalated"))

FairSpec == Spec /\ Fairness

-----------------------------------------------------------------------------
(* Safety.                                                                 *)

(* The lease keeps a run with one worker: no two worker processes are ever
   executing tasks of the same run. *)
Executing(w) == wk[w].pc \in {"begun", "looping", "probing", "hung"}

ExclusiveWorkers ==
  \A w, v \in Workers : Executing(w) /\ Executing(v) /\ wk[w].run = wk[v].run => w = v

(* A run the scheduler still looks at always has a task to go on with: one
   that is ready, or one that is running and either has a worker or stands
   under a lease whose expiry will make it ready again. *)
NoStrandedRun ==
  \A r \in Runs : run[r].status \in Claimable =>
    \E t \in DOMAIN tasks[r] :
      \/ tasks[r][t].status = "ready"
      \/ /\ tasks[r][t].status = "running"
         /\ \/ Working(r) # {}
            \/ run[r].lease # "free" /\ run[r].started

(* A run at the human gate has the waiting task that resume looks for;
   otherwise resume answers 409 and the run, being active, blocks the case. *)
WaitingHumanResumable ==
  \A r \in Runs : run[r].status = "waiting_human" =>
    \E t \in DOMAIN tasks[r] : tasks[r][t].status = "waiting_human"

(* Every gate of the diagnostic core was passed by a run that completes: the
   last diagnosis wanted no more evidence and had a hypothesis over the
   thresholds, the critic of that same round did not reject, the plan came
   after both, the safety critic did not reject it, and no agent had failed
   anywhere in the run. *)
GatesPassed ==
  \A r \in Runs : run[r].status = "completed" =>
    /\ Done(r, "diagnostic") # {} /\ Critics(r) # {}
    /\ "confirmable" \in tasks[r][Latest(r)].out
    /\ ~EvidenceWanted(r)
    /\ "reject" \notin tasks[r][LastOf(Critics(r))].out
    /\ \E p \in Done(r, "plan_candidate"), s \in Done(r, "safety_review") :
         /\ LastOf(Critics(r)) < p /\ p < s
         /\ "reject" \notin tasks[r][s].out
    /\ ~AgentFailed(r)

(* The budget is an exact ledger of what was committed, whatever was rolled
   back, crashed or replayed: an agent run per completed agent task, an LLM
   call per completed diagnosis or critique, a replan per follow-up task, a
   probe call per tool-call row. *)
LedgerExact ==
  \A r \in Runs :
    LET CompletedIn(nodes) == Cardinality(UNION {Done(r, node) : node \in nodes})
        Rows == {c \in (DOMAIN tasks[r]) \X Calls : tasks[r][c[1]].calls[c[2]] # "none"} IN
    /\ used[r]["agent_runs"] = CompletedIn({"triage", "historical", "diagnostic", "critic",
                                            "plan_candidate", "safety_review"})
    /\ used[r]["llm_calls"] = CompletedIn({"diagnostic", "critic"})
    /\ used[r]["replan_count"] = Cardinality({t \in DOMAIN tasks[r] :
                                    tasks[r][t].node = "evidence_collection" /\ tasks[r][t].round > 0})
    /\ used[r]["probe_calls"] = Cardinality(Rows)

-----------------------------------------------------------------------------
(* What a step may never do.                                               *)

(* A device is probed at most once for a call, whatever is retried, recovered
   or replayed: a session starts only where there is no row for the call yet,
   a row never goes away, and a result, once committed, is never replaced; a
   row committed as running, which a crash may leave so for ever, ends as
   completed or failed, or as rejected where the gateway opened no session. *)
CallsNeverRepeat ==
  [][/\ \A w \in Workers : probe # w /\ probe' = w /\ IsFollowUp(w) =>
          TaskOf(w).calls[wk'[w].idx] = "none"
     /\ \A r \in Runs : \A t \in DOMAIN tasks[r] : \A i \in Calls :
          LET before == tasks[r][t].calls[i]   after == tasks'[r][t].calls[i] IN
          \/ after = before
          \/ before = "none"
          \/ before = "running" /\ after \in {"completed", "failed", "rejected"}
    ]_vars

(* The case changes status only as CaseStateService allows. *)
Lifecycle == INSTANCE CaseLifecycle WITH Start <- CaseStart
CaseFollowsLifecycle == Lifecycle!Spec

-----------------------------------------------------------------------------
(* Liveness.                                                               *)

(* A run that the workers can claim stops being claimable: it completes,
   fails, exhausts its budget, is cancelled or waits for a human, also where its
   case is closed and refuses every transition.  Two ways not to get there are
   named: a worker hangs on its own renewal, which no other can take over from,
   or the limit passes on a case that cannot be escalated, where the handler
   raises again after every lease. *)
OverOnClosed(r) == run[r].over /\ ~CanMove(case, "escalated")

RunsSettle ==
  \A r \in Runs :
    run[r].status \in Claimable ~>
      run[r].status \notin Claimable \/ Hung(r) # {} \/ OverOnClosed(r)
=============================================================================
