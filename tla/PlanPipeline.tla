---------------------------- MODULE PlanPipeline ----------------------------
(***************************************************************************)
(* A remediation plan of one case from its draft to the verdict on what it  *)
(* changed: the frozen versions a human approves (approvals/service.py),    *)
(* the execution job of an approved version (services/execution_service.py) *)
(* and the verification runs of its mutations (verifications/service.py),   *)
(* while the diagnostic graph may rewrite the plan and move the case.       *)
(*                                                                         *)
(* One action is one database transaction, which takes the plan's row (or   *)
(* the verification run's) first and keeps it to the end; what a session    *)
(* had read before it took the lock it does not read again, so such reads   *)
(* are actions of their own.  Only the transaction that runs a job has      *)
(* several, for it awaits baselines, devices and verdicts with the rows of  *)
(* the plan, its case and its version locked: what it writes is its own     *)
(* until it commits, and whoever wants one of these rows waits.             *)
(***************************************************************************)
EXTENDS CaseState, Integers, FiniteSets, Sequences

CONSTANTS
  Users,          \* requests of the API, each one at a time
  Verifiers,      \* runtime workers, and API calls that verify again
  Keys,           \* the idempotency keys the clients use
  NoKey,          \* the key of a job that does not exist
  Contents,       \* what a plan can say, up to its hash
  Actions,        \* the recommended actions of a content, by kind
  HasRollback,    \* the contents with rollback actions
  MaxActions,     \* the longest plan
  MaxRounds,      \* VerificationPolicy.max_rounds
  CaseStart,      \* the statuses of the case when the model starts
  MaxVersions,    \* bound: how often the plan is frozen
  MaxEnv          \* bounds: how often the environment does what, by kind

Kinds == {"manual", "readonly", "mutation"}

(* A process dies; a live verifier takes longer than the five minutes of its
   claim; the graph rewrites the plan, or moves the case; somebody asks for a
   verification by hand. *)
EnvKinds == {"crash", "stall", "write", "move", "recheck"}

ASSUME PipelineAssumption ==
  /\ MaxActions \in Nat
  /\ Actions \in [Contents -> Seq(Kinds)]
  /\ \A c \in Contents : Len(Actions[c]) \in 1 .. MaxActions
  /\ HasRollback \subseteq Contents
  /\ NoKey \notin Keys
  /\ MaxRounds \in Nat \ {0}
  /\ CaseStart \subseteq Status
  /\ MaxVersions \in Nat
  /\ MaxEnv \in [EnvKinds -> Nat]

VARIABLES
  case,       \* case_record.status
  plan,       \* remediation_plan: status, and what its hash is taken of
  versions,   \* plan_version and its approval_decision, by version number
  jobs,       \* execution_job and idempotency_record, by plan version
  checks,     \* verification_run, by plan version and action
  users,      \* what each request is doing, and the rows it has in memory
  verifiers,  \* the same for the verifiers
  changed,    \* history: what reached devices, by the job's version
  env         \* how often the environment has acted, by kind

vars == <<case, plan, versions, jobs, checks, users, verifiers, changed, env>>

Happens(kind) == env[kind] < MaxEnv[kind] /\ env' = [env EXCEPT ![kind] = @ + 1]

-----------------------------------------------------------------------------
(* Values.                                                                 *)

Versions == 1 .. MaxVersions
Indices  == 1 .. MaxActions

PlanRow == [status : {"draft", "pending_approval", "approved", "executing", "succeeded",
                      "failed", "rolled_back", "cancelled"},
            content : Contents]

(* "decision" is the approval_decision row: a version keeps it when a later
   one supersedes it.  "over": expires_at has passed. *)
VersionRow == [content : Contents, over : BOOLEAN,
               state : {"pending", "approved", "rejected", "expired", "superseded"},
               decision : {"none", "approved", "rejected"}]

JobRow == [status : {"none", "running", "succeeded", "failed", "rolled_back"},
           key : Keys \cup {NoKey}]

(* An outcome of an action.  For a mutation that ran it is the verdict of the
   verification that follows at once. *)
Verdict == {"verified", "pending", "regressed", "inconclusive"}
Outcome == {"skipped", "blocked", "no_baseline", "failed", "done"} \cup Verdict

RunRow == [status : {"none", "baseline_failed", "baseline_ready", "checking"} \cup Verdict,
           rounds : Nat]
NoRun == [status |-> "none", rounds |-> 0]

Idle == [doing |-> "nothing"]

(* How the actions taken so far came out, and the rollback after the last. *)
Done == Seq(Outcome \cup {"undone", "not_undone"})

(* active: the version that the last check found, which may be another one. *)
Request == {Idle} \cup [doing : {"freeze"}, seen : PlanRow]
                  \cup [doing : {"decide", "execute"}, version : Versions]
                  \cup [doing : {"run"}, version : Versions, active : Versions, done : Done]

(* A rollback is one action past the last. *)
Change == [content : Contents, action : 1 .. MaxActions + 1]

Verifying == {Idle} \cup [doing : {"claimed"}, version : Versions, index : Indices]
                    \cup [doing : {"loaded"}, version : Versions, index : Indices, seen : RunRow]

TypeOK ==
  /\ case \in Status
  /\ plan \in PlanRow
  /\ versions \in Seq(VersionRow) /\ Len(versions) <= MaxVersions
  /\ jobs \in [Versions -> JobRow]
  /\ checks \in [Versions -> [Indices -> RunRow]]
  /\ users \in [Users -> Request]
  /\ verifiers \in [Verifiers -> Verifying]
  /\ changed \in [Versions -> Seq(Change)]
  /\ env \in [EnvKinds -> Nat]

Init ==
  /\ case \in CaseStart
  /\ plan \in [status : {"draft"}, content : Contents]
  /\ versions = <<>>
  /\ jobs = [v \in Versions |-> [status |-> "none", key |-> NoKey]]
  /\ checks = [v \in Versions |-> [i \in Indices |-> NoRun]]
  /\ users = [u \in Users |-> Idle]
  /\ verifiers = [w \in Verifiers |-> Idle]
  /\ changed = [v \in Versions |-> <<>>]
  /\ env = [k \in EnvKinds |-> 0]

Becomes(u, request) == users' = [users EXCEPT ![u] = request]

(* No job is being run, which would keep the rows of the plan, the case and the
   version locked.  (A plausible bug: they are not.) *)
UnlockedAlways == TRUE
Unlocked == \A u \in Users : users[u].doing # "run"

-----------------------------------------------------------------------------
(* Approval: freezing a version of the plan and deciding on it.            *)

In(states) == {v \in DOMAIN versions : versions[v].state \in states}

(* The one that "order by version desc" puts first. *)
IsNewest(v, vs) == v \in vs /\ \A x \in vs : x <= v

(* initiate_plan_approval loads the plan to compare the risk level; the
   query that locks the row returns this very object, not a fresh one. *)
StartFreeze(u) ==
  /\ users[u] = Idle
  /\ Becomes(u, [doing |-> "freeze", seen |-> plan])
  /\ UNCHANGED <<case, plan, versions, jobs, checks, verifiers, changed, env>>

(* A new version of what the request has in memory; it takes the place of
   every open one. *)
FreezeOver(open, content) ==
  versions' = Append([v \in DOMAIN versions |->
                        IF v \in open THEN [versions[v] EXCEPT !.state = "superseded"]
                                      ELSE versions[v]],
                     [content |-> content, over |-> FALSE, state |-> "pending",
                      decision |-> "none"])

(* The status is written only if it differs from the one that was loaded. *)
Freeze(u) ==
  /\ users[u].doing = "freeze" /\ Unlocked
  /\ LET seen == users[u].seen IN
       /\ seen.status \in {"draft", "pending_approval"}
       /\ CanMove(case, "awaiting_approval")
       /\ Len(versions) < MaxVersions
       /\ FreezeOver(In({"pending", "approved"}), seen.content)
       /\ plan' = IF seen.status = "draft" THEN [plan EXCEPT !.status = "pending_approval"]
                                           ELSE plan
  /\ case' = "awaiting_approval"
  /\ Becomes(u, Idle)
  /\ UNCHANGED <<jobs, checks, verifiers, changed, env>>

(* The request is refused, or its transaction is rolled back. *)
FreezeRefused(u) ==
  /\ users[u].doing = "freeze" /\ Unlocked
  /\ \/ users[u].seen.status \notin {"draft", "pending_approval"}
     \/ ~CanMove(case, "awaiting_approval")
  /\ Becomes(u, Idle)
  /\ UNCHANGED <<case, plan, versions, jobs, checks, verifiers, changed, env>>

(* The pending version a reader of the history finds, and a decision: the
   request names the plan only, so it is on the version that is the newest
   pending one when it arrives. *)
Judged(v) == IsNewest(v, In({"pending"}))

(* A human reads the newest version that waits for a decision. *)
StartDecide(u) ==
  /\ users[u] = Idle
  /\ \E v \in Versions : Judged(v) /\ Becomes(u, [doing |-> "decide", version |-> v])
  /\ UNCHANGED <<case, plan, versions, jobs, checks, verifiers, changed, env>>

(* The version is not expired and the plan still has its hash. *)
Usable(v) == ~versions[v].over /\ versions[v].content = plan.content

(* A version that is not usable is closed and the plan is a draft again.  (A
   plausible bug: the plan is given a status of its own.) *)
CloseBoth(v) ==
  /\ versions' = [versions EXCEPT ![v].state = IF versions[v].over THEN "expired" ELSE "superseded"]
  /\ plan' = [plan EXCEPT !.status = IF versions[v].over THEN "expired" ELSE "draft"]
  /\ UNCHANGED case

CloseVersion(v) ==
  /\ versions' = [versions EXCEPT ![v].state = IF versions[v].over THEN "expired" ELSE "superseded"]
  /\ plan' = [plan EXCEPT !.status = "draft"]
  /\ UNCHANGED case

Decided(v, decision) ==
  versions' = [versions EXCEPT ![v].state = decision, ![v].decision = decision]

Approve(v) ==
  /\ Decided(v, "approved")
  /\ plan' = [plan EXCEPT !.status = "approved"]
  /\ UNCHANGED case

Reject(v) ==
  /\ CanMove(case, "planning")
  /\ Decided(v, "rejected")
  /\ plan' = [plan EXCEPT !.status = "cancelled"]
  /\ case' = "planning"

Decide(u) ==
  /\ users[u].doing = "decide" /\ Unlocked
  /\ \E v \in Versions :
       /\ Judged(v)
       /\ \/ ~Usable(v) /\ CloseVersion(v)
          \/ Usable(v) /\ (Approve(v) \/ Reject(v))
  /\ Becomes(u, Idle)
  /\ UNCHANGED <<jobs, checks, verifiers, changed, env>>

(* Nothing is pending any more, or the rejection cannot move the case. *)
DecideRefused(u) ==
  /\ users[u].doing = "decide" /\ Unlocked
  /\ \A v \in Versions : Judged(v) => Usable(v) /\ ~CanMove(case, "planning")
  /\ Becomes(u, Idle)
  /\ UNCHANGED <<case, plan, versions, jobs, checks, verifiers, changed, env>>

(* A version reaches its expires_at, whatever runs meanwhile. *)
Expire(v) ==
  /\ v \in In({"pending", "approved"})
  /\ ~versions[v].over
  /\ versions' = [versions EXCEPT ![v].over = TRUE]
  /\ UNCHANGED <<case, plan, jobs, checks, users, verifiers, changed, env>>

-----------------------------------------------------------------------------
(* Execution: accepting a job, and running it in a second transaction.     *)

Active(v) == IsNewest(v, In({"approved"}))

(* Every refusal leaves the database as it was: an unusable approval is
   marked so and rolled back, a known key or job answers from its row.  (A
   plausible bug: only the version's own job is looked for.) *)
NoPriorJob(v, key) == jobs[v].status = "none"
KeyAndJobAreNew(v, key) == jobs[v].status = "none" /\ \A w \in Versions : jobs[w].key # key

Accept(u, key) ==
  /\ users[u] = Idle /\ Unlocked
  /\ \E v \in Versions :
       /\ Active(v) /\ Usable(v)
       /\ KeyAndJobAreNew(v, key)
       /\ jobs' = [jobs EXCEPT ![v] = [status |-> "running", key |-> key]]
       /\ Becomes(u, [doing |-> "execute", version |-> v])
  /\ UNCHANGED <<case, plan, versions, checks, verifiers, changed, env>>

(* The second transaction looks at the approval again.  The job's hash is
   compared with that of the version active now, which may be another one. *)
Rechecked(u, v) ==
  /\ Active(v) /\ Usable(v)
  /\ versions[v].content = versions[users[u].version].content

Finished(v, status) == jobs' = [jobs EXCEPT ![v].status = status]

RecheckFails(u) ==
  /\ users[u].doing = "execute" /\ Unlocked
  /\ \A v \in Versions : ~Rechecked(u, v)
  /\ Finished(users[u].version, "failed")
  /\ Becomes(u, Idle)
  /\ UNCHANGED <<case, plan, versions, checks, verifiers, changed, env>>

(* Then it locks the rows, and the case is executing. *)
StartRun(u) ==
  /\ users[u].doing = "execute" /\ Unlocked
  /\ CanMove(case, "executing")
  /\ \E active \in Versions :
       /\ Rechecked(u, active)
       /\ Becomes(u, [doing |-> "run", version |-> users[u].version, active |-> active,
                      done |-> <<>>])
  /\ UNCHANGED <<case, plan, versions, jobs, checks, verifiers, changed, env>>

(* A transition the table does not have raises out of execute_plan. *)
StartRaises(u) ==
  /\ users[u].doing = "execute" /\ Unlocked
  /\ ~CanMove(case, "executing")
  /\ \E active \in Versions : Rechecked(u, active)
  /\ Becomes(u, Idle)
  /\ UNCHANGED <<case, plan, versions, jobs, checks, verifiers, changed, env>>

Verdicts(round) == {"verified", "inconclusive",
                    IF round < MaxRounds THEN "pending" ELSE "regressed"}

OutcomesOf(kind) ==
  CASE kind = "manual"   -> {"skipped"}
    [] kind = "readonly" -> {"blocked", "failed", "done"}
    [] kind = "mutation" -> {"blocked", "no_baseline", "failed"} \cup Verdicts(1)

(* The verification run an action leaves. *)
RunAfter(kind, outcome) ==
  CASE kind # "mutation" \/ outcome = "blocked" -> NoRun
    [] outcome = "no_baseline"                  -> [status |-> "baseline_failed", rounds |-> 0]
    [] outcome = "failed"                       -> [status |-> "baseline_ready", rounds |-> 0]
    [] OTHER                                    -> [status |-> outcome, rounds |-> 1]

(* What _apply_case_state asks of the case for a verdict.  (A plausible bug: the
   other runs of the job are not looked at.) *)
CaseForAlone(verdict, siblings) ==
  CASE verdict = "verified"  -> "resolved"
    [] verdict = "regressed" -> "escalated"
    [] OTHER                 -> "verifying"

CaseFor(verdict, siblings) ==
  CASE verdict = "verified" /\ siblings \subseteq {"none", "verified"} -> "resolved"
    [] verdict = "regressed"                                          -> "escalated"
    [] OTHER                                                          -> "verifying"

(* The case once the actions up to i ran: executing until the first verdict,
   then as the last one asked. *)
CaseDuring(kinds, o, i) ==
  LET judged == {j \in 1 .. i : o[j] \in Verdict}
      last   == CHOOSE j \in judged : \A x \in judged : x <= j
      before == {RunAfter(kinds[j], o[j]).status : j \in 1 .. last - 1} IN
  IF judged = {} THEN "executing" ELSE CaseFor(o[last], before)

(* The state machine refuses what the last verdict asks for: it raises. *)
Refused(kinds, o) == ~CanMove(CaseDuring(kinds, o, Len(o) - 1), CaseDuring(kinds, o, Len(o)))

Succeeded(o) == \E i \in DOMAIN o : o[i] \in {"done"} \cup Verdict
Failed(o)    == \E i \in DOMAIN o : o[i] \in {"blocked", "no_baseline", "failed"}

(* The verdicts are all in and all good: evaluate has moved the case. *)
AllVerified(kinds, o) ==
  LET judged == {i \in DOMAIN o : o[i] \in Verdict} IN
  judged # {} /\ \A i \in judged : o[i] = "verified"

End(plan_status, case_status, job_status) ==
  [plan |-> plan_status, case |-> case_status, job |-> job_status]

(* A half-failed plan is rolled back, if it says how. *)
Rolls(content, o) == Succeeded(o) /\ Failed(o) /\ content \in HasRollback

(* How the job ends after its actions. *)
Ending(content, o) ==
  LET kinds == Actions[content] IN
  CASE Rolls(content, o) /\ o[Len(o)] = "undone" -> End("rolled_back", "rolled_back", "rolled_back")
    [] Rolls(content, o) /\ o[Len(o)] # "undone" -> End("failed", "escalated", "failed")
    [] Succeeded(o) /\ ~Failed(o) ->
         End("succeeded", IF AllVerified(kinds, o) THEN CaseDuring(kinds, o, Len(kinds))
                                                  ELSE "verifying", "succeeded")
    [] Succeeded(o) /\ Failed(o) /\ ~Rolls(content, o) -> End("failed", "verifying", "failed")
    [] Failed(o) /\ ~Succeeded(o) -> End("failed", "escalated", "failed")
    [] OTHER -> End("draft", "planned", "succeeded")

Running(u) == users[u].doing = "run"
Content(u) == versions[users[u].active].content
Steps(u)   == Actions[Content(u)]
Taken(u)   == Len(users[u].done)

Touch(u, action) ==
  changed' = [changed EXCEPT ![users[u].version] =
                Append(@, [content |-> Content(u), action |-> action])]

(* An action is checked by the guard, its baseline is captured, it is done and its
   effect verified.  What the device was told stays when the transaction is rolled
   back. *)
Reaches(kind, outcome) == kind = "mutation" /\ outcome \in {"failed"} \cup Verdict

Take(u) ==
  /\ Running(u) /\ Taken(u) < Len(Steps(u))
  /\ LET i == Taken(u) + 1 IN
     \E outcome \in OutcomesOf(Steps(u)[i]) :
       LET done == Append(users[u].done, outcome) IN
       /\ IF Reaches(Steps(u)[i], outcome) THEN Touch(u, i) ELSE UNCHANGED changed
       /\ \/ Refused(Steps(u), done) /\ Becomes(u, Idle)
          \/ ~Refused(Steps(u), done) /\ Becomes(u, [users[u] EXCEPT !.done = done])
  /\ UNCHANGED <<case, plan, versions, jobs, checks, verifiers, env>>

RollBack(u) ==
  /\ Running(u) /\ Taken(u) = Len(Steps(u)) /\ Rolls(Content(u), users[u].done)
  /\ \E outcome \in {"undone", "not_undone"} :
       Becomes(u, [users[u] EXCEPT !.done = Append(@, outcome)])
  /\ Touch(u, Len(Steps(u)) + 1) \/ UNCHANGED changed
  /\ UNCHANGED <<case, plan, versions, jobs, checks, verifiers, env>>

(* All is done; the transaction commits, or raises at the last transition. *)
Through(u) ==
  /\ Running(u)
  /\ Taken(u) = IF Rolls(Content(u), users[u].done) THEN Len(Steps(u)) + 1 ELSE Len(Steps(u))

EndsWell(u) ==
  CanMove(CaseDuring(Steps(u), users[u].done, Len(Steps(u))), Ending(Content(u), users[u].done).case)

Commit(u) ==
  /\ Through(u) /\ EndsWell(u)
  /\ LET done == users[u].done
         end  == Ending(Content(u), done) IN
       /\ case' = end.case
       /\ plan' = [plan EXCEPT !.status = end.plan]
       /\ Finished(users[u].version, end.job)
       /\ checks' = [checks EXCEPT ![users[u].version] =
            [i \in Indices |-> IF i <= Len(Steps(u)) THEN RunAfter(Steps(u)[i], done[i]) ELSE NoRun]]
  /\ Becomes(u, Idle)
  /\ UNCHANGED <<versions, verifiers, changed, env>>

CommitRaises(u) ==
  /\ Through(u) /\ ~EndsWell(u)
  /\ Becomes(u, Idle)
  /\ UNCHANGED <<case, plan, versions, jobs, checks, verifiers, changed, env>>

(* The API process dies with the request; the database rolls back what it wrote. *)
CrashRequest(u) ==
  /\ users[u] # Idle
  /\ Happens("crash")
  /\ Becomes(u, Idle)
  /\ UNCHANGED <<case, plan, versions, jobs, checks, verifiers, changed>>

-----------------------------------------------------------------------------
(* Verification.                                                           *)

Sees(w, request) == verifiers' = [verifiers EXCEPT ![w] = request]

On(w, v, i) == verifiers[w] # Idle /\ verifiers[w].version = v /\ verifiers[w].index = i

(* A pending run falls due; a claimed one falls due again after five minutes,
   which a live verifier normally does not need.  (A plausible bug: only
   pending runs are looked for.) *)
DuePending(v, i) == checks[v][i].status = "pending" /\ UNCHANGED env

Due(v, i) ==
  \/ checks[v][i].status = "pending" /\ UNCHANGED env
  \/ /\ checks[v][i].status = "checking"
     /\ IF \E w \in Verifiers : On(w, v, i) THEN Happens("stall") ELSE UNCHANGED env

Claim(w, v, i) ==
  /\ verifiers[w] = Idle
  /\ Due(v, i)
  /\ checks' = [checks EXCEPT ![v][i].status = "checking"]
  /\ Sees(w, [doing |-> "claimed", version |-> v, index |-> i])
  /\ UNCHANGED <<case, plan, versions, jobs, users, changed>>

Loaded(v, i) == [doing |-> "loaded", version |-> v, index |-> i, seen |-> checks[v][i]]

(* The new session reads the run before evaluate locks it. *)
Load(w) ==
  /\ verifiers[w].doing = "claimed"
  /\ Sees(w, Loaded(verifiers[w].version, verifiers[w].index))
  /\ UNCHANGED <<case, plan, versions, jobs, checks, users, changed, env>>

(* verify_execution_readonly: any run that has been evaluated with its
   execution, whatever came of it. *)
Recheck(w, v, i) ==
  /\ verifiers[w] = Idle
  /\ checks[v][i].status \in Verdict \cup {"checking"}
  /\ Happens("recheck")
  /\ Sees(w, Loaded(v, i))
  /\ UNCHANGED <<case, plan, versions, jobs, checks, users, changed>>

Siblings(v, i) == {checks[v][j].status : j \in Indices \ {i}}

Final == {"verified", "regressed"}

(* The unique index on (run, check, round): a round that was written by
   somebody else since the run was read is refused.  (A plausible bug: there is
   no such index.) *)
AnyRound(v, i, round) == TRUE
NewRound(v, i, round) == checks[v][i].rounds < round

(* The status is written only if it differs from the one that was loaded. *)
Evaluate(w) ==
  /\ verifiers[w].doing = "loaded"
  /\ LET v == verifiers[w].version
         i == verifiers[w].index
         seen == verifiers[w].seen
         round == seen.rounds + 1 IN
       /\ seen.status \notin Final
       /\ NewRound(v, i, round) /\ Unlocked
       /\ \E verdict \in Verdicts(round) :
            /\ CanMove(case, CaseFor(verdict, Siblings(v, i)))
            /\ case' = CaseFor(verdict, Siblings(v, i))
            /\ checks' = [checks EXCEPT ![v][i] =
                 [status |-> IF verdict = seen.status THEN @.status ELSE verdict,
                  rounds |-> round]]
  /\ Sees(w, Idle)
  /\ UNCHANGED <<plan, versions, jobs, users, changed, env>>

(* A final verdict is left alone; a duplicate round or a refused transition
   raises and rolls back, and the worker's run falls due again. *)
EvaluateInVain(w) ==
  /\ verifiers[w].doing = "loaded"
  /\ LET v == verifiers[w].version
         i == verifiers[w].index
         round == verifiers[w].seen.rounds + 1 IN
       \/ verifiers[w].seen.status \in Final
       \/ ~NewRound(v, i, round)
       \/ /\ Unlocked
          /\ \E verdict \in Verdicts(round) : ~CanMove(case, CaseFor(verdict, Siblings(v, i)))
  /\ Sees(w, Idle)
  /\ UNCHANGED <<case, plan, versions, jobs, checks, users, changed, env>>

CrashVerifier(w) ==
  /\ verifiers[w] # Idle
  /\ Happens("crash")
  /\ Sees(w, Idle)
  /\ UNCHANGED <<case, plan, versions, jobs, checks, users, changed>>

-----------------------------------------------------------------------------
(* The diagnostic graph of the same case.                                  *)

(* PlanBuilder overwrites the newest plan and makes it a draft whatever its
   status; a safety review changes what is hashed, and the status if it
   rejects. *)
GraphWritesPlan ==
  /\ Unlocked /\ Happens("write")
  /\ \E c \in Contents, s \in {"draft", plan.status} : plan' = [status |-> s, content |-> c]
  /\ UNCHANGED <<case, versions, jobs, checks, users, verifiers, changed>>

GraphMovesCase ==
  /\ Unlocked /\ Happens("move")
  /\ case' \in Allowed[case] \cap {"planning", "safety_review", "observing", "escalated"}
  /\ UNCHANGED <<plan, versions, jobs, checks, users, verifiers, changed>>

-----------------------------------------------------------------------------
Approval(u) ==
  \/ StartFreeze(u) \/ Freeze(u) \/ FreezeRefused(u)
  \/ StartDecide(u) \/ Decide(u) \/ DecideRefused(u)

Execution(u) ==
  \/ \E key \in Keys : Accept(u, key)
  \/ RecheckFails(u) \/ StartRun(u) \/ StartRaises(u) \/ CrashRequest(u)
  \/ Take(u) \/ RollBack(u) \/ Commit(u) \/ CommitRaises(u)

Verification(w) ==
  \/ \E v \in Versions, i \in Indices : Claim(w, v, i) \/ Recheck(w, v, i)
  \/ Load(w) \/ Evaluate(w) \/ EvaluateInVain(w) \/ CrashVerifier(w)

Next ==
  \/ \E u \in Users : Approval(u) \/ Execution(u)
  \/ \E w \in Verifiers : Verification(w)
  \/ \E v \in Versions : Expire(v)
  \/ GraphWritesPlan \/ GraphMovesCase

Spec == Init /\ [][Next]_vars

(* The runtime worker polls for ever and takes the run that fell due first,
   so none is passed over for good; it finishes what it claimed.  A job that is
   being run goes on, for whatever it awaits has a timeout.  Nothing obliges a
   human, an API call or a crash. *)
Fairness ==
  /\ \A v \in Versions, i \in Indices : WF_vars(\E w \in Verifiers : Claim(w, v, i))
  /\ \A w \in Verifiers : WF_vars(Load(w)) /\ WF_vars(Evaluate(w) \/ EvaluateInVain(w))
  /\ \A u \in Users : WF_vars(Take(u) \/ RollBack(u) \/ Commit(u) \/ CommitRaises(u))

FairSpec == Spec /\ Fairness

-----------------------------------------------------------------------------
(* Safety.                                                                 *)

(* A device is changed only as a human approved it, and once: by a job each action
   at most once and in order, of the very content of the job's version, which was
   approved; and with an idempotency key at most one job. *)
ChangesPaidByApprovals ==
  \A v \in Versions : changed[v] # <<>> =>
    /\ v \in DOMAIN versions
    /\ versions[v].decision = "approved"
    /\ \A n \in DOMAIN changed[v] :
         /\ changed[v][n].content = versions[v].content
         /\ \A m \in 1 .. n - 1 : changed[v][m].action < changed[v][n].action
    /\ \A w \in Versions : changed[w] # <<>> /\ jobs[w].key = jobs[v].key => w = v

(* The case is closed as resolved only on evidence: something was verified, and
   every verification run there is, of whatever job, is verified. *)
ResolvedMeansVerified ==
  case = "resolved" =>
    {checks[v][i].status : v \in Versions, i \in Indices} \ {"none"} = {"verified"}

-----------------------------------------------------------------------------
(* What a step may never do.                                               *)

(* Whatever reaches a device while a job is run, its last action like its first and
   its rollback, is said by a version that is approved and not replaced, and by the
   plan as it is then.  No run begins under an approval that has expired; what an
   approval that expires later has let begin goes on. *)
ChangesUnderApproval ==
  [][/\ \A v \in Versions : changed'[v] # changed[v] =>
          \E a \in DOMAIN versions, n \in 1 .. MaxActions + 1 :
            /\ versions[a].state = "approved" /\ versions[a].decision = "approved"
            /\ versions[a].content = plan.content
            /\ changed'[v] = Append(changed[v], [content |-> versions[a].content, action |-> n])
     /\ \A u \in Users : users'[u].doing = "run" /\ ~Running(u) => ~versions[users'[u].active].over
    ]_vars

(* A verdict is never taken back, however many verifiers, stalled or asked by
   hand, look at the same run. *)
VerdictsFinal ==
  [][\A v \in Versions, i \in Indices :
       checks[v][i].status \in {"verified", "regressed"} => checks'[v][i] = checks[v][i]
    ]_vars

-----------------------------------------------------------------------------
(* Liveness.                                                               *)

(* While the case is being verified, every verification run comes to a
   verdict. *)
OpenVerificationEnds ==
  \A v \in Versions, i \in Indices :
    checks[v][i].status \in {"pending", "checking"} ~>
      checks[v][i].status \notin {"pending", "checking"} \/ case # "verifying"
=============================================================================
