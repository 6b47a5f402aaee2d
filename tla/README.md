# Agentic NetOps: a TLA+ verification of its backend

Agentic NetOps (`src/backend`) turns network alerts and logs into *cases*, lets a graph of
agents diagnose each case with read-only probes, and takes at most a *plan* to a
human, who may have it executed and verified. One process serves the HTTP API and runs the
log sampler; one or more runtime workers (`worker.py`) poll PostgreSQL and advance the graph,
the verifications, the ingestion and the webhooks. All state is in the database (but for a response
cache); processes crash, leases expire, transactions roll back, NetBox answers late or not at all,
and people press buttons in between. That is what is modelled here.

## 1. Inventory

| Component | State | Operations | Module |
|---|---|---|---|
| Case state machine `services/case_state_service.py` | `case_record.status` | `transition` (row lock, table of legal edges) | `CaseState`, `CaseLifecycle` |
| Graph service, resume `orchestration/graph_service.py`, `api/cases.py:301` | `agent_graph_run`, first `agent_task`, `agent_budget` | `enqueue` (idempotent or forced), `resume_case_graph` | `CaseGraph` |
| Graph worker `orchestration/graph_worker.py` | `lease_owner`, `lease_expires_at` | claim, recover, pick, execute, renew, release | `CaseGraph` |
| Graph engine `orchestration/graph_engine.py` | runs, tasks, hypotheses, plans, memory | nine nodes, budget handler, retry handler | `CaseGraph` |
| Supervisor `orchestration/case_supervisor.py` | none (reads tasks and evidence) | `decide` | `CaseGraph` |
| Task / budget / tool services `services/agent_*_service.py` | `agent_task`, `agent_budget`, `agent_tool_call` | `create`, `transition`, `consume`, `record_runtime`, `execute_probe` | `CaseGraph` |
| Probe gateway `probes/gateway.py` | `probe_run` (at most one running per device), advisory slots | `run`: commit, SSH, commit | `CaseGraph`, `DeviceAccess` |
| Plan building, approvals `orchestration/plan_builder.py`, `approvals/service.py` | `remediation_plan`, `plan_version`, `approval_decision` | overwrite, `initiate`, `decide`, `active_approved_version` | `PlanPipeline` |
| Execution `services/execution_service.py` | `execution_job`, `idempotency_record`, `execution_run` | `execute_plan` as a job (`PlanPipeline`) and as a loop of actions (`Remediation`) | both |
| Verification `verifications/service.py` | `verification_run` | `run_due_once`, `evaluate` | `PlanPipeline` |
| Remediation agent, safety critic, policy guard, tool registry, autonomy level | the setting, `execution_run` | recommend, pre-check, review, `check`, breaker | `Remediation` |
| Webhook outbox `webhooks/` | `webhook_endpoint`, `webhook_delivery` | publish, claim, post, retry, redeliver | `WebhookOutbox` |
| Ingestion `ingestion/` | `ingestion_checkpoint`, `ingested_log_event`, buckets | lease, read, aggregate, advance the cursor, emit a case | `LogIngestion` |
| Event intake `api/events.py` | `source_event`, decisions, tickets | ingest, decide, correlate, intake, dispose, dispatch, ticket | `EventIntake` |
| Event centre `api/events.py` | none (reads the events) | pages, clusters, root-cause candidates | `EventClusters` |
| Log sampler `services/log_sampler.py` | `log_sample`, `raw_anomaly`, site switches | sample, judge, hand over, open cases | `LogSampling` |
| Access `auth/`, `audit/service.py` | accounts, bindings, sessions, tokens, audit log | logins, logout, user, token and provider administration | `Access` |
| Device access `services/ssh_service.py`, `api/probes.py`, `probes/ssh_transport.py` | credentials, bindings, host keys, NetBox settings | edit, bind, test, register, resolve, connect | `DeviceAccess` |
| Assets `api/assets.py`, `utils/cache.py`, `services/asset_sync_service.py` | response cache, `asset_device` | cached lists, sync, detail, fetch a configuration | `AssetMirror` |
| Everything else | CRUD, views, text heuristics, clients of Elasticsearch and the LLM, frontend, unused code | | none (section 6) |

The API, the sampler and the ingestion open cases (`CaseOrchestrator.intake_case`) and ask for a
graph (`run_case_pipeline`, which enqueues); the graph leaves a plan; a human has it approved
and executed; the execution asks the guard before each action and starts verifications; all of them
move the case through `CaseStateService` and publish webhook events in their transactions.

### What is hard

* **Transactions that are not what they look like.** A graph node is one transaction,
  except that the probe gateway *commits and rolls back its caller's session* around
  each SSH session. A run of the log sampler is one transaction, except that the anomaly check of one
  device commits it or rolls it back for all.
* **Leases that are not enforced.** The graph's owner is a name per host, the release is
  unconditional, and the renewal updates a row that the executing transaction of the same process
  has locked. Webhook and ingestion workers whose lease ran out still write their outcome.
* **Decisions on stale sight.** Rows are read, something is awaited, and the old copy is written back:
  the graph's run, a verification run, an event's projection, a sample, a login's group mapping.
* **Many writers of one status.** Graph, approvals, execution and verification all move
  the case, in no agreed order.
* **Side effects inside a transaction.** `execute_plan` changes devices in the middle of the
  transaction that records it; whatever rolls that back does not undo the devices.
* **One event loop.** A handler that waits for a row lock there stops everything else, the holder of
  the lock included.
* **Everything must end.** A graph goes on only because each node leaves a supervisor
  task behind; deliveries, documents, buckets and samples are each retried by one rule.

`PROJECT.json` lists these as *hazards*, each at its line with the properties that
watch it, and every component with what is and is not modelled of it.

## 2. Modules

| Module | What it is |
|---|---|
| `CaseState`, `CaseLifecycle` | the table of legal edges; the abstract specification: one variable, one allowed edge per step |
| `CaseGraph` | the graph of one case: service, workers, engine, supervisor, tool service, gateway, and their environment; implements `CaseLifecycle` |
| `PlanPipeline` | one plan of a case: freezing, approving, executing, verifying, with the graph as its environment |
| `Remediation` | what a plan may do: drafting, review, guard, and the loop of actions with its rollback |
| `DeviceAccess` | credentials, host keys and the sessions that use them |
| `WebhookOutbox`, `LogIngestion` | the two queues that workers serve under leases |
| `EventIntake`, `LogSampling` | the two ways an observation becomes a case |
| `EventClusters`, `AssetMirror` | what users see of events and of the inventory |
| `Access` | logins, roles, tokens and the audit log under row locks |
| `Services` | the components that share no state, `Remediation`, `DeviceAccess`, `AssetMirror` and `EventClusters`, under names of their own |
| `MC...` | TLC's instances; `MCServices` is one of `Services` |
| `CaseGraphProofs` | theorems about `CaseGraph`, checked by TLAPS: types and the refinement; leases, calls, gates, progress and the budget |
| `PlanPipelineProofs`, `WebhookOutboxProofs`, `LogIngestionProofs`, `EventIntakeProofs`, `LogSamplingProofs`, `AccessProofs`, `ServicesProofs` | theorems about the modules they are named for |

Definitions that say "a plausible bug" or "for a mutant" are not part of the model: they are
the mutated forms section 3 speaks of.

### `CaseGraph`

| Variable | In the code |
|---|---|
| `case` | `case_record.status` |
| `plan` | the newest plan of the case: none, or the outcome of its safety review |
| `run[r]` | a row of `agent_graph_run`: status; lease free / held / expired; whether a credential is there; `started_at` set; runtime limit passed |
| `tasks[r]` | its `agent_task` rows in order of id, each with the `agent_tool_call` rows of its requests |
| `used[r]` | its `agent_budget` row |
| `probe` | the running `probe_run` of the device: nobody's, a worker's, somebody else's, or left by a dead worker |
| `wk[w]` | a worker inside `run_once`: where it is, and what its session still holds in memory |
| `env` | how often the environment has acted (bounds only) |

One action is one transaction. A node runs between its first flush, which locks the run
and the task, and its commit: nothing else can write those rows, so it is one action
(`Normalize`, `Supervise`, `Triage`, `Historical`, `Diagnostic`, `Critic`,
`PlanCandidate`, `SafetyReview`, and the exits `Exhaust`, `FailTask`, `WaitHuman`). Claiming
(`Claim`), reading again (`Reread`), executing and releasing (`Release`) are transactions
of their own and separate actions. A follow-up collection is split at each
commit of the gateway: `StartProbe` commits the begin of the task and the call, `FinishProbe`
the end of the SSH session, `CollectDone` the results; `RejectProbe` is the gateway's rejection, which commits
the same rows, the call as `running`, without a session, and leaves `rejected` to the next commit; `ProbeRefused` is the
rollback the gateway makes when the device is busy. `StartInitialProbe` and `RejectInitialProbe` are the same in the first
collection, which has no call rows. An exception that leaves `run_once` commits nothing and
keeps the lease (`BeginRefused`, `ExhaustEscapes`).

`RenewalBlocks` is the renewal that falls due while a node awaits the model or the log store with the run's
row written and not committed. The renewal is a synchronous `UPDATE` of that row, in the same
thread (`orchestration/graph_worker.py:28`): it waits for a commit that only the thread it blocks could
make. The worker is then `hung`: it does nothing more, the rows of its run stay locked (a claim skips
them, a resume or a forced restart waits), and only the death of the process ends it.

What an agent *thinks* is a choice; what later decisions *read* of it is kept as four flags on
a completed task (`requests`, `confirmable`, `reject`, `failed`). Creation time is the number
of the creating transaction, since all its rows share `now()`: ties in the order by
`created_at` go either way. The environment may kill a worker, let a lease expire under a live one
(a stall), fail a transaction, let the runtime limit pass, probe the device from elsewhere, and move the case
through the plan pipeline. Each of these is bounded by `MaxEnv`; nothing else is.

### `PlanPipeline`

| Variable | In the code |
|---|---|
| `case`, `plan` | `case_record.status`; `remediation_plan`: its status, and its content up to what the hash is taken of |
| `versions` | `plan_version` by number, with its `approval_decision`, and whether `expires_at` has passed |
| `jobs` | `execution_job` with its `idempotency_record`, by plan version (unique there) |
| `checks` | `verification_run` by job and action: status and rounds |
| `users[u]`, `verifiers[w]` | a request of the API, or whoever verifies, between two transactions, with what its session holds in memory |
| `changed` | history only: what reached devices, by job: the content and the number of the action, the rollback being one past the last |

Each action is one transaction, but for the one that runs a job. `initiate` is two: the
facade loads the plan without a lock (`StartFreeze`) and the locking query returns the loaded
object (`Freeze`). `execute_plan` is two transactions: `Accept`, which creates the job, and the
one that looks at the approval again (`Rechecked`), runs the actions and commits. The second looks, locks the rows of the plan,
the case and the version and begins (`StartRun`; or `RecheckFails`, `StartRaises`), and then awaits a baseline, a device and a
verification for each action (`Take`) and the rollback (`RollBack`), between which anything else happens that does not need
these rows (`Unlocked`): an approval expires, other requests read, versions are asked for. What it tells a device is there at
once; what it writes is there when it commits (`Commit`) and never if a transition is refused (in `Take`, `CommitRaises`) or the
process dies (`CrashRequest`). `CaseDuring` is the status the verifications leave the case in meanwhile, and `Ending` the if-chain
that turns the outcomes into the statuses of plan, case and job. `run_due_once` is three: `Claim`, `Load` (the
new session reads the row before `evaluate` locks it) and `Evaluate` or `EvaluateInVain`;
`Recheck` is the verification that an API request starts for the same row. The two requests stand for
different processes: inside one event loop, one that waits for the rows of the other would wait for ever (hazard
`services/execution_service.py:137`, which no property covers).

A content stands for everything the hash covers; `Actions` says of which kinds its
actions are, `HasRollback` whether the executor finds rollback actions in it. `PlanBuilder` stores
rollbacks under another name than the executor reads, so plans it built have none (the `verify`
run); rows such as those of `tests/integration/test_approval_execution_e2e.py:41` do
(the `pipeline` run).

### `Remediation`

`level` is the stored setting (the guard falls back to the environment's level when it cannot be read),
`plans` the approved plan of each job's case, `jobs` where each job is in its loop, `log` the
`execution_run` rows for one target inside the breaker's window, uncommitted ones included with the job they
are `of`, and with whether they `acted` on a device, `lost` how many jobs died or raised after they had begun. The breaker counts
by the target of the case, not by the device an action names, and not what was rolled back: a rollback's run that took effect is
`undone` and counts no more (`EndUndo`). `Refusal` is `PolicyGuard.check` as one operator
over the catalogue, the mode, the target, the approval and the breaker, and is used both by the agent's
check beforehand (`PreRefusal`) and before each action (`RefusalAt`). `Recommended`, `Eligible`, `Findings`,
`Decision` and `Reviewed` are the agent and the safety critic; the drafts they can come to at each level are
`Drafts`. A job runs alone in the event loop until it awaits a baseline, a script, a call or a verification. The
database rows of the plan and the case stay locked meanwhile, so two jobs are of two cases.

### `DeviceAccess`

`creds` are credentials with their scope, secret and binding, `netbox` the NetBox settings (whose token is also the
key of secrets sealed the old way), `hostKeys` every registered key in order with its `active` flag, `regs` and
`sessions` the registrations and sessions under way. A registration is an `UPDATE` that waits for the other's row
locks and sees what is committed by then (`Deactivate`), an insert the partial unique index may refuse (`Insert`), and
a commit. A session resolves credential, binding and key (`Resolve`), commits, and connects with the
rows as they are reloaded (`Connect`); the device may meanwhile show another key. Only this transport pins a key. The test of a
credential (`TestConnectivity`), the commands of the older SSH service (`services/ssh_service.py:428`) and the
reading of a configuration (`mcp/netbox_mcp.py:534`) take any host that answers; `KnowsItsHost` says nothing of them.

### `WebhookOutbox` and `LogIngestion`

A delivery row is due or not, its lease live or over; `Claim` takes it under `SKIP LOCKED` and commits, `Load` reads
it in the worker's session, `Report` writes the columns of the outcome over whatever the row says by then. `expiries` is
history. `Enqueue` is publication inside the transaction of the change.

A document of the log store is its place in the order by timestamp and id, so a cursor is a number; the store indexes
documents in any order (`Arrive`). `ClaimScope`, `ReadPage` and `Ingest` are a cycle of the worker: the scope that
succeeded longest ago, one page behind the cursor, and one transaction that counts, moves the cursor and frees the
lease. Emission is three commits: the source event and case (`EmitCase`), the bucket's mark, and the request for a graph.

### `EventIntake` and `LogSampling`

The API is one event loop: a handler runs alone until it awaits NetBox or the ticket system. `requests[q].seen` is the
event's projection as the handler's session loaded it; after the await it is written back whole. `Evaluate` and
`Enriched` are the decision (severity, recent siblings, open case at the device), `Upstream` and `Parent` the
correlation through NetBox topology up to `MaxHops`, and `FailOpen` NetBox not answering.

`LogSampling` has the sampler's transaction: `Fetched`, then per device `Write` (no anomaly), `WriteAnomaly` (which commits
what was written so far) or `WriteBroken` (which rolls it back), until the last device commits and `Spawned` starts the task that
opens cases for the triggered samples. The counts, the policy (`Fired`), the risk and the decision to ask for a case (`Judged`) are
operators over the batch of lines. An anomaly is three lines or more, whatever was sampled before: the baseline the code
asks for raises on every past sample and is never had (`PastSamples`, `services/baseline_calculator.py:70`). When APScheduler fires and whether two runs of one site overlap is its choice.

### `Access`

A request is a list of locks still to take (`wants`) in the order the code flushes them: row locks of accounts,
bindings, tokens and the provider, and the advisory lock of the audit log. It waits for holders (`Acquire`), may be aborted in a
circle (`Aborted`), and commits everything at once (`Committed`). What it read before the locks (roles of a mapping, the
account's state) it keeps. Logins hold the event loop from the directory's answer to their commit, waiting included.

### `AssetMirror` and `EventClusters`

NetBox's devices have revisions; `cache` holds, for each list asked for, its content and when it was asked; `mirror` the local rows. `Hit`
and `Miss` are the same request from the cache and from NetBox, with the rows it writes; `fetches` are requests that read a
configuration over SSH while others edit the context data it is written back into.

`events` are the stored events, newest first; `Clusters` groups those of the window by place and signal family,
`ClusterScore`, `Candidate` and `CandidateScore` merge and score the root causes, in hundredths as the code rounds.
`reader` walks the list by `skip` while events are stored, stored again and linked. The query orders by time alone, so each
page may find the events of one time in another order (`Fits`). The wording and the suggested actions are left out.

## 3. Runs

Each `MC<module>_<run>.cfg` fixes the bounds. Deadlock is not checked where the system rests when everything has
stopped or the bounds are used up.

| Run | Bounds that matter | Shows |
|---|---|---|
| `crash` | 1 run, 2 workers, 2 crashes, 1 renewal that blocks, 2 probe calls, 1 foreign probe | `TypeOK`; `ExclusiveWorkers`: the lease is exclusive as long as leases are renewed; `NoStrandedRun`: a dead worker's task is taken over; `LedgerExact`: the budget equals what is committed; `CallsNeverRepeat`: no call probes the device twice, whatever is replayed |
| `gates` | 1 run, 1 worker, 2 rounds of evidence, agents that raise, 1 fault, 2 pipeline moves | `GatesPassed`: a completed run passed evidence, diagnosis, critic, plan and safety review in order; `CaseFollowsLifecycle`: the refinement of `CaseLifecycle` |
| `human` | 2 runs (a forced restart), no credential, new or closed case, 1 fault, 1 expiry of the runtime | `WaitingHumanResumable`: a run at the human gate can be resumed |
| `settle` | 1 run, new or closed case, 1 crash, 1 fault, 1 renewal that blocks, runtime limit, fairness | `RunsSettle`: every claimable run comes to rest, unless its worker hangs on its own renewal or the limit passes on a case that cannot be escalated |
| `pipeline` | 2 requests, 2 versions, 2 keys, 3 contents, 1 crash, 1 rewriting, 1 move | `TypeOK`; `ChangesPaidByApprovals`: each change is an action of one job of an approved version and of one key, each at most once and in order; `ChangesUnderApproval`: whatever comes between the look at the approval and the change, an approved version not replaced and the plan as it is say that content, and no job starts on an expired approval |
| `verify` | 1 version with 2 mutations, 2 verifiers, 2 rounds, 1 crash, 1 stall, 2 checks by hand, 1 move, fairness | `ResolvedMeansVerified`, `VerdictsFinal`, `OpenVerificationEnds` |
| `outbox` | 2 workers, 1 endpoint, an event and a test event, limits 1 and 2, 1 crash, 1 expired lease, 1 redelivery, 1 edit, fairness | `HoldersCounted`: posts of one delivery overlap only after a lease ran out; `AttemptsBounded`: it is claimed `max_attempts` times, and once more for each lease that ran out; `DeliveriesSettle` |
| `ingestion` | 2 workers, 2 scopes, 4 documents in 2 buckets, pages of 2, 1 crash, 1 expired lease, 1 failed read, fairness | `NoGap`, `CursorForward`, `BucketsTrue`, `DocumentsIngested`, `BucketsEmitted` |
| `intake` | 2 handlers, 3 events of a core and an access switch, 3 deliveries, 1 operation, 1 case closed, 1 crash, both modes, fairness | `OneCasePerEvent`, `LinksBacked`, `DecisionsCovered` |
| `sampling` | 2 overlapping runs, 2 devices, any 2 of: a case elsewhere, one closed, a rerun by hand, the site switched, a broken anomaly check, an exception, a crash; fairness | `OneCasePerSample`, `CaseBacksSample`, `HandedOver` |
| `access` | 3 requests, an administrator and a user only the directory knows, 1 login transaction, 1 token, 1 role, 1 crash | `AuditTrue`: events chain and add up to the accounts; `OneSessionPerLogin`; `CirclesNeedUpdate`: no deadlock without an `update_user` |
| `services` | four parts side by side (below) | `BreakerHolds`, `AutoStands`; `OneHostKey`, `KnowsItsHost`; `AnswersFresh`, `MirrorForward`; `NothingEscapes`, `EvidenceNeverWeakens` |

`MCServices` explores the four components of `Services`. They share no state, so interleaving them would show nothing more: each has
its own initial states, in which the others rest. *Jobs*: 2 jobs of one target and 2 drafted plans under the levels 0 and 3 (and 1, 2 through the mode switch), a
breaker of 2, 1 crash, 1 run that ages. *Access*: 1 credential, 2 keys, 2 ports, 2 registrations at once, 3 in all, 1 session, 2 edits, 1 crash. *Assets*: 1 device of
2 vendors, 2 lists, a lifetime of 1, 2 edits of NetBox, 1 fetch. *Events*: 3 stored out of 3 kinds at 2 places and 2 times, 1 stored
again, 1 linked, pages and clusters of 1.

Every module of a component defines a `TypeOK` (the abstract `CaseLifecycle` and the composition `Services` have none of their own). It is among the runs' properties for `CaseGraph` and `PlanPipeline`; that every module's holds is a
theorem (section 4).

**Why the bounds are enough.** Two workers and two crashes allow a takeover of a takeover; the
second crash can hit the worker that recovered the first. Two probe calls are the least that
lets a replay meet one answered and one interrupted call, and a busy device roll back a
loop in its middle. Two follow-up rounds are the least in which an old critic or an old
answer could be taken for the current one. Two runs are what a forced restart relates. The graph itself is not
bounded: it stops by its own budget. In `PlanPipeline` two versions are the least with a superseded one, a job of an
old version and an approval of a new; one rewriting between two freezes makes both a changed and an unchanged
content possible; three contents give a plan of mutations, one that starts with a human step, and
one that is only advice. `verify` needs one version: a case whose job has run to its end can be neither frozen nor executed
again. Two actions are the least with siblings, two rounds the least with a `pending` verdict.
A webhook delivery needs two workers and one lease that runs out for an overlap, a second event for a row whose neighbour
is being posted, and a limit of 1 and of 2 for the last and the last but one attempt. Four documents and pages of two give a page that
ends inside a bucket, a document indexed late, and a second scope that must get its turn. Two
handlers or two runs are the least that race for one case, with a third event (or a device above) to merge into.
Three requests are the least with a circle and a bystander. A breaker of 2 with two jobs has a job that is blocked by
its own runs and by the other's, a run nobody committed, and room for a rollback after a half-failed plan; with a breaker of 1
nothing could be rolled back. Three events at two times are the least of which two share a time and a page ends between them.

### Fairness

`CaseGraph` assumes that each worker keeps polling and working (`worker.py:36-69` is an endless
loop that survives exceptions), that a lease nobody renews expires, and that time
passes the runtime limit where that can end the run (one whose worker died inside a probe is turned away by the device's orphaned
`probe_run` until then); not that anybody ends a hung process. `PlanPipeline` assumes that a run that stays due is
claimed by somebody (the query takes the one that is due longest; hence fairness for each run and
not for the choice among them), that a verifier that claimed goes on to evaluate, and that a job that is run goes on, as what it
awaits has a timeout; the last needs that no second request for the plan comes to the same process. `WebhookOutbox`: workers go on, an HTTP
request ends by its timeout, backoffs and unrenewed leases run out; strong fairness for the claim of each row, because a row
put back gets a later `next_attempt_at` than those already waiting. `LogIngestion`: workers go on and unrenewed leases run
out. `EventIntake` and `LogSampling`: the event loop runs what is ready, and every request of NetBox, Elasticsearch or the ticket system
answers or times out. Nothing is assumed of operators, credentials, the device being free or crashes. The other
modules have no liveness properties.

### Where the code and its documents part

The models keep the code as it is. These behaviours are in them, or follow from them when a bound is raised; no
property claims the contrary:

1. **A renewal hangs its own process** (`orchestration/graph_worker.py:28`): `RenewalBlocks`; the row stays locked and no
   other worker can take the run over.
2. **A stranded run** (`orchestration/graph_worker.py:94`). If a lease expires under a live worker and is taken over, the first worker's
   release frees the lease *of the other*; if that one dies, recovery never fires. With `Stalls = 1` in the
   `crash` run, TLC finds `NoStrandedRun` violated, where `docs/RUNBOOK.md:171` promises the takeover. A resume between the waiting node's commit and
   the release does the same to `ExclusiveWorkers` (`CredStart = {FALSE}`).
3. **Evidence lost** (`services/agent_tool_service.py:53`). A crash after the gateway committed the call and before the task
   commits leaves the call `running`; the replay does not probe again and completes the task without the evidence.
4. **Attempts counted twice** (`orchestration/graph_engine.py:127`): once by the begin the gateway committed, once by the failure handler.
5. **Exhausted for ever** (`orchestration/graph_engine.py:114`). On a closed case the budget handler cannot escalate, raises, and
   the run is claimed again after every lease. `RunsSettle` names this exception (`OverOnClosed`); without it the `settle` run,
   which starts on closed cases too, finds the loop.
6. **Unrecorded change** (`services/execution_service.py:264`). If the only verification is good at once, it asks for `resolved`, which the
   table refuses from `executing`: the device is changed, every row about it is rolled back, the job stays `running`.
   A plan that is only advice fails the same way (`executing` to `planned`, `services/execution_service.py:329`).
7. **Unread decision** (`approvals/service.py:119`). A decision names the plan, not the version its author read.
8. **A plan that cannot roll back** (`policies/guard.py:153`). Rollback actions pass the same breaker as the forward ones, whose runs count
   already, and so do attempts the breaker itself refused. Runs of jobs not yet committed do not count, nor do those a rollback
   has made (line 159): what rollbacks change is not bounded. And the count is by the target of the case (line 152), so cases of other
   targets whose actions name the same device change it as often again.
9. **A late worker's outcome** (`webhooks/worker.py:92`). It turns a row delivered meanwhile into a retry; an expired lease is
   claimed again without a look at `max_attempts`. `AttemptsBounded` says by how much the limit may be passed.
10. **A bucket keeps its first severity** (`ingestion/aggregation.py:70`): a critical document after a warning waits for the warning's threshold.
11. **Old copies written back** (`api/events.py:841`, `services/log_sampler.py:922`): a ticket or link made during an await is lost, a symptom may be merged into a
    case closed meanwhile.
12. **Samples nobody hands over** (`services/log_sampler.py:636`) after a crash between the commit and the task; and the anomaly check's
    rollback loses the samples of other devices of the run.
13. **Deadlocks of `update_user`** (`auth/identity_admin_service.py:236`) with logins that change roles and with revocations: the locks are taken in
    opposite orders, and one of the requests fails.
14. **Ties go to the later case** (`services/topology_correlation_service.py:254`). The comment gives a symptom with two cases upstream at one
    distance to the one opened earlier; but the cases are listed newest first (line 219) and only a strictly nearer one replaces, so
    the later one takes the evidence (`Parent`).
15. **No baseline** (`services/baseline_calculator.py:70`). The average is taken over `row[2]`, the fingerprint the rows were looked up by; the
    `TypeError` is swallowed at line 93, so three lines of a device are an anomaly whatever it usually logs.
16. **Pages without an order** (`api/events.py:764`). Events of one time may change places between two pages, and one of them be listed twice
    and another not at all; `NothingEscapes` excepts them by name.
17. **Hosts that show no registered key** (`services/ssh_service.py:346` and `:428`, `mcp/netbox_mcp.py:534`): these connections add any key.
18. **An approval that expires during its job** (`services/execution_service.py:133`): it is looked at once, before the first action.
19. Smaller ones: a rerun after `budget_exhausted` (`docs/RUNBOOK.md:177`) fails at triage because the case is escalated; a plan
    can be frozen for approval before its safety review; each restart gets a new budget although `DEPLOYMENT.md:83` states it per case; a human's time
    counts as runtime; an expired approval is marked so in a transaction that is rolled back; a verification left open
    when its sibling regressed raises at every evaluation.

### Mutants

Each property of a run has a mutant in `PROJECT.json`: a definition of the
model, changed as a plausible bug would change the code (the lease test dropped from the claim,
recovery that does nothing, a cursor moved before the documents are stored, the breaker blind to a job's own runs, a key
looked up by port alone, ...). TLC finds each property violated by its mutant. The mutated
forms stand before the definitions they replace, each with a comment.

## 4. Proofs

`CaseGraphProofs` holds for every set of runs and workers and every value of the
bounds, from `ConstantsAssumption` alone.

* **`GraphFollowsLifecycle`**: `Spec => CaseFollowsLifecycle`. Whatever workers, failures and the
  plan pipeline do, the case's status is a behaviour of `CaseLifecycle`. No
  invariant is needed: each step either leaves the status or tests the edge
  (`WorkMovesAllowed`, `PipelineMovesAllowed`); the one edge taken without a test, `new`/`open` to
  `normalized`, is in the table.
* **`TypeCorrect`**: `Spec => []TypeOK`. Types alone are not inductive: a worker writes to
  row `task` of run `run`, so it must be known that the row is there; the supervisor computes
  the round of a new task from the latest diagnosis, so that one must exist and
  be a natural number. The invariant is
  `RowsInv == TypeOK /\ AllRowsOK /\ HoldsRow /\ AbsentEmpty`: each run's rows are tasks whose
  round is at most their place, a busy worker holds a row of a run, a run not yet enqueued has no
  rows. `GreatestExists` and `LatestExists` show that the supervisor's `CHOOSE` finds the latest
  diagnosis; `CreateOK`, `ExceptOK` and `RewriteOK` are about sequences of rows;
  `WorkerStep`, `GrowStep` and `WorkersOnly` are the three shapes of a step, and then there is one
  lemma per action.

Its second half continues from `RowsInv`. All of it covers `RenewalBlocks` like any other step: a hung worker is a busy one that holds
its row.

* **`CallsAreProbedOnce`**: `Spec => CallsNeverRepeat`, without any hypothesis. Several workers may be at one task when leases
  stall, so exclusion cannot carry it. `CallsInv` follows *ownership* instead: a call's row is `running` in the database before its
  session starts or its rejection is reported, the worker that committed it owns the result (`OwnedRunning`), no other does
  (`OneOwner`), and whoever replays the task finds the row and owns nothing.
* **`LeaseExcludes`**: until a live worker has lost its lease (`env["stall"] = 0`), `ExclusiveWorkers` holds. `LeaseInv` says that a
  run has at most one worker, the lease is its own and, unless it hangs, unexpired (`LeaseHeld`). Runs enqueued without a
  credential are left out (`FALSE \notin CredStart`): a resume between the commit of the waiting node and the release gives up the
  lease of whoever claimed the run. Both hypotheses are needed: item 2 above is the code without them.
* **`GateOpens`**: `WaitingHumanResumable` needs only the first: at the gate the worker is on its way out (`GateHeld`).
* **`RunsGoOn`**: `NoStrandedRun` under both. `Attended` follows the row in each worker's hand: it is not done behind the worker's back
  (`RowAtHand`), a running task is being probed for or its run has nobody and a lease that will expire (`RunningHeld`), and a
  claimable run has a ready or running task (`GoesOn`). Every step that completes a task must be shown to leave a supervisor.
* **`LedgerKept`**: `LedgerExact` under both. What the budget counts is written as cardinalities of sets of rows (`FollowUpRows`,
  `CallRows`, `CompletedRows`); each step changes the set by exactly what it charges, which for an agent's charge needs that
  its task was not completed before, hence `Attended`. With one stall an agent's task completes twice and is charged
  twice (TLC finds it 13 states deep with `Stalls = 1`).
* **`ProbesAndReplansCounted`**: the two counters that need no exclusion, `ReplansPaid` and `CallsPaid`, hold without hypotheses.
* **`GatesHold`**: `GatesPassed` under both. A completed run shows its whole history, so `GatesInv` says of every run that may still complete
  that its gates are passed in order: before a critic's row exists the evidence and the diagnosis are done with, before a plan's the
  critic of that round, before a review's the plan (`CriticGate`, `PlanGate`, `SafetyGate`), where done with means neither ready, nor
  running, nor in the hand of a worker that has begun. That needs in turn that at most one diagnosis or request goes on, and a
  request before all else (`Whole`, `RequestsFirst`: the priority 80). A superseded run counts as one that may complete: a worker that
  read it before brings it back with its commit, so what that worker holds is part of the invariant (`Holds`, `Judged`). With one stall the
  property fails (TLC, 69 states deep with `Stalls = 1` and two workers): a worker that lost its lease and its task writes a failed diagnosis
  over the one the run was completed on.

`PlanPipelineProofs` holds for every set of requests, verifiers, keys and contents, every
bound, and any number of actions, from `PipelineAssumption` alone.

* **`PipelineTypeCorrect`**: `Spec => []TypeOK`. A job that runs needs to know what it runs: `TypedInv` adds that its version is there
  and its outcomes are outcomes of that version's actions (`RunsTyped`), which needs that no version loses its content
  (`StepKeepsApprovals`). `EndsTyped` and `RunAfterTyped` show that the code's if-chains never leave their statuses, `FreezeTyped` that rows are
  kept when open ones are superseded and one is appended.
* **`PaidByApprovals`**: `Spec => []ChangesPaidByApprovals`. The property says nothing of who
  may still change a device, so it is strengthened to `PaidInv`: a job exists only for an
  approved version and no two jobs share a key (`JobsApproved`), changes are of jobs, of their
  version's content and in order (`ChangesOfJobs`), a request at work on a job is the only one and has
  changed nothing before the job runs (`RunningOnce`), a running job is covered (`RunsCovered`, below) and a version's state
  agrees with the decision on record (`StatesDecided`; a pending version has none, so deciding never takes an approval away).
  Then a step makes a job (`PaidOnAccept`), tells a device something (`PaidOnTouch`), ends a request (`PaidOnRequest`) or does
  none of these (`PaidKept`).
* **`CoveredByApproval`**: `Spec => ChangesUnderApproval`. Between the look at the approval and a change of a device there are any number of
  steps of others. `RunsCovered` carries what the look found through them: the version is approved and not replaced, and says
  what the plan says. It is kept because no such step can write the plan, the case or a version's state while a job is run
  (`RowsStayLocked`); that a version's time runs out is not kept, and not claimed.
* **`VerdictsAreFinal`**: `Spec => VerdictsFinal`. A verifier acts on a row it read earlier,
  so the invariant `FinalInv` relates the two: what it holds is never ahead in rounds, and is
  behind wherever only the database is final (`RowsBehind`); then the unique index
  on the rounds refuses it. A job's end writes all its verification runs, so it is also needed that there
  were none (`RunsOfEndedJobs`) and that no verifier is at work on one (`VerifiersOnRuns`).

* **`ResolvedOnEvidence`**: `Spec => []ResolvedMeansVerified`, for a case that is not resolved to begin with
  (`"resolved" \notin CaseStart`; a case resolved by hand has no verdicts). `EvidenceInv` adds to `FinalInv` that only one job's
  runs are ever judged (`OneJobJudged`) and that a case under judgement is in a status that cannot be frozen or executed again
  (`JudgedCaseSettled`): otherwise a second job's runs could open behind a verdict.

`WebhookOutboxProofs` holds for every finite set of workers, every set of deliveries and every limit, from `OutboxAssumption`.

* **`OutboxTypeCorrect`**: `TypeOK` is inductive.
* **`HoldersAreCounted`**: `HoldersCounted` is not. `HoldersInv` counts the claim a row is open to as one more holder, live lease or
  not: without a live lease an operator can make any row due again, whatever its status.
* **`AttemptsAreBounded`**: `AttemptsBounded` says nothing of the claims to come. `AttemptsInv` says what is left to pay for them: of a row that has
  reached the limit, its attempts beyond it, the workers whose outcome may still make it a retry because they read an earlier count
  (`Risky`), and the claim it is open to (`Open`), together are no more than the leases that ran out on it. A claim turns the open one
  into an attempt; a late report one of `Risky` into an open one.

`LogIngestionProofs` holds for every finite set of documents and every set of scopes, buckets and workers, from `IngestionAssumption`, by one invariant,
`IngestInv`.

* **`NothingSkipped`**, **`BucketsAreTrue`**, **`CursorsGoForward`**: a worker may come back with a page after its lease was taken. So the
  invariant speaks of the pages in the workers' memory: each is what the store had behind its base, without a gap but for documents
  indexed later (`PagesWhole`), and it is ingested only if the cursor still stands at that base. A bucket's count
  is the cardinality of its ingested documents; that a created case is committed before the mark is `CreatedHaveCases`.
* **`IngestionTypeCorrect`**: `TypeOK`, where there is a scope at all (`Scopes # {}`): an idle worker of the model names the first scope.
  That the order of scopes stays a permutation is what lets `LastServed` be a removal and an append.

`EventIntakeProofs` holds for every set of events, handlers and devices and every topology, from `IntakeAssumption`.

* **`EventsFiledOnce`**, **`LinksHold`**, **`IntakeTypeCorrect`**: `IntakeInv` relates the stores to what handlers *remember* across an await (`Remembered`): the row as
  loaded, the case found or opened, the cases to merge into. Cases are never deleted and evidence is never taken back (`Grown`), so what was
  backed when it was read is backed when it is written over newer rows. One case per event rests on `OneRuns`: the event loop lets no second
  handler between the look for a case and its opening. `LeastOf` and `GreatestOf` show that the nearest anchor and the newest case, which the model
  chooses, exist: by the well-founded strict subset ordering, since induction over data is out of reach.

`LogSamplingProofs` holds for any number of runs, every set of devices and every batch, from `SamplingAssumption`.

* **`SamplesFiledOnce`**, **`SamplesBacked`**: a run's transaction is committed or rolled back in its middle by one device's anomaly check, and the tasks that
  file cases run later. `SamplingInv` says that a run has written nothing of the devices still before it (`RunsAhead`), that a task knows
  only samples that are committed and cases that exist (`TasksBehind`), and that links and events are backed. Only a pending
  sample is ever taken away, and no task knows one.
* **`SamplingTypeCorrect`**: `TypeOK`, by `SamplingInv` and `RowsInv`. A row's fingerprint is that of the first line that counts, so there
  must be one: `KeptIs` shows that the recursion of `Kept` has a solution, by the least line up to which there would be none (`KeepsAll`),
  and `KeptTyped` that a device's first line is in it, whatever the window.

`ServicesProofs` proves about each component of `Services` for itself. `Remediation`: for every finite set of jobs, every policy,
catalogue and undo list and every limit, from `RemediationAssumption`.

* **`BreakerBounds`**: `RemediationSpec => []BreakerHolds`, for the changes made for the cases of one target and not by a rollback. The bound is not inductive, and no sum over jobs is: the guard counts all committed runs
  and the job's own, so a job may use the room others left. The invariant is an assignment: `PlacesSuffice` says that the runs that acted or
  are about to can be placed one to one on `MaxRuns` places of each job, present or lost, a run of a job that goes on at its own, a committed one
  anywhere among the present. A run the guard lets pass has a free place by the pigeonhole principle; a job that commits leaves its runs where they are; a job
  that is lost takes its places along and new ones are made.
* **`AutomaticStands`**: `RemediationSpec => []AutoStands`. `CheckedBeforehand` compares the agent's evaluation with the guard's action by action, for every
  resolution of names and every mode, at every level from 2 up; `DraftsStand` lifts it to plans, `PlansInv` to behaviours.
* **`RemediationTypeCorrect`**: `TypeOK`, with `RunsAlone`: one job runs in the event loop at a time.

`DeviceAccess`, `AssetMirror` and `EventClusters` hold for every set of their constants, from `ServicesAssumption`.

* **`OneActiveHostKey`**: `D!DeviceAccessSpec => []OneHostKey`. A registration inserts its key beside rows it has only locked, so the invariant
  speaks of who has locked what: `RegsInv` says that a registration has locked active rows of its own port, that no two have locked
  the same, and that one that has inserted holds every active row of its port and is alone there; `PortsInv`, that a port with rows has one
  active. The unique index is what `RegsInv` needs where a port had no row to lock.
* **`SessionsKnowTheirHost`**: `[]KnowsItsHost`, for the sessions of the pinned transport. `SessionsInv` follows what a session resolved through its two transactions: a row it goes by is
  none of those retired before it was asked for, and rows never become active again.
* **`CachedAnswersFresh`**, **`MirrorNeverGoesBack`**: `AssetsInv` says when each entry of the cache was asked (`CacheTrue`), and that no row of the
  mirror is ahead of NetBox (`MirrorBehind`). The second is an action property: it needs that a cached list is not written to the mirror.
* **`ReadersMissNothing`**: `[]NothingEscapes`, for any number of events, times and readers, and any order of each page among events of one
  time. `DueAhead` counts, for each event the reader has still to be given, the newer ones that the reader asks for: there are at
  least as many as it has skipped, because what is stored new, or again with a newer time, comes in front, and because a page that gives some of the events of one
  time gives them all or leaves the rest `cut`. An event stored again with an older time is what else `NothingEscapes` leaves
  out (`spoiled`).
* **`MoreEvidenceNeverWeakens`**: `EvidenceNeverWeakens`, an action property of `Collect`. Members of a cluster of the shorter list are members in
  the longer one, moved by one; so the number of events, of cases and of tickets, the best severity, the sources and each rounded term grow
  or stay (`CountGrows` and the lemmas on the terms), and the merge of a candidate's clusters keeps that (`CandidateGrows`).
* **`DeviceAccessTypes`**, **`AssetMirrorTypes`**, **`EventClustersTypes`**: `TypeOK`. That of `AssetMirror` needs a device and a time
  beyond the first: an idle request of the model names a device, and an entry of the cache its times.

`AccessProofs` holds for every finite set of users and requests, every set of logins, tokens, roles and mappings, from `AccessAssumption`.

* **`AccessTypes`**: `TypeOK`, by `Shape`, which adds whom and what a request of each kind names.
* **`OnlyUpdatesLockOut`**: `[]CirclesNeedUpdate`. `Plan` is the whole list of locks a request takes. `LocksInv` says that each has taken a prefix of its
  plan and wants the rest (`Ordered`), that no two hold conflicting locks (`Mutex`), that one login runs at a time (`OneLogin`), and what is known
  of tokens under way (`TokensTrue`). In a circle without an update everybody waits for the audit lock (`AllWantAudit`): shared locks of a
  row exclude nobody, two logins are kept apart by the event loop, and a token's own row and the directory are taken before or under the audit
  lock. So somebody in the circle holds the audit lock and wants it, but a plan has it once (`NoCircle`).
* **`AuditLogTrue`**: `[]AuditTrue`. `ReadsInv` adds that what a request has read under a lock it still holds is still so (`ReadStill`); hence each
  commit appends what it really did (`CommitIs`). `Told` is a recursive function over the log. Instead of an induction over the log, which is
  out of reach, there is one over time: `HistoryInv` keeps *every* function that obeys `Told`'s equation for the log so far (`Chronicle`), with
  the proof that there is one; an event appended extends it by one place. So `Told` is never unfolded.
* **`OneSession`**: `[]OneSessionPerLogin`. `SessionsInv` says that a login row that was used is with one request or one session (`LoginsUsed`), and that
  every session made here has one event (`Recorded`).

Only model-checked:

* the liveness properties (`RunsSettle`, `OpenVerificationEnds`, `DeliveriesSettle`, `DocumentsIngested`, `BucketsEmitted`, `DecisionsCovered`,
  `HandedOver`): the prover has no fairness. Their fairness is that of section 3.

Every other property of a run is a theorem.

## 5. What the abstraction leaves out

* Advisory locks of the gateway: they belong to one session inside the window in
  which the `probe_run` row is already exclusive per device.
* `tool_calls` and `target_devices` of the budget: charged beside `probe_calls`, in the same place.
* The memory, messages, checkpoints, timeline and metrics a node writes: in its transaction, and
  read by no decision of the graph. The case's priority that triage writes likewise.
* Dry runs, and the rows other components write along (audit rows of approvals, webhook rows of every change: their publication is
  `Enqueue` of `WebhookOutbox`).
* The baseline that is incomplete at an evaluation: a run without one never becomes due.
* The content of evidence, hypotheses, logs and messages: kept as flags, kinds and counts. Times are an order, or due and not due.
* Tokens and CSRF headers checked on a request (they change nothing modelled), the expiry of sessions, and password hashing.
* The NetBox queries a topology takes: an answer, or none, for the whole of it.
* When APScheduler starts the sampler's jobs: any time.

## 6. What is not modelled

* `services/rule_engine.py`, `policy_matcher.py`, `state_aggregator.py`, `abnormal_upgrader.py`: imported by nothing that runs.
* The synchronous pipeline (`run_legacy_case_pipeline`, `pipelines/`, `orchestration/state_finalizer.py`): replaced by the graph.
* `api/logs.py`, `mcp/elk_mcp.py`, `adapters/`: queries forwarded to Elasticsearch.
* Memory and feedback: keys carry the id of the run or the feedback, so upserts do not meet; retrieval is a ranking.
* `compat/`: read models of the retired automation API.
* The scores of triage and historical analysis, text summaries, the LLM: choices in the models.
* Frontend, migrations, scripts.
* Composition of `CaseGraph` with `PlanPipeline`: each is the other's environment (`PlanPipelineMove`, `GraphWritesPlan`, `GraphMovesCase`); the product is out of
  TLC's reach, and one transaction of `PlanPipeline` may move the case twice, so it does not refine `CaseLifecycle` step by step.
