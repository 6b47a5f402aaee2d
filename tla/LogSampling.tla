----------------------------- MODULE LogSampling -----------------------------
(***************************************************************************)
(* The log sampler (services/log_sampler.py) of one site: a run asks ELK    *)
(* for the logs of its window, counts them per device, stores one sample    *)
(* per device, and hands the samples that ask for it to a task that merges  *)
(* each into the open case of an upstream device or gives it a case.        *)
(*                                                                         *)
(* The API is one event loop: a run or a task goes on alone until it awaits *)
(* ELK or NetBox.  Runs overlap: refresh_jobs starts one beside the         *)
(* scheduler's.  A run is one transaction, except that storing a raw        *)
(* anomaly commits it, and failing to, rolls it back, half way.             *)
(***************************************************************************)
EXTENDS Integers, FiniteSets, Sequences, FiniteSetsExt, SequencesExt

CONSTANTS
  Runs,             \* the runs, in the order they are started: 1 .. n
  Devices,          \* addresses the logs come from
  Hops,             \* of a device, how far above it another one is; 0: it is not
  Batches,          \* the logs ELK may answer with
  DedupSeconds,     \* message_dedup_seconds
  Immediate,        \* immediate_trigger: the thresholds by field, 0: none
  Periodic,         \* periodic_trigger, in order: [field, threshold, risk]
  Known,            \* whether NetBox may know the device, by device
  MaxEnv, MaxActs   \* bounds: how often the environment does what, and in all

(* A case is opened elsewhere or closed; a user asks for a sample's case or
   switches the site; the anomaly check or another step raises; the API dies. *)
NoDevice == "none"
EnvKinds == {"elsewhere", "close", "manual", "toggle", "broken", "fail", "crash"}

Kinds == {"crc", "flap", "neighbor", "interface", "hardware", "auth", "routing"}
Fields == Kinds \cup {"error", "critical", "other"}
Risks == <<"low", "medium", "high", "critical">>

(* fp: the fingerprint, which leaves out level, time and numbers. *)
Line == [device : Devices, fp : Nat, kinds : SUBSET Kinds, error : BOOLEAN,
         urgent : BOOLEAN, time : Nat]

ASSUME SamplingAssumption ==
  /\ IsFiniteSet(Runs) /\ Runs = 1 .. Cardinality(Runs)
  /\ Hops \in [Devices -> [Devices -> Nat]] /\ \A d \in Devices : Hops[d][d] = 0
  /\ Batches \subseteq Seq(Line) /\ NoDevice \notin Devices
  /\ DedupSeconds \in Nat
  /\ Immediate \in [{"critical", "hardware", "auth"} -> Nat]
  /\ \A i \in DOMAIN Periodic :
       Periodic[i] \in [field : Fields, threshold : Nat, risk : ToSet(Risks)]
  /\ Known \in [Devices -> SUBSET BOOLEAN]
  /\ MaxEnv \in [EnvKinds -> Nat] /\ MaxActs \in Nat

VARIABLES
  samples,   \* log_sample and its source_event, by run and device
  anomalies, \* raw_anomaly
  cases,     \* case_record, in the order they were opened
  graphs,    \* the cases a diagnostic graph was asked for
  runs,      \* sample_site_logs
  tasks,     \* _trigger_diagnosis_for_abnormal_samples, one for each run
  enabled,   \* site_automation_switch
  env

vars == <<samples, anomalies, cases, graphs, runs, tasks, enabled, env>>

SampleIds == Runs \X Devices
Elsewhere == <<0, "elsewhere">>

(* case: raw_data.case, its place in cases; known: NetBox knows the device;
   event: the status of the sample's source event. *)
Sample == [state : {"none", "pending", "stored"}, abnormal : BOOLEAN, create : BOOLEAN,
           known : BOOLEAN, fp : Nat, size : Nat, case : Nat,
           event : {"none", "new", "correlated", "case_created"}]
NoSample == [state |-> "none", abnormal |-> FALSE, create |-> FALSE, known |-> FALSE,
             fp |-> 0, size |-> 0, case |-> 0, event |-> "none"]

Case == [sample : SampleIds \cup {Elsewhere}, device : Devices \cup {NoDevice}, open : BOOLEAN,
         derived : SUBSET SampleIds]

(* todo: the devices whose sample is still to be written; triggered: those whose
   sample asks for a case. *)
Run == [at : {"idle", "elk", "netbox", "done", "failed"}, batch : Seq(Line),
        todo : SUBSET Devices, triggered : SUBSET Devices]
(* asked: the sample NetBox is asked about; parents: the open cases found before. *)
Task == [at : {"idle", "spawned", "working", "asking"}, queue : SUBSET SampleIds,
         asked : SUBSET SampleIds, parents : SUBSET Nat]

TypeOK ==
  /\ samples \in [SampleIds -> Sample]
  /\ anomalies \subseteq [run : Runs, device : Devices, fp : Nat, size : Nat]
  /\ cases \in Seq(Case)
  /\ graphs \subseteq DOMAIN cases
  /\ runs \in [Runs -> Run]
  /\ tasks \in [Runs -> Task]
  /\ enabled \in BOOLEAN
  /\ env \in [EnvKinds -> Nat]
  /\ \A s \in SampleIds : samples[s].case \in {0} \cup DOMAIN cases

IdleRun  == [at |-> "idle", batch |-> <<>>, todo |-> {}, triggered |-> {}]
IdleTask == [at |-> "idle", queue |-> {}, asked |-> {}, parents |-> {}]

Init ==
  /\ samples = [s \in SampleIds |-> NoSample]
  /\ anomalies = {} /\ cases = <<>> /\ graphs = {}
  /\ runs = [r \in Runs |-> IdleRun]
  /\ tasks = [r \in Runs |-> IdleTask]
  /\ enabled = TRUE
  /\ env = [k \in EnvKinds |-> 0]

Happens(kind) ==
  /\ env[kind] < MaxEnv[kind] /\ MapThenSumSet(LAMBDA k : env[k], EnvKinds) < MaxActs
  /\ env' = [env EXCEPT ![kind] = @ + 1]
LoopFree      == \A r \in Runs : tasks[r].at # "working"

-----------------------------------------------------------------------------
(* Counting the logs of a device, and what the counts ask for. *)

(* The places of a device's lines; of those with one fingerprint, a line within
   DedupSeconds of the last one that counted is dropped. *)
Kept(batch, d) ==
  LET own == {i \in DOMAIN batch : batch[i].device = d}
      counted[i \in own] ==
        LET before == {j \in own : j < i /\ batch[j].fp = batch[i].fp /\ counted[j]} IN
        before = {} \/ batch[i].time - batch[Max(before)].time > DedupSeconds
  IN  {i \in own : counted[i]}

(* An error of no known kind; routing is not one of them. *)
IsOther(l) == l.error /\ l.kinds \subseteq {"routing"}

Hits(l, field) ==
  CASE field = "error"    -> l.error
    [] field = "critical" -> l.urgent
    [] field = "other"    -> IsOther(l)
    [] OTHER              -> field \in l.kinds

Counts(batch, d) ==
  [f \in Fields |-> Cardinality({i \in Kept(batch, d) : Hits(batch[i], f)})]

Rank(risk) == CHOOSE i \in DOMAIN Risks : Risks[i] = risk

(* _evaluate_collection_policy: the risk of the first rule that fires. *)
Fired(n) ==
  LET at_once == {f \in DOMAIN Immediate : Immediate[f] > 0 /\ n[f] >= Immediate[f]}
      due     == SelectSeq(Periodic, LAMBDA p : p.threshold > 0 /\ n[p.field] >= p.threshold)
  IN  IF at_once # {} THEN IF at_once = {"auth"} THEN {"high"} ELSE {"critical"}
      ELSE IF due # <<>> THEN {due[1].risk} ELSE {}

RiskOf(f) == IF f \in {"hardware", "critical"} THEN "critical"
             ELSE IF f \in {"crc", "routing", "auth"} THEN "high" ELSE "medium"

SignalRisk == [f \in Kinds \cup {"critical", "other"} |-> RiskOf(f)]

Signals(n) == {f \in DOMAIN SignalRisk : n[f] > 0}

(* In twentieths. *)
Score(n) == MapThenSumSet(LAMBDA f : 20 + Min({n[f], 30}), Signals(n))

Asks(n) ==
  \/ Fired(n) # {}
  \/ \E f \in Signals(n) : Rank(SignalRisk[f]) >= Rank("high")
  \/ Score(n) >= 60

Logged(batch) == {d \in Devices : \E i \in DOMAIN batch : batch[i].device = d}

(* _build_signal_summary and the rest of what a sample says of its logs. *)
Judged ==
  [batch \in Batches |-> [d \in Logged(batch) |->
     LET n == Counts(batch, d) IN
     [abnormal |-> Score(n) > 0, create |-> Asks(n), size |-> Cardinality(Kept(batch, d)),
      fp |-> batch[Min(Kept(batch, d))].fp]]]

(* calculate_7d_baseline adds up the third column of its rows, the fingerprint they
   were looked up by and not their count.  That raises, and its handler answers with
   no average, no percentile and no past samples, whatever the past was. *)
PastSamples == 0

(* is_raw_anomaly: without an average and a percentile only its last rule is left. *)
IsAnomaly(size) == PastSamples < 5 /\ size >= 3

-----------------------------------------------------------------------------
(* A run. *)

Start(r) ==
  /\ LoopFree /\ runs[r].at = "idle" /\ \A q \in Runs : q < r => runs[q].at # "idle"
  /\ enabled
  /\ runs' = [runs EXCEPT ![r].at = "elk"]
  /\ UNCHANGED <<samples, anomalies, cases, graphs, tasks, enabled, env>>

Fetched(r) ==
  /\ LoopFree /\ runs[r].at = "elk"
  /\ \E batch \in Batches :
       runs' = [runs EXCEPT ![r] = [@ EXCEPT !.at = IF batch = <<>> THEN "done" ELSE "netbox",
                                           !.batch = batch, !.todo = Logged(batch)]]
  /\ UNCHANGED <<samples, anomalies, cases, graphs, tasks, enabled, env>>

FetchFailed(r) ==
  /\ LoopFree /\ runs[r].at = "elk" /\ Happens("fail")
  /\ runs' = [runs EXCEPT ![r] = [IdleRun EXCEPT !.at = "failed"]]
  /\ UNCHANGED <<samples, anomalies, cases, graphs, tasks, enabled>>

Pending(r) == {s \in SampleIds : s[1] = r /\ samples[s].state = "pending"}

(* The devices come in the order of their first lines. *)
First ==
  [batch \in Batches |-> [d \in Logged(batch) |-> Min({i \in DOMAIN batch : batch[i].device = d})]]

Due(r) == CHOOSE d \in runs[r].todo :
            \A e \in runs[r].todo : First[runs[r].batch][d] <= First[runs[r].batch][e]

(* The sample of the device whose NetBox id has arrived. *)
Sampled(r, known) ==
  LET judged == Judged[runs[r].batch][Due(r)] IN
  [state |-> "pending", abnormal |-> judged.abnormal, create |-> judged.create, known |-> known,
   fp |-> judged.fp, size |-> judged.size, case |-> 0,
   event |-> IF judged.abnormal THEN "new" ELSE "none"]

(* What a commit or a rollback makes of the run's samples. *)
Settled(r, row, became) ==
  LET written == <<r, Due(r)>> IN
  [s \in SampleIds |->
     LET now == IF s = written THEN row ELSE samples[s] IN
     IF s[1] = r /\ now.state = "pending"
     THEN IF became = "stored" THEN [now EXCEPT !.state = "stored"]
          ELSE IF became = "lost" THEN NoSample ELSE now
     ELSE now]

(* Goes on to the next device, or commits and hands the samples over. *)
Advance(r, row) ==
  LET d    == Due(r)
      next == [runs[r] EXCEPT !.todo = @ \ {d},
                              !.triggered = IF row.create THEN @ \cup {d} ELSE @] IN
  IF next.todo # {}
  THEN runs' = [runs EXCEPT ![r] = next] /\ tasks' = tasks
  ELSE /\ runs' = [runs EXCEPT ![r] = [IdleRun EXCEPT !.at = "done"]]
       /\ tasks' = IF next.triggered = {} THEN tasks
                   ELSE [tasks EXCEPT ![r] = [@ EXCEPT !.at = "spawned",
                                              !.queue = {<<r, e>> : e \in next.triggered}]]

LastDevice(r) == runs[r].todo = {Due(r)}

(* The device's sample, without a raw anomaly. *)
Write(r, known) ==
  LET row == Sampled(r, known) IN
  /\ LoopFree /\ runs[r].at = "netbox"
  /\ row.abnormal => ~IsAnomaly(row.size)
  /\ samples' = Settled(r, row, IF LastDevice(r) THEN "stored" ELSE "pending")
  /\ Advance(r, row)
  /\ UNCHANGED <<anomalies, cases, graphs, enabled, env>>

(* Storing the raw anomaly commits the samples written so far. *)
WriteAnomaly(r, known) ==
  LET d   == Due(r)
      row == Sampled(r, known) IN
  /\ LoopFree /\ runs[r].at = "netbox"
  /\ row.abnormal /\ IsAnomaly(row.size)
  /\ samples' = Settled(r, row, "stored")
  /\ anomalies' = anomalies \cup {[run |-> r, device |-> d, fp |-> row.fp, size |-> row.size]}
  /\ Advance(r, row)
  /\ UNCHANGED <<cases, graphs, enabled, env>>

(* The anomaly check raises: the samples since the last commit are lost, and the
   run goes on. *)
WriteBroken(r) ==
  LET row == Sampled(r, TRUE) IN
  /\ LoopFree /\ runs[r].at = "netbox" /\ row.abnormal /\ Happens("broken")
  /\ samples' = Settled(r, row, "lost")
  /\ Advance(r, row)
  /\ UNCHANGED <<anomalies, cases, graphs, enabled>>

(* Any other exception: rolled back and logged, nothing is handed over. *)
WriteFailed(r) ==
  /\ LoopFree /\ runs[r].at = "netbox" /\ Happens("fail")
  /\ samples' = [s \in SampleIds |-> IF s \in Pending(r) THEN NoSample ELSE samples[s]]
  /\ runs' = [runs EXCEPT ![r] = [IdleRun EXCEPT !.at = "failed"]]
  /\ UNCHANGED <<anomalies, cases, graphs, tasks, enabled>>

-----------------------------------------------------------------------------
(* Cases of samples: _create_case_for_sample_with_db. *)

(* Open cases at other devices that NetBox knows. *)
OpenElsewhere(s) ==
  {c \in DOMAIN cases : cases[c].open /\ cases[c].device \notin {s[2], NoDevice}}

OwnCases(s) == {c \in DOMAIN cases : cases[c].sample = s}

NewCase(s) ==
  [sample |-> s, device |-> IF samples[s].known THEN s[2] ELSE NoDevice, open |-> TRUE,
   derived |-> {}]

(* For a mutant: a case whatever the event has already. *)
FiledAlways(s) == Append(cases, NewCase(s))

Filed(s) == IF OwnCases(s) # {} THEN cases ELSE Append(cases, NewCase(s))

(* For a mutant: the sample's event is left as it was. *)
RecordedNoEvent(s, c) == [samples EXCEPT ![s].case = c]

Recorded(s, c) == [samples EXCEPT ![s].case = c, ![s].event = "case_created"]

(* Three commits: the case, its graph, the sample's record of it. *)
Create(s, steps) ==
  LET own == IF OwnCases(s) # {} THEN Max(OwnCases(s)) ELSE Len(cases) + 1 IN
  /\ cases' = Filed(s)
  /\ graphs' = IF steps >= 2 THEN graphs \cup {own} ELSE graphs
  /\ samples' = IF steps = 3 THEN Recorded(s, own)
                ELSE [samples EXCEPT ![s].event = IF @ = "none" THEN "case_created" ELSE @]

(* Nothing to ask NetBox, or nobody to be merged into. *)
Alone(s) == ~samples[s].known \/ OpenElsewhere(s) = {}

(* For a mutant: the samples NetBox knows nothing of are left out. *)
QueryKnown(r) == {s \in tasks[r].queue : samples[s].state = "stored" /\ samples[s].known}

Query(r) == {s \in tasks[r].queue : samples[s].state = "stored" /\ samples[s].abnormal}

Spawned(r) ==
  /\ LoopFree /\ tasks[r].at = "spawned"
  /\ tasks' = [tasks EXCEPT ![r].queue = Query(r), ![r].at = "working"]
  /\ UNCHANGED <<samples, anomalies, cases, graphs, runs, enabled, env>>

Ended(r) ==
  /\ tasks[r].at = "working" /\ tasks[r].queue = {}
  /\ tasks' = [tasks EXCEPT ![r] = IdleTask]
  /\ UNCHANGED <<samples, anomalies, cases, graphs, runs, enabled, env>>

Dropped(r, s) == [tasks EXCEPT ![r].queue = @ \ {s}]

Skip(r, s) ==
  /\ tasks[r].at = "working" /\ samples[s].case # 0
  /\ tasks' = Dropped(r, s)
  /\ UNCHANGED <<samples, anomalies, cases, graphs, runs, enabled, env>>

CreateAlone(r, s) ==
  /\ tasks[r].at = "working" /\ samples[s].case = 0 /\ Alone(s)
  /\ tasks' = Dropped(r, s)
  /\ Create(s, 3)
  /\ UNCHANGED <<anomalies, runs, enabled, env>>

(* An exception after the case or after its graph: logged, and on to the next. *)
CreateRaised(r, s) ==
  /\ tasks[r].at = "working" /\ samples[s].case = 0 /\ Alone(s) /\ Happens("fail")
  /\ tasks' = Dropped(r, s)
  /\ \E steps \in 1 .. 2 : Create(s, steps)
  /\ UNCHANGED <<anomalies, runs, enabled>>

(* The rest of the queue waits with it. *)
Ask(r, s) ==
  /\ tasks[r].at = "working" /\ samples[s].case = 0 /\ ~Alone(s)
  /\ tasks' = [Dropped(r, s) EXCEPT ![r].at = "asking", ![r].asked = {s},
                                    ![r].parents = OpenElsewhere(s)]
  /\ UNCHANGED <<samples, anomalies, cases, graphs, runs, enabled, env>>

Reached(r, s) == {c \in tasks[r].parents : Hops[s[2]][cases[c].device] > 0}

(* The nearest, of those the last opened. *)
Parent(r, s) ==
  LET hops(c)  == Hops[s[2]][cases[c].device]
      nearest == {c \in Reached(r, s) : \A b \in Reached(r, s) : hops(c) <= hops(b)}
  IN  Max(nearest)

Answered(r) == [tasks EXCEPT ![r].at = "working", ![r].asked = {}, ![r].parents = {}]

(* Merged as derivative evidence, whatever happened to the sample meanwhile. *)
Correlate(r, s) ==
  LET c == Parent(r, s) IN
  /\ LoopFree /\ tasks[r].at = "asking" /\ Reached(r, s) # {}
  /\ tasks' = Answered(r)
  /\ cases' = [cases EXCEPT ![c].derived = @ \cup {s}]
  /\ samples' = [samples EXCEPT ![s].case = c, ![s].event = "correlated"]
  /\ UNCHANGED <<anomalies, graphs, runs, enabled, env>>

(* No device of an open case is above it, NetBox does not say, or it raised. *)
NotCorrelated(r, s) ==
  /\ LoopFree /\ tasks[r].at = "asking"
  /\ tasks' = Answered(r)
  /\ Create(s, 3)
  /\ UNCHANGED <<anomalies, runs, enabled, env>>

(* trigger_diagnosis_action: rerun_pipeline asks nobody. *)
Manual(s) ==
  /\ LoopFree /\ samples[s].state = "stored" /\ Happens("manual")
  /\ \E steps \in 1 .. 3 : Create(s, steps)
  /\ UNCHANGED <<anomalies, runs, tasks, enabled>>

-----------------------------------------------------------------------------
(* The environment. *)

CaseElsewhere(d) ==
  /\ LoopFree /\ Happens("elsewhere")
  /\ cases' = Append(cases, [sample |-> Elsewhere, device |-> d, open |-> TRUE, derived |-> {}])
  /\ UNCHANGED <<samples, anomalies, graphs, runs, tasks, enabled>>

CloseCase(c) ==
  /\ LoopFree /\ cases[c].open /\ Happens("close")
  /\ cases' = [cases EXCEPT ![c].open = FALSE]
  /\ UNCHANGED <<samples, anomalies, graphs, runs, tasks, enabled>>

Toggle ==
  /\ LoopFree /\ Happens("toggle")
  /\ enabled' = ~enabled
  /\ UNCHANGED <<samples, anomalies, cases, graphs, runs, tasks>>

(* Runs and tasks live in the process only. *)
Crash ==
  /\ Happens("crash")
  /\ samples' = [s \in SampleIds |-> IF samples[s].state = "pending" THEN NoSample ELSE samples[s]]
  /\ runs' = [r \in Runs |-> IF runs[r].at \in {"elk", "netbox"}
                             THEN [IdleRun EXCEPT !.at = "failed"] ELSE runs[r]]
  /\ tasks' = [r \in Runs |-> IdleTask]
  /\ UNCHANGED <<anomalies, cases, graphs, enabled>>

RunStep(r) ==
  \/ Fetched(r)
  \/ runs[r].todo # {} /\ \E known \in Known[Due(r)] :
       Write(r, known) \/ WriteAnomaly(r, known)
TaskStep(r) ==
  \/ Spawned(r) \/ Ended(r)
  \/ \E s \in tasks[r].queue : Skip(r, s) \/ CreateAlone(r, s) \/ Ask(r, s)
  \/ \E s \in tasks[r].asked : Correlate(r, s) \/ NotCorrelated(r, s)

Next ==
  \/ \E r \in Runs :
       \/ Start(r) \/ RunStep(r) \/ TaskStep(r)
       \/ FetchFailed(r) \/ WriteFailed(r)
       \/ WriteBroken(r)
       \/ \E s \in tasks[r].queue : CreateRaised(r, s)
  \/ \E s \in SampleIds : Manual(s)
  \/ \E d \in Devices : CaseElsewhere(d)
  \/ \E c \in DOMAIN cases : CloseCase(c)
  \/ Toggle \/ Crash

(* ELK and NetBox answer or time out, and the loop runs what is ready. *)
Fairness == \A r \in Runs : WF_vars(RunStep(r)) /\ WF_vars(TaskStep(r))

Spec == Init /\ [][Next]_vars /\ Fairness

-----------------------------------------------------------------------------
(* Properties. *)

(* However often and by whomever a case is asked for, a sample has one case of
   its own, and only samples that were committed have one. *)
OneCasePerSample ==
  /\ \A c, b \in DOMAIN cases :
       cases[c].sample = cases[b].sample => c = b \/ cases[c].sample = Elsewhere
  /\ \A s \in SampleIds : OwnCases(s) # {} => samples[s].state = "stored"

(* The case a sample names and the state of its event agree with what the case
   says: it is the sample's own, or it holds the sample as derivative evidence. *)
CaseBacksSample ==
  \A s \in SampleIds : samples[s].case # 0 =>
    LET c == cases[samples[s].case] IN
    \/ c.sample = s /\ samples[s].event = "case_created"
    \/ s \in c.derived /\ samples[s].event = "correlated"

(* Unless the process died or a step raised, a committed sample that asks for a
   case gets one, or is merged into one, once its run has finished. *)
HandedOver ==
  \A s \in SampleIds :
    (samples[s].state = "stored" /\ samples[s].create /\ runs[s[1]].at = "done")
      ~> (samples[s].case # 0 \/ env["crash"] + env["fail"] > 0)
=============================================================================
