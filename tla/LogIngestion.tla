---------------------------- MODULE LogIngestion ----------------------------
(***************************************************************************)
(* ELK ingestion (ingestion/worker.py): workers take the log scope that      *)
(* succeeded longest ago under a lease, read one page of documents behind    *)
(* its cursor, and in one transaction count the documents into buckets, move *)
(* the cursor and free the lease; then one bucket that reached its threshold *)
(* becomes a case.                                                          *)
(*                                                                         *)
(* A document is its place in the order by timestamp and document id, so a   *)
(* cursor is a number; a bucket (scope, window, device, signature) is its    *)
(* place in the order of emission.  The store shows a document when it has   *)
(* indexed it, which need not be in that order.                              *)
(***************************************************************************)
EXTENDS Integers, FiniteSets, FiniteSetsExt, Sequences, SequencesExt

CONSTANTS
  Workers, Nobody,
  Scopes,        \* the enabled log scopes
  ScopeOrder,    \* the scopes by sort_order
  Broken,        \* the scopes whose reads always raise
  Docs,          \* the documents there will be: 1 .. n
  ScopeOf, BucketOf, SeverityOf,   \* of a document
  Early,         \* the documents indexed before the workers start
  PageSize,      \* settings.elk_ingestion_page_size
  MinSeverity,   \* settings.agent_auto_trigger_min_severity, as a rank
  MaxEnv         \* bounds: how often the environment does what, by kind

EnvKinds   == {"crash", "stall", "fault"}
Severities == {"critical", "warning", "info"}
Buckets    == {BucketOf[d] : d \in Docs}

ASSUME IngestionAssumption ==
  /\ Docs \subseteq Nat \ {0} /\ IsFiniteSet(Docs)
  /\ ScopeOf \in [Docs -> Scopes] /\ SeverityOf \in [Docs -> Severities]
  /\ Buckets \subseteq Nat \ {0}
  /\ Broken \subseteq Scopes /\ ScopeOrder \in Seq(Scopes)
  /\ ToSet(ScopeOrder) = Scopes /\ IsInjective(ScopeOrder)
  /\ Early \subseteq Docs
  /\ PageSize \in Nat \ {0}
  /\ Nobody \notin Workers
  /\ MaxEnv \in [EnvKinds -> Nat]

VARIABLES
  visible,      \* the documents the store has indexed
  late,         \* history: those indexed behind a cursor that had passed them
  order,        \* the scopes by last_success_at, those that never had one first
  checkpoints,  \* ingestion_checkpoint, by scope
  ingested,     \* ingested_log_event
  buckets,      \* log_aggregation_bucket; severity "none" when there is no row
  cases,        \* the buckets whose source event and case exist
  graphs,       \* the buckets whose case was put in the diagnostic graph
  workers,      \* what each worker is doing
  env           \* how often the environment has acted, by kind

vars == <<visible, late, order, checkpoints, ingested, buckets, cases, graphs, workers, env>>

Checkpoint == [cursor : Docs \cup {0}, lease : {"none", "live", "over"},
               owner : Workers \cup {Nobody}]
Bucket == [count : Nat, severity : Severities \cup {"none"}, emitted : BOOLEAN]
Worker == [at : {"idle", "reading", "paged", "emitting", "created", "triggering"},
           scope : Scopes, base : Docs \cup {0}, page : SUBSET Docs, bucket : Buckets \cup {0}]
Resting == [at |-> "idle", scope |-> ScopeOrder[1], base |-> 0, page |-> {}, bucket |-> 0]

TypeOK ==
  /\ visible \subseteq Docs /\ late \subseteq visible /\ ingested \subseteq visible
  /\ order \in [1 .. Len(ScopeOrder) -> Scopes] /\ ToSet(order) = Scopes
  /\ checkpoints \in [Scopes -> Checkpoint]
  /\ buckets \in [Buckets -> Bucket]
  /\ cases \subseteq Buckets /\ graphs \subseteq cases
  /\ workers \in [Workers -> Worker]
  /\ env \in [EnvKinds -> Nat]

Init ==
  /\ visible = Early /\ late = {} /\ ingested = {} /\ cases = {} /\ graphs = {}
  /\ order = ScopeOrder
  /\ checkpoints = [s \in Scopes |-> [cursor |-> 0, lease |-> "none", owner |-> Nobody]]
  /\ buckets = [b \in Buckets |-> [count |-> 0, severity |-> "none", emitted |-> FALSE]]
  /\ workers = [w \in Workers |-> Resting]
  /\ env = [k \in EnvKinds |-> 0]

Happens(kind) == env[kind] < MaxEnv[kind] /\ env' = [env EXCEPT ![kind] = @ + 1]
Goes(w, at)   == workers' = [workers EXCEPT ![w].at = at]
Rests(w)      == workers' = [workers EXCEPT ![w] = Resting]

-----------------------------------------------------------------------------
(* Checkpoints. *)

Held(s, w) == checkpoints[s].lease = "live" /\ checkpoints[s].owner # w
Released(s, cursor) == [checkpoints EXCEPT ![s] = [cursor |-> cursor, lease |-> "none", owner |-> Nobody]]

(* For a mutant: the scopes are asked in the order of the administrator's list. *)
ClaimSorted(w) ==
  /\ workers[w].at = "idle"
  /\ \E i \in DOMAIN ScopeOrder :
       /\ ~Held(ScopeOrder[i], w) /\ \A j \in 1 .. i - 1 : Held(ScopeOrder[j], w)
       /\ checkpoints' = [checkpoints EXCEPT ![ScopeOrder[i]].lease = "live", ![ScopeOrder[i]].owner = w]
       /\ workers' = [workers EXCEPT ![w].at = "reading", ![w].scope = ScopeOrder[i],
                                     ![w].base = checkpoints[ScopeOrder[i]].cursor]
  /\ UNCHANGED <<visible, late, order, ingested, buckets, cases, graphs, env>>

(* The first scope in order whose lease can be had. *)
ClaimScope(w) ==
  /\ workers[w].at = "idle"
  /\ \E i \in DOMAIN order :
       /\ ~Held(order[i], w) /\ \A j \in 1 .. i - 1 : Held(order[j], w)
       /\ checkpoints' = [checkpoints EXCEPT ![order[i]].lease = "live", ![order[i]].owner = w]
       /\ workers' = [workers EXCEPT ![w].at = "reading", ![w].scope = order[i],
                                     ![w].base = checkpoints[order[i]].cursor]
  /\ UNCHANGED <<visible, late, order, ingested, buckets, cases, graphs, env>>

(* Every scope is held by another worker: only emission is left to do. *)
ClaimNothing(w) ==
  /\ workers[w].at = "idle"
  /\ \A s \in Scopes : Held(s, w)
  /\ Goes(w, "emitting")
  /\ UNCHANGED <<visible, late, order, checkpoints, ingested, buckets, cases, graphs, env>>

(* The first PageSize documents behind the cursor, in order. *)
PageAfter(s, cursor) ==
  LET behind == {d \in visible : ScopeOf[d] = s /\ d > cursor} IN
  {d \in behind : Cardinality({e \in behind : e < d}) < PageSize}

ReadPage(w) ==
  /\ workers[w].at = "reading" /\ workers[w].scope \notin Broken
  /\ workers' = [workers EXCEPT ![w].at = "paged",
                                ![w].page = PageAfter(workers[w].scope, workers[w].base)]
  /\ UNCHANGED <<visible, late, order, checkpoints, ingested, buckets, cases, graphs, env>>

(* The read raises: the lease is freed, whoever holds it, and there is no
   emission this time. *)
ReadFails(w) ==
  LET s == workers[w].scope IN
  /\ workers[w].at = "reading"
  /\ IF s \in Broken THEN UNCHANGED env ELSE Happens("fault")
  /\ checkpoints' = Released(s, checkpoints[s].cursor)
  /\ Rests(w)
  /\ UNCHANGED <<visible, late, order, ingested, buckets, cases, graphs>>

-----------------------------------------------------------------------------
(* Aggregation. *)

Threshold(severity) ==
  CASE severity = "critical" -> 1 [] severity = "warning" -> 3 [] OTHER -> 10

(* A new bucket takes the severity of its first document and keeps it. *)
Counted(b, fresh) ==
  LET mine == {d \in fresh : BucketOf[d] = b} IN
  IF mine = {} THEN buckets[b]
  ELSE [buckets[b] EXCEPT !.count = @ + Cardinality(mine),
                          !.severity = IF @ = "none" THEN SeverityOf[Min(mine)] ELSE @]

(* decision = "emit": set when the count reaches the threshold, never unset. *)
Emits(b) == buckets[b].severity # "none" /\ buckets[b].count >= Threshold(buckets[b].severity)

LeaseLost(w) == Held(workers[w].scope, w)
LastServed(s) == Append(RemoveAt(order, CHOOSE i \in DOMAIN order : order[i] = s), s)
AnyBase(w)   == workers[w].base >= 0    \* for a mutant: the cursor is not looked at again
AtBase(w)    == checkpoints[workers[w].scope].cursor = workers[w].base

(* Another worker has the lease: the exception leaves run_once. *)
IngestRefused(w) ==
  /\ workers[w].at = "paged" /\ LeaseLost(w)
  /\ Rests(w)
  /\ UNCHANGED <<visible, late, order, checkpoints, ingested, buckets, cases, graphs, env>>

(* Another worker has moved the cursor: the lease is freed and the page dropped. *)
IngestStale(w) ==
  LET s == workers[w].scope IN
  /\ workers[w].at = "paged" /\ ~LeaseLost(w) /\ ~AtBase(w)
  /\ checkpoints' = Released(s, checkpoints[s].cursor)
  /\ Rests(w)
  /\ UNCHANGED <<visible, late, order, ingested, buckets, cases, graphs, env>>

(* For a mutant: the page moves the cursor, and its documents come later. *)
CursorFirst(w) ==
  LET s == workers[w].scope IN
  /\ workers[w].at = "paged" /\ ~LeaseLost(w) /\ AtBase(w)
  /\ ingested' = ingested \cup {d \in workers[w].page : d # Max(workers[w].page)}
  /\ checkpoints' = Released(s, Max(workers[w].page \cup {checkpoints[s].cursor}))
  /\ Goes(w, "emitting")
  /\ UNCHANGED <<visible, late, order, buckets, cases, graphs, env>>

Ingest(w) ==
  LET s     == workers[w].scope
      fresh == workers[w].page \ ingested IN
  /\ workers[w].at = "paged" /\ ~LeaseLost(w) /\ AtBase(w)
  /\ ingested' = ingested \cup fresh
  /\ buckets' = [b \in Buckets |-> Counted(b, fresh)]
  /\ checkpoints' = Released(s, IF workers[w].page = {} THEN checkpoints[s].cursor
                                                         ELSE Max(workers[w].page))
  /\ order' = LastServed(s)
  /\ Goes(w, "emitting")
  /\ UNCHANGED <<visible, late, cases, graphs, env>>

-----------------------------------------------------------------------------
(* Emission: one bucket a time. *)

(* For a mutant: a bucket whose case exists is taken for emitted. *)
PendingNew == {b \in Buckets : Emits(b) /\ ~buckets[b].emitted /\ b \notin cases}
Pending == {b \in Buckets : Emits(b) /\ ~buckets[b].emitted}

EmitNothing(w) ==
  /\ workers[w].at = "emitting" /\ Pending = {}
  /\ Rests(w)
  /\ UNCHANGED <<visible, late, order, checkpoints, ingested, buckets, cases, graphs, env>>

(* For a mutant: the bucket says so first. *)
EmitMarked(w) ==
  /\ workers[w].at = "emitting" /\ Pending # {}
  /\ buckets' = [buckets EXCEPT ![Min(Pending)].emitted = TRUE]
  /\ workers' = [workers EXCEPT ![w].at = "created", ![w].bucket = Min(Pending)]
  /\ UNCHANGED <<visible, late, order, checkpoints, ingested, cases, graphs, env>>

(* intake_case commits the new source event and case, and with them gives up
   the lock on the bucket before the bucket says so. *)
EmitCase(w) ==
  /\ workers[w].at = "emitting" /\ Pending # {}
  /\ cases' = cases \cup {Min(Pending)}
  /\ workers' = [workers EXCEPT ![w].at = "created", ![w].bucket = Min(Pending)]
  /\ UNCHANGED <<visible, late, order, checkpoints, ingested, buckets, graphs, env>>

EmitDone(w) ==
  /\ workers[w].at = "created"
  /\ buckets' = [buckets EXCEPT ![workers[w].bucket].emitted = TRUE]
  /\ Goes(w, "triggering")
  /\ UNCHANGED <<visible, late, order, checkpoints, ingested, cases, graphs, env>>

(* The columns of case_record _maybe_auto_trigger could ask for. *)
CaseColumns == {"case_code", "title", "summary", "priority", "risk_level", "status", "current_phase"}

Rank(severity) == CASE severity = "critical" -> 5 [] severity = "warning" -> 2 [] OTHER -> 1

(* The rank of the case's severity decides, but the case has no such column:
   the AttributeError leaves run_once. *)
Trigger(w) ==
  LET b == workers[w].bucket IN
  /\ workers[w].at = "triggering"
  /\ graphs' = IF "severity" \in CaseColumns /\ Rank(buckets[b].severity) >= MinSeverity
                 THEN graphs \cup {b} ELSE graphs
  /\ Rests(w)
  /\ UNCHANGED <<visible, late, order, checkpoints, ingested, buckets, cases, env>>

-----------------------------------------------------------------------------
(* The environment. *)

Arrive(d) ==
  /\ d \notin visible
  /\ visible' = visible \cup {d}
  /\ late' = IF \/ d <= checkpoints[ScopeOf[d]].cursor
                \/ \E w \in Workers : workers[w].at = "paged" /\ workers[w].page # {}
                                      /\ workers[w].scope = ScopeOf[d] /\ d < Max(workers[w].page)
               THEN late \cup {d} ELSE late
  /\ UNCHANGED <<order, checkpoints, ingested, buckets, cases, graphs, workers, env>>

(* The process restarts under another pid: its leases are nobody's now. *)
Crash(w) ==
  /\ Happens("crash")
  /\ workers[w].at # "idle"
  /\ Rests(w)
  /\ checkpoints' = [s \in Scopes |-> IF checkpoints[s].owner = w
                                        THEN [checkpoints[s] EXCEPT !.owner = Nobody]
                                        ELSE checkpoints[s]]
  /\ UNCHANGED <<visible, late, order, ingested, buckets, cases, graphs>>

LeaseExpires(s) ==
  /\ checkpoints[s].lease = "live"
  /\ IF checkpoints[s].owner = Nobody THEN UNCHANGED env ELSE Happens("stall")
  /\ checkpoints' = [checkpoints EXCEPT ![s].lease = "over"]
  /\ UNCHANGED <<visible, late, order, ingested, buckets, cases, graphs, workers>>

Step(w) ==
  \/ ClaimScope(w) \/ ClaimNothing(w) \/ ReadPage(w) \/ ReadFails(w)
  \/ IngestRefused(w) \/ IngestStale(w) \/ Ingest(w)
  \/ EmitNothing(w) \/ EmitCase(w) \/ EmitDone(w) \/ Trigger(w)

Next ==
  \/ \E w \in Workers : Step(w) \/ Crash(w)
  \/ \E d \in Docs : Arrive(d)
  \/ \E s \in Scopes : LeaseExpires(s)

Spec == Init /\ [][Next]_vars

(* The runtime worker calls run_once for ever, and leases run out. *)
FairSpec ==
  /\ Spec
  /\ \A w \in Workers : WF_vars(Step(w))
  /\ \A s \in Scopes : WF_vars(LeaseExpires(s) /\ checkpoints[s].owner = Nobody)

-----------------------------------------------------------------------------
(* Properties. *)

(* No gap: what the cursor has passed was ingested, unless the store indexed
   it after the cursor (or the page that moves it) had passed. *)
NoGap ==
  \A d \in visible : d <= checkpoints[ScopeOf[d]].cursor => d \in ingested \cup late

(* A worker that stalled, lost its lease and comes back with its old page never
   moves a cursor back. *)
CursorForward ==
  [][\A s \in Scopes : checkpoints[s].cursor <= checkpoints'[s].cursor]_vars

(* A bucket that says it was emitted has its case; the count is the number of
   documents that went into it, however often a page was read. *)
BucketsTrue ==
  \A b \in Buckets :
    /\ buckets[b].emitted => b \in cases
    /\ buckets[b].count = Cardinality({d \in ingested : BucketOf[d] = b})

(* Every document that is not late is ingested in the end. *)
DocumentsIngested == \A d \in Docs : d \in visible \ late ~> d \in ingested \cup late

(* Every bucket that reaches its threshold becomes a case in the end. *)
BucketsEmitted == \A b \in Buckets : Emits(b) ~> buckets[b].emitted

=============================================================================
