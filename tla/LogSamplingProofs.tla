-------------------------- MODULE LogSamplingProofs --------------------------
(* Proofs about LogSampling, for every number of runs, every set of devices and
   batches, every policy, and every bound. *)
EXTENDS LogSampling, SequenceTheorems, FiniteSetTheorems, TLAPS

-----------------------------------------------------------------------------
(* Least and greatest elements.                                            *)

(* A set of naturals has a least element: the intervals below its elements are
   finite, and strict inclusion of finite sets is well-founded. *)
LEMMA LeastOf ==
  ASSUME NEW S \in SUBSET Nat, S # {}
  PROVE  Min(S) \in S /\ \A x \in S : Min(S) <= x
<1> DEFINE below == {0 .. x : x \in S}
<1>1. below \subseteq FiniteSubsetsOf(Nat) /\ below # {}
  <2>1. ASSUME NEW x \in S
        PROVE  0 .. x \in FiniteSubsetsOf(Nat)
    <3>1. x \in Nat /\ 0 \in Int /\ x \in Int
      OBVIOUS
    <3>2. IsFiniteSet(0 .. x) /\ 0 .. x \in SUBSET Nat
      BY <3>1, FS_Interval
    <3> QED BY <3>1, <3>2 DEF FiniteSubsetsOf
  <2> QED BY <2>1
<1>2. IsWellFoundedOn(StrictSubsetOrdering(Nat), FiniteSubsetsOf(Nat))
  BY FS_StrictSubsetOrderingWellFounded
<1> HIDE DEF below
<1>3. PICK least \in below : \A b \in below : ~ (<<b, least>> \in StrictSubsetOrdering(Nat))
  BY <1>1, <1>2, WFMin
<1> USE DEF below
<1>4. PICK m \in S : least = 0 .. m
  BY <1>3
<1>5. ASSUME NEW x \in S, x < m
      PROVE  FALSE
  <2>1. 0 .. x \subseteq 0 .. m /\ 0 .. x # 0 .. m /\ 0 .. m \subseteq Nat
    BY <1>5
  <2>2. <<0 .. x, 0 .. m>> \in StrictSubsetOrdering(Nat)
    BY <2>1 DEF StrictSubsetOrdering
  <2> QED BY <1>3, <1>4, <2>2
<1>6. \A x \in S : m <= x
  BY <1>5
<1> QED BY <1>6 DEF Min

(* A bounded set of naturals has a greatest one: what it lacks of the bound is
   least. *)
LEMMA GreatestOf ==
  ASSUME NEW n \in Nat, NEW S \in SUBSET (1 .. n), S # {}
  PROVE  Max(S) \in S /\ \A x \in S : x <= Max(S)
<1> DEFINE lacks == {n - x : x \in S}
<1>1. lacks \in SUBSET Nat /\ lacks # {}
  <2>1. ASSUME NEW x \in S
        PROVE  n - x \in Nat
    <3>1. x \in 1 .. n
      OBVIOUS
    <3> QED BY <3>1
  <2> QED BY <2>1
<1>2. PICK k \in lacks : \A l \in lacks : k <= l
  <2> HIDE DEF lacks
  <2> QED BY <1>1, LeastOf
<1>3. PICK m \in S : k = n - m
  BY <1>2
<1>4. \A x \in S : m >= x
  <2>1. ASSUME NEW x \in S
        PROVE  m >= x
    <3>1. n - m <= n - x
      BY <1>2, <1>3
    <3> QED BY <3>1
  <2> QED BY <2>1
<1> QED BY <1>4 DEF Max

-----------------------------------------------------------------------------
(* What holds of runs and tasks.                                           *)

(* What a sample's row is made of; how long its log is and which fingerprint it
   has make no difference here. *)
SampleLike(x) ==
  x = [state |-> x.state, abnormal |-> x.abnormal, create |-> x.create, known |-> x.known,
       fp |-> x.fp, size |-> x.size, case |-> x.case, event |-> x.event]

SamplesTyped ==
  /\ samples = [s \in SampleIds |-> samples[s]]
  /\ \A s \in SampleIds : SampleLike(samples[s])

Typed ==
  /\ SamplesTyped
  /\ cases \in Seq(Case)
  /\ runs \in [Runs -> Run]
  /\ tasks \in [Runs -> Task]

StoredIds == {s \in SampleIds : samples[s].state = "stored"}

(* A run writes each sample once: those it has not come to are not there. *)
RunsAhead ==
  \A r \in Runs :
    /\ runs[r].at \in {"idle", "elk"} => \A d \in Devices : samples[<<r, d>>].state = "none"
    /\ runs[r].at = "netbox" =>
         /\ runs[r].batch \in Batches
         /\ runs[r].todo # {} /\ runs[r].todo \subseteq Logged(runs[r].batch)
         /\ \A d \in runs[r].todo : samples[<<r, d>>].state = "none"

(* A task only works on samples that were committed, and only knows of cases
   that are there, at devices NetBox knows. *)
TasksBehind ==
  \A r \in Runs :
    /\ tasks[r].queue \subseteq SampleIds
    /\ tasks[r].at \in {"working", "asking"} => tasks[r].queue \subseteq StoredIds
    /\ tasks[r].asked \subseteq StoredIds
    /\ tasks[r].parents \subseteq {c \in DOMAIN cases : cases[c].device \in Devices}

(* A case of its own, or a case that holds it. *)
Backs(s, c, event) ==
  /\ c \in DOMAIN cases
  /\ \/ cases[c].sample = s /\ event = "case_created"
     \/ s \in cases[c].derived /\ event = "correlated"
Backed == \A s \in SampleIds : samples[s].case # 0 => Backs(s, samples[s].case, samples[s].event)

SamplingInv == Typed /\ RunsAhead /\ TasksBehind /\ Backed /\ OneCasePerSample

(* The cases only grow, and those of samples stay one to each. *)
Grown ==
  /\ cases' \in Seq(Case)
  /\ DOMAIN cases \subseteq DOMAIN cases'
  /\ \A c \in DOMAIN cases : /\ cases'[c].sample = cases[c].sample
                             /\ cases'[c].device = cases[c].device
                             /\ cases[c].derived \subseteq cases'[c].derived

(* A committed sample stays, and a link is the one that was there or none. *)
Softly ==
  /\ samples' = [s \in SampleIds |-> samples'[s]]
  /\ \A s \in SampleIds :
       /\ SampleLike(samples'[s])
       /\ samples[s].state = "stored" => samples'[s].state = "stored"
       /\ samples'[s].case = 0 \/ /\ samples'[s].case = samples[s].case
                                  /\ samples'[s].event = samples[s].event

LEMMA BacksStays ==
  ASSUME Grown, NEW s, NEW c, NEW event, Backs(s, c, event)
  PROVE  Backs(s, c, event)'
BY DEF Grown, Backs

LEMMA SoftlyBacked ==
  ASSUME SamplingInv, Softly, Grown
  PROVE  SamplesTyped' /\ Backed'
<1>1. SamplesTyped'
  BY DEF Softly, SamplesTyped
<1>2. ASSUME NEW s \in SampleIds, NEW c, NEW event,
             c = samples'[s].case, event = samples'[s].event, c # 0
      PROVE  Backs(s, c, event)'
  <2>1. c = samples[s].case /\ event = samples[s].event
    BY <1>2 DEF Softly
  <2>2. Backs(s, c, event)
    BY <1>2, <2>1 DEF SamplingInv, Backed
  <2> QED BY <2>2, BacksStays
<1>3. Backed'
  BY <1>2 DEF Backed, Backs
<1> QED BY <1>1, <1>3

(* Nothing is filed: a sample with a case stays committed. *)
LEMMA SameCasesFiled ==
  ASSUME OneCasePerSample, DOMAIN cases' = DOMAIN cases,
         \A c \in DOMAIN cases : cases'[c].sample = cases[c].sample,
         \A s \in SampleIds : samples[s].state = "stored" => samples'[s].state = "stored"
  PROVE  OneCasePerSample'
<1>1. ASSUME NEW c \in DOMAIN cases', NEW b \in DOMAIN cases', cases'[c].sample = cases'[b].sample
      PROVE  c = b \/ cases'[c].sample = Elsewhere
  BY <1>1 DEF OneCasePerSample
<1>2. ASSUME NEW s \in SampleIds, OwnCases(s)' # {}
      PROVE  samples'[s].state = "stored"
  <2>1. OwnCases(s) # {}
    BY <1>2 DEF OwnCases
  <2> QED BY <2>1 DEF OneCasePerSample
<1> QED BY <1>1, <1>2 DEF OneCasePerSample

LEMMA TasksStay ==
  ASSUME SamplingInv, Grown, UNCHANGED tasks,
         \A s \in SampleIds : samples[s].state = "stored" => samples'[s].state = "stored"
  PROVE  TasksBehind'
<1>1. StoredIds \subseteq StoredIds'
  BY DEF StoredIds
<1>2. {c \in DOMAIN cases : cases[c].device \in Devices}
        \subseteq {c \in DOMAIN cases' : cases'[c].device \in Devices}
  BY DEF Grown
<1> QED BY <1>1, <1>2 DEF SamplingInv, TasksBehind

(* One task goes from its row to the next; the samples and cases only grow. *)
LEMMA TaskStays ==
  ASSUME SamplingInv, Grown, NEW r \in Runs, NEW t \in Task, tasks' = [tasks EXCEPT ![r] = t],
         \A s \in SampleIds : samples[s].state = "stored" => samples'[s].state = "stored",
         t.queue \subseteq SampleIds,
         t.at \in {"working", "asking"} => t.queue \subseteq StoredIds,
         t.asked \subseteq StoredIds,
         t.parents \subseteq {c \in DOMAIN cases : cases[c].device \in Devices}
  PROVE  tasks' \in [Runs -> Task] /\ TasksBehind'
<1>1. StoredIds \subseteq StoredIds'
  BY DEF StoredIds
<1>2. {c \in DOMAIN cases : cases[c].device \in Devices}
        \subseteq {c \in DOMAIN cases' : cases'[c].device \in Devices}
  BY DEF Grown
<1>3. tasks \in [Runs -> Task]
  BY DEF SamplingInv, Typed
<1>4. tasks' \in [Runs -> Task]
  BY <1>3
<1>5. ASSUME NEW q \in Runs
      PROVE  /\ tasks'[q].queue \subseteq SampleIds
             /\ tasks'[q].at \in {"working", "asking"} => tasks'[q].queue \subseteq StoredIds'
             /\ tasks'[q].asked \subseteq StoredIds'
             /\ tasks'[q].parents \subseteq {c \in DOMAIN cases' : cases'[c].device \in Devices}
  <2>1. CASE q = r
    <3>1. tasks'[q] = t
      BY <1>3, <2>1
    <3> QED BY <1>1, <1>2, <3>1
  <2>2. CASE q # r
    <3>1. tasks'[q] = tasks[q]
      BY <1>3, <2>2
    <3>2. TasksBehind
      BY DEF SamplingInv
    <3> QED BY <1>1, <1>2, <3>1, <3>2 DEF TasksBehind
  <2> QED BY <2>1, <2>2
<1> QED BY <1>4, <1>5 DEF TasksBehind

-----------------------------------------------------------------------------
(* What a run does.                                                        *)

LEMMA ElsewhereIsNoSample == Elsewhere \notin SampleIds /\ \A r \in Runs : r # 0
<1>1. Cardinality(Runs) \in Nat /\ Runs = 1 .. Cardinality(Runs)
  BY SamplingAssumption, FS_CardinalityType
<1>2. 0 \notin Runs
  BY <1>1
<1> QED BY <1>2 DEF Elsewhere, SampleIds

LEMMA LoggedDevices ==
  ASSUME NEW batch \in Batches
  PROVE  /\ Logged(batch) \subseteq Devices
         /\ batch # <<>> => Logged(batch) # {}
         /\ batch \in Seq(Line)
         /\ \A d \in Logged(batch) : First[batch][d] \in Nat
<1>1. batch \in Seq(Line)
  BY SamplingAssumption
<1>2. Logged(batch) \subseteq Devices
  BY DEF Logged
<1>3. ASSUME batch # <<>>
      PROVE  Logged(batch) # {}
  <2>1. 1 \in DOMAIN batch /\ batch[1] \in Line
    BY <1>1, <1>3, EmptySeq
  <2>2. batch[1].device \in Devices
    BY <2>1 DEF Line
  <2> QED BY <2>1, <2>2 DEF Logged
<1>4. ASSUME NEW d \in Logged(batch)
      PROVE  First[batch][d] \in Nat
  <2> DEFINE own == {i \in DOMAIN batch : batch[i].device = d}
  <2>1. own \in SUBSET Nat
    BY <1>1
  <2>2. own # {}
    BY DEF Logged
  <2>3. Min(own) \in Nat
    <3> HIDE DEF own
    <3> QED BY <2>1, <2>2, LeastOf
  <2> QED BY <2>3 DEF First
<1> QED BY <1>1, <1>2, <1>3, <1>4

(* A run that waits for NetBox has a device it waits for. *)
LEMMA DueIsOneOfThem ==
  ASSUME SamplingInv, NEW r \in Runs, runs[r].at = "netbox"
  PROVE  /\ Due(r) \in runs[r].todo /\ Due(r) \in Devices
         /\ samples[<<r, Due(r)>>].state = "none" /\ <<r, Due(r)>> \in SampleIds
<1> DEFINE batch == runs[r].batch
           todo == runs[r].todo
           firsts == {First[batch][d] : d \in todo}
<1>1. /\ batch \in Batches /\ todo # {} /\ todo \subseteq Logged(batch)
      /\ \A d \in todo : samples[<<r, d>>].state = "none"
  BY DEF SamplingInv, RunsAhead
<1>2. firsts \in SUBSET Nat /\ firsts # {}
  BY <1>1, LoggedDevices
<1>3. Min(firsts) \in firsts /\ \A x \in firsts : Min(firsts) <= x
  <2> HIDE DEF firsts
  <2> QED BY <1>2, LeastOf
<1>4. PICK d \in todo : First[batch][d] = Min(firsts)
  BY <1>3
<1>5. \A e \in todo : First[batch][d] <= First[batch][e]
  BY <1>3, <1>4
<1>6. Due(r) \in todo
  BY <1>5 DEF Due
<1> QED BY <1>1, <1>6, LoggedDevices DEF SampleIds

(* A commit or a rollback within a run touches the run's own samples, the one it
   writes and those before it. *)
LEMMA SettledSoftly ==
  ASSUME SamplingInv, NEW r \in Runs, runs[r].at = "netbox", NEW became, NEW row,
         SampleLike(row), row.state = "pending", row.case = 0,
         samples' = Settled(r, row, became)
  PROVE  /\ Softly
         /\ \A q \in Runs, d \in Devices :
              samples[<<q, d>>].state = "none" =>
                (<<q, d>> = <<r, Due(r)>> \/ samples'[<<q, d>>].state = "none")
<1> DEFINE written == <<r, Due(r)>>
<1>1. written \in SampleIds /\ samples[written].state = "none"
  BY DueIsOneOfThem
<1> HIDE DEF written
<1>2. PICK Now : \A s \in SampleIds : Now[s] = IF s = written THEN row ELSE samples[s]
  <2>1. \A s \in SampleIds : [s2 \in SampleIds |-> IF s2 = written THEN row ELSE samples[s2]][s]
                               = IF s = written THEN row ELSE samples[s]
    OBVIOUS
  <2> QED BY <2>1
<1>3. samples' = [s \in SampleIds |->
         IF s[1] = r /\ Now[s].state = "pending"
         THEN IF became = "stored" THEN [Now[s] EXCEPT !.state = "stored"]
              ELSE IF became = "lost" THEN NoSample ELSE Now[s]
         ELSE Now[s]]
  BY <1>2 DEF Settled, written
<1>4. \A s \in SampleIds : SampleLike(Now[s])
  BY <1>2 DEF SamplingInv, Typed, SamplesTyped
<1>5. SampleLike(NoSample) /\ NoSample.case = 0 /\ NoSample.state = "none"
  BY DEF SampleLike, NoSample
<1>6. ASSUME NEW s \in SampleIds
      PROVE  /\ SampleLike(samples'[s])
             /\ samples[s].state = "stored" => samples'[s].state = "stored"
             /\ samples'[s].case = 0 \/ /\ samples'[s].case = samples[s].case
                                        /\ samples'[s].event = samples[s].event
             /\ samples[s].state = "none" => s = written \/ samples'[s].state = "none"
  <2>1. PICK now : now = Now[s] /\ SampleLike(now)
    BY <1>4
  <2>2. PICK kept : kept = [now EXCEPT !.state = "stored"]
    OBVIOUS
  <2>3. /\ SampleLike(kept) /\ kept.state = "stored" /\ kept.case = now.case
        /\ kept.event = now.event
    BY <2>1, <2>2 DEF SampleLike
  <2>4. \/ samples'[s] = now
        \/ now.state = "pending" /\ (samples'[s] = kept \/ samples'[s] = NoSample)
    BY <1>3, <2>1, <2>2
  <2>5. CASE s = written
    <3>1. now = row
      BY <1>2, <2>1, <2>5
    <3> QED BY <1>1, <1>5, <2>1, <2>3, <2>4, <2>5, <3>1
  <2>6. CASE s # written
    <3>1. now = samples[s]
      BY <1>2, <2>1, <2>6
    <3> QED BY <1>5, <2>1, <2>3, <2>4, <3>1
  <2> QED BY <2>5, <2>6
<1>7. samples' = [s \in SampleIds |-> samples'[s]]
  BY <1>3
<1> QED BY <1>6, <1>7 DEF Softly, SampleIds, written

LEMMA SampledRow ==
  ASSUME NEW r, NEW known
  PROVE  /\ SampleLike(Sampled(r, known))
         /\ Sampled(r, known).state = "pending" /\ Sampled(r, known).case = 0
BY DEF Sampled, SampleLike

(* The samples the other runs have not come to are not touched. *)
LEMMA RunMoves ==
  ASSUME SamplingInv, NEW r \in Runs, NEW row \in Run, runs' = [runs EXCEPT ![r] = row],
         \A q \in Runs \ {r}, d \in Devices :
            samples[<<q, d>>].state = "none" => samples'[<<q, d>>].state = "none",
         row.at \in {"idle", "elk"} => \A d \in Devices : samples'[<<r, d>>].state = "none",
         row.at = "netbox" =>
           /\ row.batch \in Batches
           /\ row.todo # {} /\ row.todo \subseteq Logged(row.batch)
           /\ \A d \in row.todo : samples'[<<r, d>>].state = "none"
  PROVE  runs' \in [Runs -> Run] /\ RunsAhead'
<1>1. runs \in [Runs -> Run] /\ RunsAhead
  BY DEF SamplingInv, Typed
<1>2. runs' \in [Runs -> Run]
  BY <1>1
<1>3. ASSUME NEW q \in Runs
      PROVE  /\ runs'[q].at \in {"idle", "elk"} => \A d \in Devices : samples'[<<q, d>>].state = "none"
             /\ runs'[q].at = "netbox" =>
                  /\ runs'[q].batch \in Batches
                  /\ runs'[q].todo # {} /\ runs'[q].todo \subseteq Logged(runs'[q].batch)
                  /\ \A d \in runs'[q].todo : samples'[<<q, d>>].state = "none"
  <2>1. CASE q = r
    <3>1. runs'[q] = row
      BY <1>1, <2>1
    <3> QED BY <2>1, <3>1
  <2>2. CASE q # r
    <3>1. runs'[q] = runs[q]
      BY <1>1, <2>2
    <3>2. \A d \in Devices : samples[<<q, d>>].state = "none" => samples'[<<q, d>>].state = "none"
      BY <2>2
    <3>3. runs[q].at = "netbox" =>
            /\ runs[q].batch \in Batches
            /\ runs[q].todo # {} /\ runs[q].todo \subseteq Logged(runs[q].batch)
            /\ runs[q].todo \subseteq Devices
            /\ \A d \in runs[q].todo : samples[<<q, d>>].state = "none"
      BY <1>1, LoggedDevices DEF RunsAhead
    <3>4. runs[q].at \in {"idle", "elk"} => \A d \in Devices : samples[<<q, d>>].state = "none"
      BY <1>1 DEF RunsAhead
    <3> QED BY <3>1, <3>2, <3>3, <3>4
  <2> QED BY <2>1, <2>2
<1> QED BY <1>2, <1>3 DEF RunsAhead, Logged

(* The device is done: the run goes on to the next, or hands its samples over. *)
LEMMA AdvanceMoves ==
  ASSUME SamplingInv, NEW r \in Runs, runs[r].at = "netbox", NEW sample, Advance(r, sample)
  PROVE  /\ \E row \in Run :
              /\ runs' = [runs EXCEPT ![r] = row] /\ row.at \in {"netbox", "done"}
              /\ row.at = "netbox" => /\ row.batch = runs[r].batch /\ row.todo # {}
                                      /\ row.todo = runs[r].todo \ {Due(r)}
         /\ \/ UNCHANGED tasks
            \/ \E t \in Task :
                 /\ tasks' = [tasks EXCEPT ![r] = t]
                 /\ t.at = "spawned" /\ t.queue \subseteq SampleIds
                 /\ t.asked = tasks[r].asked /\ t.parents = tasks[r].parents
<1>1. runs[r] \in Run /\ tasks[r] \in Task /\ Due(r) \in Devices
  BY DueIsOneOfThem DEF SamplingInv, Typed
<1>2. PICK triggered : triggered = IF sample.create THEN runs[r].triggered \cup {Due(r)}
                                   ELSE runs[r].triggered
  OBVIOUS
<1>3. triggered \subseteq Devices
  BY <1>1, <1>2 DEF Run
<1>4. PICK next : next = [runs[r] EXCEPT !.todo = @ \ {Due(r)}, !.triggered = triggered]
  OBVIOUS
<1>5. /\ next \in Run /\ next.at = runs[r].at /\ next.batch = runs[r].batch
      /\ next.todo = runs[r].todo \ {Due(r)} /\ next.triggered = triggered
  BY <1>1, <1>3, <1>4 DEF Run
<1>6. IF next.todo # {}
      THEN runs' = [runs EXCEPT ![r] = next] /\ tasks' = tasks
      ELSE /\ runs' = [runs EXCEPT ![r] = [IdleRun EXCEPT !.at = "done"]]
           /\ tasks' = IF next.triggered = {} THEN tasks
                       ELSE [tasks EXCEPT ![r] = [@ EXCEPT !.at = "spawned",
                                                  !.queue = {<<r, e>> : e \in next.triggered}]]
  BY <1>2, <1>4 DEF Advance
<1>7. CASE next.todo # {}
  BY <1>5, <1>6, <1>7
<1>8. CASE next.todo = {}
  <2>1. PICK row : row = [IdleRun EXCEPT !.at = "done"]
    OBVIOUS
  <2>2. row \in Run /\ row.at = "done"
    BY <2>1, EmptySeq DEF IdleRun, Run
  <2>3. runs' = [runs EXCEPT ![r] = row]
    BY <1>6, <1>8, <2>1
  <2>4. PICK queue : queue = {<<r, e>> : e \in triggered}
    OBVIOUS
  <2>5. queue \subseteq SampleIds
    BY <1>3, <2>4 DEF SampleIds
  <2>6. PICK t : t = [tasks[r] EXCEPT !.at = "spawned", !.queue = queue]
    OBVIOUS
  <2>7. /\ t \in Task /\ t.at = "spawned" /\ t.queue = queue
        /\ t.asked = tasks[r].asked /\ t.parents = tasks[r].parents
    BY <1>1, <2>5, <2>6 DEF Task
  <2>8. tasks' = tasks \/ tasks' = [tasks EXCEPT ![r] = t]
    BY <1>5, <1>6, <1>8, <2>4, <2>6 DEF SamplingInv, Typed
  <2> QED BY <2>2, <2>3, <2>5, <2>7, <2>8
<1> QED BY <1>7, <1>8

(* A device's sample is written, however its anomaly check ends. *)
LEMMA WrittenStep ==
  ASSUME SamplingInv, NEW r \in Runs, runs[r].at = "netbox", NEW row, NEW became,
         SampleLike(row), row.state = "pending", row.case = 0,
         samples' = Settled(r, row, became), Advance(r, row), UNCHANGED cases
  PROVE  SamplingInv'
<1>1. /\ Softly
      /\ \A q \in Runs, d \in Devices :
           samples[<<q, d>>].state = "none" =>
             (<<q, d>> = <<r, Due(r)>> \/ samples'[<<q, d>>].state = "none")
  BY SettledSoftly
<1>2. Grown /\ \A s \in SampleIds : samples[s].state = "stored" => samples'[s].state = "stored"
  BY <1>1 DEF Grown, SamplingInv, Typed, Softly
<1>3. SamplesTyped' /\ Backed'
  BY <1>1, <1>2, SoftlyBacked
<1>4. OneCasePerSample'
  BY <1>2, SameCasesFiled DEF SamplingInv
<1>5. runs' \in [Runs -> Run] /\ RunsAhead'
  <2>1. PICK run \in Run :
          /\ runs' = [runs EXCEPT ![r] = run] /\ run.at \in {"netbox", "done"}
          /\ run.at = "netbox" => /\ run.batch = runs[r].batch /\ run.todo # {}
                                  /\ run.todo = runs[r].todo \ {Due(r)}
    BY AdvanceMoves
  <2>2. \A q \in Runs \ {r}, d \in Devices :
            samples[<<q, d>>].state = "none" => samples'[<<q, d>>].state = "none"
    BY <1>1
  <2>3. /\ runs[r].batch \in Batches
        /\ runs[r].todo \subseteq Logged(runs[r].batch) /\ runs[r].todo \subseteq Devices
        /\ \A d \in runs[r].todo : samples[<<r, d>>].state = "none"
    BY LoggedDevices DEF SamplingInv, RunsAhead
  <2>4. \A d \in runs[r].todo \ {Due(r)} : samples'[<<r, d>>].state = "none"
    BY <1>1, <2>3
  <2> QED BY <2>1, <2>2, <2>3, <2>4, RunMoves
<1>6. tasks' \in [Runs -> Task] /\ TasksBehind'
  <2>1. CASE UNCHANGED tasks
    BY <1>2, <2>1, TasksStay DEF SamplingInv, Typed
  <2>2. ASSUME NEW t \in Task, tasks' = [tasks EXCEPT ![r] = t],
               t.at = "spawned", t.queue \subseteq SampleIds,
               t.asked = tasks[r].asked, t.parents = tasks[r].parents
        PROVE  tasks' \in [Runs -> Task] /\ TasksBehind'
    <3>1. /\ t.asked \subseteq StoredIds
          /\ t.parents \subseteq {c \in DOMAIN cases : cases[c].device \in Devices}
      BY <2>2 DEF SamplingInv, TasksBehind
    <3> QED BY <1>2, <2>2, <3>1, TaskStays
  <2> QED BY <2>1, <2>2, AdvanceMoves
<1>7. cases' \in Seq(Case)
  BY <1>2 DEF Grown
<1> QED BY <1>3, <1>4, <1>5, <1>6, <1>7 DEF SamplingInv, Typed

(* A step of a run that writes nothing: it starts, is answered, or fails. *)
LEMMA RunOnlyStep ==
  ASSUME SamplingInv, NEW r \in Runs, NEW row \in Run, runs' = [runs EXCEPT ![r] = row],
         row.at \in {"idle", "elk"} => \A d \in Devices : samples[<<r, d>>].state = "none",
         row.at = "netbox" =>
           /\ row.batch \in Batches
           /\ row.todo # {} /\ row.todo \subseteq Logged(row.batch)
           /\ \A d \in row.todo : samples[<<r, d>>].state = "none",
         UNCHANGED <<samples, cases, tasks>>
  PROVE  SamplingInv'
<1>1. runs' \in [Runs -> Run] /\ RunsAhead'
  BY RunMoves
<1> QED BY <1>1 DEF SamplingInv, Typed, SamplesTyped, TasksBehind, StoredIds, Backed, Backs,
                    OneCasePerSample, OwnCases

LEMMA StartStep ==
  ASSUME SamplingInv, NEW r \in Runs, Start(r)
  PROVE  SamplingInv'
<1>1. PICK row : row = [runs[r] EXCEPT !.at = "elk"]
  OBVIOUS
<1>2. runs[r] \in Run
  BY DEF SamplingInv, Typed
<1>3. row \in Run /\ row.at = "elk"
  BY <1>1, <1>2 DEF Run
<1>4. runs' = [runs EXCEPT ![r] = row] /\ UNCHANGED <<samples, cases, tasks>>
  BY <1>1 DEF Start
<1>5. \A d \in Devices : samples[<<r, d>>].state = "none"
  BY DEF Start, SamplingInv, RunsAhead
<1> QED BY <1>3, <1>4, <1>5, RunOnlyStep

LEMMA FetchedStep ==
  ASSUME SamplingInv, NEW r \in Runs, Fetched(r)
  PROVE  SamplingInv'
<1>1. PICK batch \in Batches :
        runs' = [runs EXCEPT ![r] = [@ EXCEPT !.at = IF batch = <<>> THEN "done" ELSE "netbox",
                                            !.batch = batch, !.todo = Logged(batch)]]
  BY DEF Fetched
<1>2. PICK place : place = IF batch = <<>> THEN "done" ELSE "netbox"
  OBVIOUS
<1>3. PICK row : row = [runs[r] EXCEPT !.at = place, !.batch = batch, !.todo = Logged(batch)]
  OBVIOUS
<1>4. runs[r] \in Run /\ runs \in [Runs -> Run]
  BY DEF SamplingInv, Typed
<1>5. row \in Run /\ row.at = place /\ row.batch = batch /\ row.todo = Logged(batch)
  <2>1. batch \in Seq(Line) /\ Logged(batch) \in SUBSET Devices
    BY LoggedDevices
  <2>2. place \in {"done", "netbox"}
    BY <1>2
  <2> QED BY <1>3, <1>4, <2>1, <2>2 DEF Run
<1>6. runs' = [runs EXCEPT ![r] = row] /\ UNCHANGED <<samples, cases, tasks>>
  BY <1>1, <1>2, <1>3, <1>4 DEF Fetched
<1>7. \A d \in Devices : samples[<<r, d>>].state = "none"
  BY DEF Fetched, SamplingInv, RunsAhead
<1>8. place = "netbox" => Logged(batch) # {} /\ Logged(batch) \subseteq Devices
  BY <1>2, LoggedDevices
<1> QED BY <1>2, <1>5, <1>6, <1>7, <1>8, RunOnlyStep

LEMMA FetchFailedStep ==
  ASSUME SamplingInv, NEW r \in Runs, FetchFailed(r)
  PROVE  SamplingInv'
<1>1. PICK row : row = [IdleRun EXCEPT !.at = "failed"]
  OBVIOUS
<1>2. row \in Run /\ row.at = "failed"
  BY <1>1, EmptySeq DEF IdleRun, Run
<1>3. runs' = [runs EXCEPT ![r] = row] /\ UNCHANGED <<samples, cases, tasks>>
  BY <1>1 DEF FetchFailed
<1> QED BY <1>2, <1>3, RunOnlyStep

(* A rollback: what was not committed is gone. *)
LEMMA LostSoftly ==
  ASSUME SamplingInv,
         samples' = [s \in SampleIds |-> samples'[s]],
         \A s \in SampleIds :
            samples'[s] = samples[s] \/ (samples[s].state = "pending" /\ samples'[s] = NoSample)
  PROVE  /\ Softly
         /\ \A s \in SampleIds : samples[s].state = "none" => samples'[s].state = "none"
<1>1. SampleLike(NoSample) /\ NoSample.case = 0
  BY DEF SampleLike, NoSample
<1>2. \A s \in SampleIds : SampleLike(samples[s])
  BY DEF SamplingInv, Typed, SamplesTyped
<1>3. ASSUME NEW s \in SampleIds
      PROVE  /\ SampleLike(samples'[s])
             /\ samples[s].state = "stored" => samples'[s].state = "stored"
             /\ samples'[s].case = 0 \/ /\ samples'[s].case = samples[s].case
                                        /\ samples'[s].event = samples[s].event
             /\ samples[s].state = "none" => samples'[s].state = "none"
  <2>1. CASE samples'[s] = samples[s]
    BY <1>2, <2>1
  <2>2. CASE samples[s].state = "pending" /\ samples'[s] = NoSample
    BY <1>1, <2>2
  <2> QED BY <2>1, <2>2
<1> QED BY <1>3 DEF Softly

LEMMA WriteFailedStep ==
  ASSUME SamplingInv, NEW r \in Runs, WriteFailed(r)
  PROVE  SamplingInv'
<1>1. PICK row : row = [IdleRun EXCEPT !.at = "failed"]
  OBVIOUS
<1>2. row \in Run /\ row.at = "failed"
  BY <1>1, EmptySeq DEF IdleRun, Run
<1>3. /\ runs' = [runs EXCEPT ![r] = row] /\ UNCHANGED <<cases, tasks>>
      /\ samples' = [s \in SampleIds |-> IF s \in Pending(r) THEN NoSample ELSE samples[s]]
  BY <1>1 DEF WriteFailed
<1>4. /\ Softly
      /\ \A s \in SampleIds : samples[s].state = "none" => samples'[s].state = "none"
  <2>1. samples' = [s \in SampleIds |-> samples'[s]]
    BY <1>3
  <2>2. \A s \in SampleIds :
            samples'[s] = samples[s] \/ (samples[s].state = "pending" /\ samples'[s] = NoSample)
    BY <1>3 DEF Pending
  <2> QED BY <2>1, <2>2, LostSoftly
<1>5. Grown /\ \A s \in SampleIds : samples[s].state = "stored" => samples'[s].state = "stored"
  BY <1>3, <1>4 DEF Grown, SamplingInv, Typed, Softly
<1>6. SamplesTyped' /\ Backed'
  BY <1>4, <1>5, SoftlyBacked
<1>7. OneCasePerSample'
  BY <1>3, <1>5, SameCasesFiled DEF SamplingInv
<1>8. runs' \in [Runs -> Run] /\ RunsAhead'
  <2>1. \A q \in Runs \ {r}, d \in Devices :
            samples[<<q, d>>].state = "none" => samples'[<<q, d>>].state = "none"
    BY <1>4 DEF SampleIds
  <2> QED BY <1>2, <1>3, <2>1, RunMoves
<1>9. TasksBehind'
  BY <1>3, <1>5, TasksStay
<1> QED BY <1>3, <1>6, <1>7, <1>8, <1>9 DEF SamplingInv, Typed

(* The process dies: the same for every run, and the tasks forget. *)
LEMMA CrashStep ==
  ASSUME SamplingInv, Crash
  PROVE  SamplingInv'
<1>1. /\ UNCHANGED cases
      /\ samples' = [s \in SampleIds |->
                       IF samples[s].state = "pending" THEN NoSample ELSE samples[s]]
      /\ runs' = [r \in Runs |-> IF runs[r].at \in {"elk", "netbox"}
                                 THEN [IdleRun EXCEPT !.at = "failed"] ELSE runs[r]]
      /\ tasks' = [r \in Runs |-> IdleTask]
  BY DEF Crash
<1>2. /\ Softly
      /\ \A s \in SampleIds : samples[s].state = "none" => samples'[s].state = "none"
  <2>1. samples' = [s \in SampleIds |-> samples'[s]]
    BY <1>1
  <2>2. \A s \in SampleIds :
            samples'[s] = samples[s] \/ (samples[s].state = "pending" /\ samples'[s] = NoSample)
    BY <1>1
  <2> QED BY <2>1, <2>2, LostSoftly
<1>3. Grown /\ \A s \in SampleIds : samples[s].state = "stored" => samples'[s].state = "stored"
  BY <1>1, <1>2 DEF Grown, SamplingInv, Typed, Softly
<1>4. SamplesTyped' /\ Backed'
  BY <1>2, <1>3, SoftlyBacked
<1>5. OneCasePerSample'
  BY <1>1, <1>3, SameCasesFiled DEF SamplingInv
<1>6. runs' \in [Runs -> Run] /\ RunsAhead'
  <2>1. PICK failed : failed = [IdleRun EXCEPT !.at = "failed"]
    OBVIOUS
  <2>2. failed \in Run /\ failed.at = "failed"
    BY <2>1, EmptySeq DEF IdleRun, Run
  <2>3. runs' = [r \in Runs |-> IF runs[r].at \in {"elk", "netbox"} THEN failed ELSE runs[r]]
    BY <1>1, <2>1
  <2>4. runs' \in [Runs -> Run]
    BY <2>2, <2>3 DEF SamplingInv, Typed
  <2>5. \A r \in Runs : runs'[r].at # "netbox" /\
          (runs'[r].at \in {"idle", "elk"} => runs[r].at = "idle")
    BY <2>2, <2>3
  <2>6. \A r \in Runs, d \in Devices :
          samples[<<r, d>>].state = "none" => samples'[<<r, d>>].state = "none"
    BY <1>2 DEF SampleIds
  <2>7. \A r \in Runs : runs[r].at = "idle" => \A d \in Devices : samples[<<r, d>>].state = "none"
    BY DEF SamplingInv, RunsAhead
  <2>8. RunsAhead'
    BY <2>5, <2>6, <2>7 DEF RunsAhead
  <2> QED BY <2>4, <2>8
<1>7. tasks' \in [Runs -> Task] /\ TasksBehind'
  BY <1>1 DEF IdleTask, Task, TasksBehind
<1>8. cases' \in Seq(Case)
  BY <1>3 DEF Grown
<1> QED BY <1>4, <1>5, <1>6, <1>7, <1>8 DEF SamplingInv, Typed

-----------------------------------------------------------------------------
(* What a task does.                                                       *)

LEMMA AppendGrown ==
  ASSUME cases \in Seq(Case), NEW case \in Case, cases' = Append(cases, case)
  PROVE  /\ Grown
         /\ Len(cases) \in Nat /\ cases'[Len(cases) + 1] = case
         /\ \A c \in DOMAIN cases : cases'[c] = cases[c]
         /\ DOMAIN cases = 1 .. Len(cases) /\ DOMAIN cases' = 1 .. Len(cases) + 1
BY DEF Grown

LEMMA ChangeGrown ==
  ASSUME cases \in Seq(Case), NEW c \in DOMAIN cases, NEW row \in Case,
         cases' = [cases EXCEPT ![c] = row],
         row.sample = cases[c].sample, row.device = cases[c].device,
         cases[c].derived \subseteq row.derived
  PROVE  /\ Grown /\ DOMAIN cases' = DOMAIN cases /\ cases'[c] = row
         /\ \A d \in DOMAIN cases : cases'[d].sample = cases[d].sample
BY DEF Grown

(* A case more is opened, for a sample that has none or for none at all. *)
LEMMA AppendFiled ==
  ASSUME SamplingInv, NEW case \in Case, cases' = Append(cases, case),
         \A s \in SampleIds : samples'[s].state = samples[s].state,
         \/ case.sample = Elsewhere
         \/ OwnCases(case.sample) = {} /\ samples[case.sample].state = "stored"
  PROVE  Grown /\ OneCasePerSample'
<1>1. /\ Grown
      /\ Len(cases) \in Nat /\ cases'[Len(cases) + 1] = case
      /\ \A c \in DOMAIN cases : cases'[c] = cases[c]
      /\ DOMAIN cases = 1 .. Len(cases) /\ DOMAIN cases' = 1 .. Len(cases) + 1
  BY AppendGrown DEF SamplingInv, Typed
<1>2. PICK new : new = Len(cases) + 1
  OBVIOUS
<1>3. \A c \in DOMAIN cases' : c \in DOMAIN cases \/ c = new
  BY <1>1, <1>2
<1>4. OneCasePerSample
  BY DEF SamplingInv
<1>5. ASSUME NEW c \in DOMAIN cases
      PROVE  cases[c].sample # case.sample \/ case.sample = Elsewhere
  BY DEF OwnCases
<1>6. ASSUME NEW c \in DOMAIN cases', NEW b \in DOMAIN cases', cases'[c].sample = cases'[b].sample
      PROVE  c = b \/ cases'[c].sample = Elsewhere
  <2>1. CASE c \in DOMAIN cases /\ b \in DOMAIN cases
    BY <1>1, <1>4, <1>6, <2>1 DEF OneCasePerSample
  <2>2. CASE c = new /\ b \in DOMAIN cases
    BY <1>1, <1>2, <1>5, <1>6, <2>2
  <2>3. CASE b = new /\ c \in DOMAIN cases
    BY <1>1, <1>2, <1>5, <1>6, <2>3
  <2>4. CASE c = new /\ b = new
    BY <2>4
  <2> QED BY <1>3, <2>1, <2>2, <2>3, <2>4
<1>7. ASSUME NEW s \in SampleIds, NEW c \in DOMAIN cases', cases'[c].sample = s
      PROVE  samples'[s].state = "stored"
  <2>1. CASE c \in DOMAIN cases
    <3>1. OwnCases(s) # {}
      BY <1>1, <1>7, <2>1 DEF OwnCases
    <3> QED BY <1>4, <3>1 DEF OneCasePerSample
  <2>2. CASE c = new
    <3>1. case.sample = s
      BY <1>1, <1>2, <1>7, <2>2
    <3> QED BY <3>1, ElsewhereIsNoSample
  <2> QED BY <1>3, <2>1, <2>2
<1>8. OneCasePerSample'
  BY <1>6, <1>7 DEF OneCasePerSample, OwnCases
<1> QED BY <1>1, <1>8

(* The case a sample is filed under is its own and there is no other. *)
LEMMA FiledOnce ==
  ASSUME SamplingInv, NEW s \in SampleIds, samples[s].state = "stored",
         \A x \in SampleIds : samples'[x].state = samples[x].state,
         cases' = Filed(s),
         NEW own, own = IF OwnCases(s) # {} THEN Max(OwnCases(s)) ELSE Len(cases) + 1
  PROVE  /\ Grown /\ OneCasePerSample'
         /\ own \in Nat \ {0} /\ own \in DOMAIN cases' /\ cases'[own].sample = s
<1>1. cases \in Seq(Case) /\ DOMAIN cases = 1 .. Len(cases) /\ Len(cases) \in Nat
  BY DEF SamplingInv, Typed
<1>2. CASE OwnCases(s) # {}
  <2>1. OwnCases(s) \in SUBSET (1 .. Len(cases))
    BY <1>1 DEF OwnCases
  <2>2. own \in OwnCases(s)
    BY <1>1, <1>2, <2>1, GreatestOf
  <2>3. UNCHANGED cases
    BY <1>2 DEF Filed
  <2>4. Grown
    BY <1>1, <2>3 DEF Grown
  <2>5. OneCasePerSample'
    BY <2>3, SameCasesFiled DEF SamplingInv
  <2>6. own \in Nat \ {0} /\ own \in DOMAIN cases /\ cases[own].sample = s
    BY <1>1, <2>2 DEF OwnCases
  <2> QED BY <2>3, <2>4, <2>5, <2>6
<1>3. CASE OwnCases(s) = {}
  <2>1. PICK case : case = NewCase(s)
    OBVIOUS
  <2>2. case \in Case /\ case.sample = s
    BY <2>1 DEF NewCase, Case, SampleIds
  <2>3. cases' = Append(cases, case) /\ own = Len(cases) + 1
    BY <1>3, <2>1 DEF Filed
  <2>4. Grown /\ OneCasePerSample'
    BY <1>3, <2>2, <2>3, AppendFiled
  <2>5. own \in Nat \ {0} /\ own \in DOMAIN cases' /\ cases'[own] = case
    BY <1>1, <2>2, <2>3
  <2> QED BY <2>2, <2>4, <2>5
<1> QED BY <1>2, <1>3

(* One sample's row is written: its link is backed, the others are as they were. *)
LEMMA RecordedBacked ==
  ASSUME SamplingInv, Grown, NEW s \in SampleIds, NEW row, SampleLike(row),
         samples' = [samples EXCEPT ![s] = row], row.state = samples[s].state,
         row.case # 0 => Backs(s, row.case, row.event)'
  PROVE  /\ SamplesTyped' /\ Backed'
         /\ \A x \in SampleIds : samples'[x].state = samples[x].state
<1>1. \A x \in SampleIds : samples'[x] = IF x = s THEN row ELSE samples[x]
  BY DEF SamplingInv, Typed, SamplesTyped
<1>2. samples' = [x \in SampleIds |-> samples'[x]]
  <2>1. samples = [x \in SampleIds |-> samples[x]]
    BY DEF SamplingInv, Typed, SamplesTyped
  <2> QED BY <2>1
<1>3. SamplesTyped'
  <2>1. \A x \in SampleIds : SampleLike(samples[x])
    BY DEF SamplingInv, Typed, SamplesTyped
  <2>2. \A x \in SampleIds : SampleLike(samples'[x])
    BY <1>1, <2>1
  <2> QED BY <1>2, <2>2 DEF SamplesTyped
<1>4. ASSUME NEW x \in SampleIds, NEW c, NEW event,
             c = samples'[x].case, event = samples'[x].event, c # 0
      PROVE  Backs(x, c, event)'
  <2>1. CASE x = s
    <3>1. c = row.case /\ event = row.event
      BY <1>1, <1>4, <2>1
    <3> QED BY <1>4, <2>1, <3>1
  <2>2. CASE x # s
    <3>1. c = samples[x].case /\ event = samples[x].event
      BY <1>1, <1>4, <2>2
    <3>2. Backs(x, c, event)
      BY <1>4, <3>1 DEF SamplingInv, Backed
    <3> QED BY <3>2, BacksStays
  <2> QED BY <2>1, <2>2
<1>5. Backed'
  BY <1>4 DEF Backed, Backs
<1> QED BY <1>1, <1>3, <1>5

LEMMA Created ==
  ASSUME SamplingInv, NEW s \in SampleIds, samples[s].state = "stored",
         NEW steps \in 1 .. 3, Create(s, steps)
  PROVE  /\ Grown /\ SamplesTyped' /\ Backed' /\ OneCasePerSample'
         /\ \A x \in SampleIds : samples'[x].state = samples[x].state
<1>1. PICK own : own = IF OwnCases(s) # {} THEN Max(OwnCases(s)) ELSE Len(cases) + 1
  OBVIOUS
<1>2. PICK old : old = samples[s]
  OBVIOUS
<1>3. SampleLike(old) /\ samples = [x \in SampleIds |-> samples[x]]
  BY <1>2 DEF SamplingInv, Typed, SamplesTyped
<1>4. PICK filed : filed = [old EXCEPT !.case = own, !.event = "case_created"]
  OBVIOUS
<1>5. PICK marked : marked = [old EXCEPT !.event = IF @ = "none" THEN "case_created" ELSE @]
  OBVIOUS
<1>6. /\ SampleLike(filed) /\ filed.state = old.state
      /\ filed.case = own /\ filed.event = "case_created"
  BY <1>3, <1>4 DEF SampleLike
<1>7. /\ SampleLike(marked) /\ marked.state = old.state /\ marked.case = old.case
      /\ marked.event = IF old.event = "none" THEN "case_created" ELSE old.event
  BY <1>3, <1>5 DEF SampleLike
<1>8. cases' = Filed(s)
  BY DEF Create
<1>9. PICK row \in {filed, marked} : samples' = [samples EXCEPT ![s] = row]
  <2>1. CASE steps = 3
    <3>1. samples' = [samples EXCEPT ![s] = filed]
      BY <1>1, <1>2, <1>3, <1>4, <2>1 DEF Create, Recorded
    <3> QED BY <3>1
  <2>2. CASE steps # 3
    <3>1. samples' = [samples EXCEPT ![s] = marked]
      BY <1>2, <1>3, <1>5, <2>2 DEF Create
    <3> QED BY <3>1
  <2> QED BY <2>1, <2>2
<1>10. \A x \in SampleIds : samples'[x].state = samples[x].state
  BY <1>2, <1>3, <1>6, <1>7, <1>9
<1>11. /\ Grown /\ OneCasePerSample'
       /\ own \in Nat \ {0} /\ own \in DOMAIN cases' /\ cases'[own].sample = s
  BY <1>1, <1>8, <1>10, FiledOnce
<1>12. PICK c, event : c = row.case /\ event = row.event
  OBVIOUS
<1>13. c # 0 => Backs(s, c, event)'
  <2>1. CASE row = filed
    BY <1>6, <1>11, <1>12, <2>1 DEF Backs
  <2>2. CASE row = marked
    <3>1. c # 0 => Backs(s, c, old.event) /\ event = old.event
      BY <1>2, <1>7, <1>12, <2>2 DEF SamplingInv, Backed, Backs
    <3> QED BY <1>11, <3>1, BacksStays
  <2> QED BY <1>9, <2>1, <2>2
<1>14. row.case # 0 => Backs(s, row.case, row.event)'
  BY <1>12, <1>13
<1>15. SamplesTyped' /\ Backed'
  BY <1>2, <1>6, <1>7, <1>9, <1>11, <1>14, RecordedBacked
<1> QED BY <1>10, <1>11, <1>15

LEMMA RunsWait ==
  ASSUME SamplingInv, UNCHANGED runs,
         \A s \in SampleIds : samples'[s].state = samples[s].state
  PROVE  runs' \in [Runs -> Run] /\ RunsAhead'
<1>1. ASSUME NEW r \in Runs, runs[r].at = "netbox"
      PROVE  /\ runs[r].batch \in Batches
             /\ runs[r].todo # {} /\ runs[r].todo \subseteq Logged(runs[r].batch)
             /\ \A d \in runs[r].todo : samples'[<<r, d>>].state = "none"
  <2>1. /\ runs[r].batch \in Batches
        /\ runs[r].todo # {} /\ runs[r].todo \subseteq Logged(runs[r].batch)
        /\ \A d \in runs[r].todo : samples[<<r, d>>].state = "none"
    BY <1>1 DEF SamplingInv, RunsAhead
  <2>2. runs[r].todo \subseteq Devices
    BY <2>1, LoggedDevices
  <2> QED BY <2>1, <2>2 DEF SampleIds
<1>2. ASSUME NEW r \in Runs, runs[r].at \in {"idle", "elk"}, NEW d \in Devices
      PROVE  samples'[<<r, d>>].state = "none"
  <2>1. samples[<<r, d>>].state = "none" /\ <<r, d>> \in SampleIds
    BY <1>2 DEF SamplingInv, RunsAhead, SampleIds
  <2> QED BY <2>1
<1> QED BY <1>1, <1>2 DEF SamplingInv, Typed, RunsAhead, Logged

(* A task takes the sample off its queue, whether it stays where it is or asks. *)
LEMMA TaskRow ==
  ASSUME SamplingInv, NEW r \in Runs
  PROVE  /\ tasks[r] \in Task /\ tasks \in [Runs -> Task]
         /\ tasks[r].queue \subseteq SampleIds
         /\ tasks[r].at \in {"working", "asking"} => tasks[r].queue \subseteq StoredIds
         /\ tasks[r].asked \subseteq StoredIds
         /\ tasks[r].parents \subseteq {c \in DOMAIN cases : cases[c].device \in Devices}
BY DEF SamplingInv, Typed, TasksBehind

LEMMA DroppedRow ==
  ASSUME SamplingInv, NEW r \in Runs, NEW s, tasks[r].at = "working"
  PROVE  \E t \in Task :
           /\ Dropped(r, s) = [tasks EXCEPT ![r] = t]
           /\ t.at = "working" /\ t.queue = tasks[r].queue \ {s}
           /\ t.asked = tasks[r].asked /\ t.parents = tasks[r].parents
<1>1. PICK t : t = [tasks[r] EXCEPT !.queue = @ \ {s}]
  OBVIOUS
<1>2. tasks[r] \in Task /\ tasks \in [Runs -> Task]
  BY TaskRow
<1>3. /\ t \in Task /\ t.at = "working" /\ t.queue = tasks[r].queue \ {s}
      /\ t.asked = tasks[r].asked /\ t.parents = tasks[r].parents
  BY <1>1, <1>2 DEF Task
<1>4. Dropped(r, s) = [tasks EXCEPT ![r] = t]
  BY <1>1, <1>2 DEF Dropped
<1> QED BY <1>3, <1>4

(* A step of a task that files nothing. *)
LEMMA TaskOnlyStep ==
  ASSUME SamplingInv, NEW r \in Runs, NEW t \in Task, tasks' = [tasks EXCEPT ![r] = t],
         t.queue \subseteq SampleIds,
         t.at \in {"working", "asking"} => t.queue \subseteq StoredIds,
         t.asked \subseteq StoredIds,
         t.parents \subseteq {c \in DOMAIN cases : cases[c].device \in Devices},
         UNCHANGED <<samples, cases, runs>>
  PROVE  SamplingInv'
<1>1. Grown
  BY DEF Grown, SamplingInv, Typed
<1>2. tasks' \in [Runs -> Task] /\ TasksBehind'
  BY <1>1, TaskStays
<1> QED BY <1>2 DEF SamplingInv, Typed, SamplesTyped, RunsAhead, Logged, Backed, Backs,
                    OneCasePerSample, OwnCases

LEMMA SpawnedStep ==
  ASSUME SamplingInv, NEW r \in Runs, Spawned(r)
  PROVE  SamplingInv'
<1>1. PICK t : t = [tasks[r] EXCEPT !.queue = Query(r), !.at = "working"]
  OBVIOUS
<1>2. Query(r) \subseteq StoredIds /\ StoredIds \subseteq SampleIds
  BY TaskRow DEF Query, StoredIds
<1>3. /\ t \in Task /\ t.queue = Query(r)
      /\ t.asked = tasks[r].asked /\ t.parents = tasks[r].parents
  BY <1>1, <1>2, TaskRow DEF Task
<1>4. tasks' = [tasks EXCEPT ![r] = t] /\ UNCHANGED <<samples, cases, runs>>
  BY <1>1, TaskRow DEF Spawned
<1> QED BY <1>2, <1>3, <1>4, TaskRow, TaskOnlyStep

LEMMA EndedStep ==
  ASSUME SamplingInv, NEW r \in Runs, Ended(r)
  PROVE  SamplingInv'
<1>1. IdleTask \in Task /\ IdleTask.queue = {} /\ IdleTask.asked = {} /\ IdleTask.parents = {}
  BY DEF IdleTask, Task
<1>2. tasks' = [tasks EXCEPT ![r] = IdleTask] /\ UNCHANGED <<samples, cases, runs>>
  BY DEF Ended
<1> HIDE DEF IdleTask
<1> QED BY <1>1, <1>2, TaskOnlyStep

LEMMA SkipStep ==
  ASSUME SamplingInv, NEW r \in Runs, NEW s, Skip(r, s)
  PROVE  SamplingInv'
<1>1. PICK t \in Task :
        /\ Dropped(r, s) = [tasks EXCEPT ![r] = t]
        /\ t.at = "working" /\ t.queue = tasks[r].queue \ {s}
        /\ t.asked = tasks[r].asked /\ t.parents = tasks[r].parents
  BY DroppedRow DEF Skip
<1>2. tasks' = [tasks EXCEPT ![r] = t] /\ UNCHANGED <<samples, cases, runs>>
  BY <1>1 DEF Skip
<1>3. tasks[r].at = "working"
  BY DEF Skip
<1> QED BY <1>1, <1>2, <1>3, TaskRow, TaskOnlyStep

LEMMA AskStep ==
  ASSUME SamplingInv, NEW r \in Runs, NEW s \in tasks[r].queue, Ask(r, s)
  PROVE  SamplingInv'
<1>1. tasks[r].at = "working" /\ s \in StoredIds
  BY TaskRow DEF Ask
<1>2. PICK d \in Task :
        /\ Dropped(r, s) = [tasks EXCEPT ![r] = d]
        /\ d.at = "working" /\ d.queue = tasks[r].queue \ {s}
        /\ d.asked = tasks[r].asked /\ d.parents = tasks[r].parents
  BY <1>1, DroppedRow
<1>3. PICK t : t = [d EXCEPT !.at = "asking", !.asked = {s}, !.parents = OpenElsewhere(s)]
  OBVIOUS
<1>4. OpenElsewhere(s) \subseteq {c \in DOMAIN cases : cases[c].device \in Devices}
  <2>1. ASSUME NEW c \in DOMAIN cases
        PROVE  cases[c].device \in Devices \cup {NoDevice}
    <3>1. cases[c] \in Case
      BY DEF SamplingInv, Typed
    <3> QED BY <3>1 DEF Case
  <2> QED BY <2>1 DEF OpenElsewhere
<1>5. OpenElsewhere(s) \subseteq Nat /\ s \in SampleIds
  <2>1. DOMAIN cases \subseteq Nat
    BY DEF SamplingInv, Typed
  <2> QED BY <1>1, <1>4, <2>1 DEF StoredIds
<1>6. /\ t \in Task /\ t.at = "asking" /\ t.queue = d.queue /\ t.asked = {s}
      /\ t.parents = OpenElsewhere(s)
  BY <1>3, <1>5 DEF Task
<1>7. tasks' = [tasks EXCEPT ![r] = t] /\ UNCHANGED <<samples, cases, runs>>
  BY <1>2, <1>3, TaskRow DEF Ask
<1> QED BY <1>1, <1>2, <1>4, <1>6, <1>7, TaskRow, TaskOnlyStep

(* A step of a task that files a sample. *)
LEMMA FilingStep ==
  ASSUME SamplingInv, NEW s \in StoredIds, NEW steps \in 1 .. 3, Create(s, steps), UNCHANGED runs,
         \/ UNCHANGED tasks
         \/ \E r \in Runs, t \in Task :
              /\ tasks' = [tasks EXCEPT ![r] = t] /\ tasks[r].at \in {"working", "asking"}
              /\ t.queue \subseteq tasks[r].queue /\ t.asked \subseteq tasks[r].asked
              /\ t.parents \subseteq tasks[r].parents
  PROVE  SamplingInv'
<1>1. /\ Grown /\ SamplesTyped' /\ Backed' /\ OneCasePerSample'
      /\ \A x \in SampleIds : samples'[x].state = samples[x].state
  BY Created DEF StoredIds
<1>2. runs' \in [Runs -> Run] /\ RunsAhead'
  BY <1>1, RunsWait
<1>3. tasks' \in [Runs -> Task] /\ TasksBehind'
  <2>1. CASE UNCHANGED tasks
    BY <1>1, <2>1, TasksStay DEF SamplingInv, Typed
  <2>2. ASSUME NEW r \in Runs, NEW t \in Task,
               tasks' = [tasks EXCEPT ![r] = t], tasks[r].at \in {"working", "asking"},
               t.queue \subseteq tasks[r].queue, t.asked \subseteq tasks[r].asked,
               t.parents \subseteq tasks[r].parents
        PROVE  tasks' \in [Runs -> Task] /\ TasksBehind'
    <3>1. /\ t.queue \subseteq StoredIds /\ t.queue \subseteq SampleIds
          /\ t.asked \subseteq StoredIds
          /\ t.parents \subseteq {c \in DOMAIN cases : cases[c].device \in Devices}
      BY <2>2, TaskRow
    <3> QED BY <1>1, <2>2, <3>1, TaskStays
  <2> QED BY <2>1, <2>2
<1>4. cases' \in Seq(Case)
  BY <1>1 DEF Grown
<1> QED BY <1>1, <1>2, <1>3, <1>4 DEF SamplingInv, Typed

LEMMA CreateAloneStep ==
  ASSUME SamplingInv, NEW r \in Runs, NEW s \in tasks[r].queue,
         CreateAlone(r, s) \/ CreateRaised(r, s)
  PROVE  SamplingInv'
<1>1. tasks[r].at = "working" /\ s \in StoredIds /\ tasks' = Dropped(r, s) /\ UNCHANGED runs
  BY TaskRow DEF CreateAlone, CreateRaised
<1>2. PICK steps \in 1 .. 3 : Create(s, steps)
  BY DEF CreateAlone, CreateRaised
<1>3. PICK t \in Task :
        /\ Dropped(r, s) = [tasks EXCEPT ![r] = t]
        /\ t.at = "working" /\ t.queue = tasks[r].queue \ {s}
        /\ t.asked = tasks[r].asked /\ t.parents = tasks[r].parents
  BY <1>1, DroppedRow
<1>4. /\ tasks' = [tasks EXCEPT ![r] = t] /\ tasks[r].at \in {"working", "asking"}
      /\ t.queue \subseteq tasks[r].queue /\ t.asked \subseteq tasks[r].asked
      /\ t.parents \subseteq tasks[r].parents
  BY <1>1, <1>3
<1> QED BY <1>1, <1>2, <1>4, FilingStep

LEMMA AnsweredRow ==
  ASSUME SamplingInv, NEW r \in Runs
  PROVE  \E t \in Task :
           /\ Answered(r) = [tasks EXCEPT ![r] = t]
           /\ t.at = "working" /\ t.queue = tasks[r].queue /\ t.asked = {} /\ t.parents = {}
<1>1. PICK t : t = [tasks[r] EXCEPT !.at = "working", !.asked = {}, !.parents = {}]
  OBVIOUS
<1>2. t \in Task /\ t.at = "working" /\ t.queue = tasks[r].queue /\ t.asked = {} /\ t.parents = {}
  BY <1>1, TaskRow DEF Task
<1>3. Answered(r) = [tasks EXCEPT ![r] = t]
  BY <1>1, TaskRow DEF Answered
<1> QED BY <1>2, <1>3

LEMMA NotCorrelatedStep ==
  ASSUME SamplingInv, NEW r \in Runs, NEW s \in tasks[r].asked, NotCorrelated(r, s)
  PROVE  SamplingInv'
<1>1. /\ tasks[r].at = "asking" /\ s \in StoredIds /\ tasks' = Answered(r) /\ UNCHANGED runs
      /\ Create(s, 3)
  BY TaskRow DEF NotCorrelated
<1>2. PICK t \in Task :
        /\ Answered(r) = [tasks EXCEPT ![r] = t]
        /\ t.at = "working" /\ t.queue = tasks[r].queue /\ t.asked = {} /\ t.parents = {}
  BY AnsweredRow
<1>3. /\ tasks' = [tasks EXCEPT ![r] = t] /\ tasks[r].at \in {"working", "asking"}
      /\ t.queue \subseteq tasks[r].queue /\ t.asked \subseteq tasks[r].asked
      /\ t.parents \subseteq tasks[r].parents
  BY <1>1, <1>2
<1>4. PICK steps \in 1 .. 3 : Create(s, steps)
  BY <1>1
<1> QED BY <1>1, <1>3, <1>4, FilingStep

LEMMA ManualStep ==
  ASSUME SamplingInv, NEW s \in SampleIds, Manual(s)
  PROVE  SamplingInv'
<1>1. s \in StoredIds /\ UNCHANGED <<runs, tasks>>
  BY DEF Manual, StoredIds
<1>2. PICK steps \in 1 .. 3 : Create(s, steps)
  BY DEF Manual
<1> QED BY <1>1, <1>2, FilingStep

(* The parent is one of the cases the task found before it asked. *)
LEMMA ParentWasFound ==
  ASSUME SamplingInv, NEW r \in Runs, NEW s \in SampleIds, Reached(r, s) # {}
  PROVE  Parent(r, s) \in DOMAIN cases
<1> DEFINE hops(c) == Hops[s[2]][cases[c].device]
           reached == Reached(r, s)
           nearest == {c \in reached : \A b \in reached : hops(c) <= hops(b)}
           distances == {hops(c) : c \in reached}
<1>1. DOMAIN cases = 1 .. Len(cases) /\ Len(cases) \in Nat
  BY DEF SamplingInv, Typed
<1>2. reached \subseteq {c \in DOMAIN cases : cases[c].device \in Devices}
  BY TaskRow DEF Reached
<1>3. s[2] \in Devices
  BY DEF SampleIds
<1>4. \A c \in reached : hops(c) \in Nat
  BY <1>2, <1>3, SamplingAssumption
<1>5. distances \in SUBSET Nat /\ distances # {}
  BY <1>4
<1>6. Min(distances) \in distances /\ \A x \in distances : Min(distances) <= x
  <2> HIDE DEF distances
  <2> QED BY <1>5, LeastOf
<1>7. nearest # {}
  <2>1. PICK c \in reached : hops(c) = Min(distances)
    BY <1>6
  <2>2. \A d \in reached : hops(c) <= hops(d)
    BY <1>6, <2>1
  <2> QED BY <2>2
<1>8. nearest \in SUBSET (1 .. Len(cases))
  BY <1>1, <1>2
<1>9. Parent(r, s) = Max(nearest)
  BY DEF Parent
<1>10. Max(nearest) \in nearest
  <2> HIDE DEF nearest
  <2> QED BY <1>1, <1>7, <1>8, GreatestOf
<1> QED BY <1>1, <1>8, <1>9, <1>10

LEMMA CorrelateStep ==
  ASSUME SamplingInv, NEW r \in Runs, NEW s \in tasks[r].asked, Correlate(r, s)
  PROVE  SamplingInv'
<1>1. PICK c : c = Parent(r, s)
  OBVIOUS
<1>2. s \in StoredIds /\ s \in SampleIds
  BY TaskRow DEF StoredIds
<1>3. c \in DOMAIN cases /\ c \in Nat \ {0}
  <2>1. c \in DOMAIN cases
    BY <1>1, <1>2, ParentWasFound DEF Correlate
  <2> QED BY <2>1 DEF SamplingInv, Typed
<1>4. PICK case : case = [cases[c] EXCEPT !.derived = @ \cup {s}]
  OBVIOUS
<1>5. cases \in Seq(Case) /\ cases[c] \in Case
  BY <1>3 DEF SamplingInv, Typed
<1>6. /\ case \in Case /\ case.sample = cases[c].sample /\ case.device = cases[c].device
      /\ case.derived = cases[c].derived \cup {s}
  BY <1>2, <1>4, <1>5 DEF Case
<1>7. PICK old : old = samples[s]
  OBVIOUS
<1>8. SampleLike(old) /\ samples = [x \in SampleIds |-> samples[x]]
  BY <1>2, <1>7 DEF SamplingInv, Typed, SamplesTyped
<1>9. PICK row : row = [old EXCEPT !.case = c, !.event = "correlated"]
  OBVIOUS
<1>10. SampleLike(row) /\ row.state = old.state /\ row.case = c /\ row.event = "correlated"
  BY <1>8, <1>9 DEF SampleLike
<1>11. /\ cases' = [cases EXCEPT ![c] = case] /\ samples' = [samples EXCEPT ![s] = row]
       /\ tasks' = Answered(r) /\ UNCHANGED runs
  BY <1>1, <1>2, <1>4, <1>5, <1>7, <1>8, <1>9 DEF Correlate
<1>12. /\ Grown /\ DOMAIN cases' = DOMAIN cases /\ cases'[c] = case
       /\ \A d \in DOMAIN cases : cases'[d].sample = cases[d].sample
  BY <1>3, <1>5, <1>6, <1>11, ChangeGrown
<1>13. row.case # 0 => Backs(s, row.case, row.event)'
  BY <1>3, <1>6, <1>10, <1>12 DEF Backs
<1>14. /\ SamplesTyped' /\ Backed'
       /\ \A x \in SampleIds : samples'[x].state = samples[x].state
  BY <1>2, <1>7, <1>10, <1>11, <1>12, <1>13, RecordedBacked
<1>15. OneCasePerSample'
  BY <1>12, <1>14, SameCasesFiled DEF SamplingInv
<1>16. runs' \in [Runs -> Run] /\ RunsAhead'
  BY <1>11, <1>14, RunsWait
<1>17. tasks' \in [Runs -> Task] /\ TasksBehind'
  <2>1. PICK t \in Task :
          /\ Answered(r) = [tasks EXCEPT ![r] = t]
          /\ t.at = "working" /\ t.queue = tasks[r].queue /\ t.asked = {} /\ t.parents = {}
    BY AnsweredRow
  <2>2. t.queue \subseteq StoredIds /\ t.queue \subseteq SampleIds
    BY <2>1, TaskRow DEF Correlate
  <2> QED BY <1>11, <1>12, <1>14, <2>1, <2>2, TaskStays
<1>18. cases' \in Seq(Case)
  BY <1>12 DEF Grown
<1> QED BY <1>14, <1>15, <1>16, <1>17, <1>18 DEF SamplingInv, Typed

-----------------------------------------------------------------------------
(* The rest of the system.                                                 *)

(* Neither the samples nor the tasks move while cases are opened or closed. *)
LEMMA CasesOnlyStep ==
  ASSUME SamplingInv, Grown, OneCasePerSample', UNCHANGED <<samples, runs, tasks>>
  PROVE  SamplingInv'
<1>1. Softly
  <2>1. /\ samples = [x \in SampleIds |-> samples[x]]
        /\ \A s \in SampleIds : SampleLike(samples[s])
    BY DEF SamplingInv, Typed, SamplesTyped
  <2> QED BY <2>1 DEF Softly
<1>2. SamplesTyped' /\ Backed'
  BY <1>1, SoftlyBacked
<1>3. runs' \in [Runs -> Run] /\ RunsAhead'
  BY RunsWait
<1>4. TasksBehind'
  BY TasksStay
<1>5. cases' \in Seq(Case) /\ tasks' \in [Runs -> Task]
  BY DEF Grown, SamplingInv, Typed
<1> QED BY <1>2, <1>3, <1>4, <1>5 DEF SamplingInv, Typed

LEMMA CaseElsewhereStep ==
  ASSUME SamplingInv, NEW d \in Devices, CaseElsewhere(d)
  PROVE  SamplingInv'
<1>1. PICK case : case = [sample |-> Elsewhere, device |-> d, open |-> TRUE, derived |-> {}]
  OBVIOUS
<1>2. case \in Case /\ case.sample = Elsewhere
  BY <1>1 DEF Case
<1>3. cases' = Append(cases, case) /\ UNCHANGED <<samples, runs, tasks>>
  BY <1>1 DEF CaseElsewhere
<1>4. Grown /\ OneCasePerSample'
  BY <1>2, <1>3, AppendFiled
<1> QED BY <1>3, <1>4, CasesOnlyStep

LEMMA CloseCaseStep ==
  ASSUME SamplingInv, NEW c \in DOMAIN cases, CloseCase(c)
  PROVE  SamplingInv'
<1>1. PICK case : case = [cases[c] EXCEPT !.open = FALSE]
  OBVIOUS
<1>2. cases \in Seq(Case) /\ cases[c] \in Case
  BY DEF SamplingInv, Typed
<1>3. /\ case \in Case /\ case.sample = cases[c].sample /\ case.device = cases[c].device
      /\ case.derived = cases[c].derived
  BY <1>1, <1>2 DEF Case
<1>4. cases' = [cases EXCEPT ![c] = case] /\ UNCHANGED <<samples, runs, tasks>>
  BY <1>1 DEF CloseCase
<1>5. /\ Grown /\ DOMAIN cases' = DOMAIN cases /\ cases'[c] = case
      /\ \A d \in DOMAIN cases : cases'[d].sample = cases[d].sample
  BY <1>2, <1>3, <1>4, ChangeGrown
<1>6. OneCasePerSample'
  BY <1>4, <1>5, SameCasesFiled DEF SamplingInv
<1> QED BY <1>4, <1>5, <1>6, CasesOnlyStep

LEMMA StillStep ==
  ASSUME SamplingInv, UNCHANGED <<samples, cases, runs, tasks>>
  PROVE  SamplingInv'
<1>1. Grown
  BY DEF Grown, SamplingInv, Typed
<1>2. OneCasePerSample'
  BY SameCasesFiled DEF SamplingInv
<1> QED BY <1>1, <1>2, CasesOnlyStep

-----------------------------------------------------------------------------
(* The theorems.                                                           *)

LEMMA SamplingInvInit ==
  ASSUME Init
  PROVE  SamplingInv
<1>1. samples = [s \in SampleIds |-> NoSample] /\ SampleLike(NoSample)
      /\ NoSample.state = "none" /\ NoSample.case = 0
  BY DEF Init, NoSample, SampleLike
<1>2. SamplesTyped /\ \A s \in SampleIds : samples[s].state = "none" /\ samples[s].case = 0
  <2>1. \A s \in SampleIds : samples[s] = NoSample
    BY <1>1
  <2>2. samples = [s \in SampleIds |-> samples[s]]
    BY <1>1
  <2> QED BY <1>1, <2>1, <2>2 DEF SamplesTyped
<1>3. cases \in Seq(Case) /\ DOMAIN cases = {}
  BY EmptySeq DEF Init
<1>4. runs \in [Runs -> Run] /\ \A r \in Runs : runs[r].at = "idle"
  BY EmptySeq DEF Init, IdleRun, Run
<1>5. tasks \in [Runs -> Task] /\ TasksBehind
  BY DEF Init, IdleTask, Task, TasksBehind
<1>6. RunsAhead
  BY <1>2, <1>4 DEF RunsAhead, SampleIds
<1>7. Backed /\ OneCasePerSample
  BY <1>2, <1>3 DEF Backed, OneCasePerSample, OwnCases
<1> QED BY <1>2, <1>3, <1>4, <1>5, <1>6, <1>7 DEF SamplingInv, Typed

LEMMA SamplingInvStep ==
  ASSUME SamplingInv, [Next]_vars
  PROVE  SamplingInv'
<1>1. ASSUME NEW r \in Runs, NEW known, Write(r, known) \/ WriteAnomaly(r, known)
      PROVE  SamplingInv'
  <2>1. PICK row : row = Sampled(r, known)
    OBVIOUS
  <2>2. SampleLike(row) /\ row.state = "pending" /\ row.case = 0
    BY <2>1, SampledRow
  <2>3. /\ runs[r].at = "netbox" /\ Advance(r, row) /\ UNCHANGED cases
        /\ \E became \in {"stored", "pending"} : samples' = Settled(r, row, became)
    BY <1>1, <2>1 DEF Write, WriteAnomaly
  <2> QED BY <2>2, <2>3, WrittenStep
<1>2. ASSUME NEW r \in Runs, WriteBroken(r)
      PROVE  SamplingInv'
  <2>1. PICK row : row = Sampled(r, TRUE)
    OBVIOUS
  <2>2. SampleLike(row) /\ row.state = "pending" /\ row.case = 0
    BY <2>1, SampledRow
  <2>3. /\ runs[r].at = "netbox" /\ Advance(r, row) /\ UNCHANGED cases
        /\ samples' = Settled(r, row, "lost")
    BY <1>2, <2>1 DEF WriteBroken
  <2> QED BY <2>2, <2>3, WrittenStep
<1>3. ASSUME NEW r \in Runs, RunStep(r)
      PROVE  SamplingInv'
  BY <1>1, <1>3, FetchedStep DEF RunStep
<1>4. ASSUME NEW r \in Runs, TaskStep(r)
      PROVE  SamplingInv'
  <2>1. CASE Spawned(r)
    BY <2>1, SpawnedStep
  <2>2. CASE Ended(r)
    BY <2>2, EndedStep
  <2>3. ASSUME NEW s \in tasks[r].queue, Skip(r, s) \/ CreateAlone(r, s) \/ Ask(r, s)
        PROVE  SamplingInv'
    BY <2>3, SkipStep, CreateAloneStep, AskStep
  <2>4. ASSUME NEW s \in tasks[r].asked, Correlate(r, s) \/ NotCorrelated(r, s)
        PROVE  SamplingInv'
    BY <2>4, CorrelateStep, NotCorrelatedStep
  <2> QED BY <1>4, <2>1, <2>2, <2>3, <2>4 DEF TaskStep
<1>5. ASSUME NEW r \in Runs,
             \/ Start(r) \/ RunStep(r) \/ TaskStep(r)
             \/ FetchFailed(r) \/ WriteFailed(r)
             \/ WriteBroken(r)
             \/ \E s \in tasks[r].queue : CreateRaised(r, s)
      PROVE  SamplingInv'
  BY <1>2, <1>3, <1>4, <1>5, StartStep, FetchFailedStep, WriteFailedStep, CreateAloneStep
<1>6. ASSUME NEW s \in SampleIds, Manual(s)
      PROVE  SamplingInv'
  BY <1>6, ManualStep
<1>7. ASSUME NEW d \in Devices, CaseElsewhere(d)
      PROVE  SamplingInv'
  BY <1>7, CaseElsewhereStep
<1>8. ASSUME NEW c \in DOMAIN cases, CloseCase(c)
      PROVE  SamplingInv'
  BY <1>8, CloseCaseStep
<1>9. CASE Toggle \/ UNCHANGED vars
  BY <1>9, StillStep DEF Toggle, vars
<1>10. CASE Crash
  BY <1>10, CrashStep
<1> QED BY <1>5, <1>6, <1>7, <1>8, <1>9, <1>10 DEF Next

(* OneCasePerSample: the task that follows a run, the tasks of runs that overlap
   with it and the operators who ask for the same case by hand file a sample
   once, and never one that a rollback or a crash then takes away. *)
THEOREM SamplesFiledOnce == Spec => []OneCasePerSample
<1>1. SamplingInv => OneCasePerSample
  BY DEF SamplingInv
<1>2. Init => SamplingInv
  BY SamplingInvInit
<1>3. SamplingInv /\ [Next]_vars => SamplingInv'
  BY SamplingInvStep
<1> QED BY <1>1, <1>2, <1>3, PTL DEF Spec

(* CaseBacksSample: a sample's link and the state of its event are never ahead of
   the case they speak of, even where the three commits of a filing stop half
   way, and a merge that comes after a filing by hand keeps the two together. *)
THEOREM SamplesBacked == Spec => []CaseBacksSample
<1>1. SamplingInv => CaseBacksSample
  BY DEF SamplingInv, Backed, Backs, CaseBacksSample
<1>2. Init => SamplingInv
  BY SamplingInvInit
<1>3. SamplingInv /\ [Next]_vars => SamplingInv'
  BY SamplingInvStep
<1> QED BY <1>1, <1>2, <1>3, PTL DEF Spec
-----------------------------------------------------------------------------
(* What a sample says of its logs.                                         *)

Own(batch, d) == {i \in DOMAIN batch : batch[i].device = d}

(* Kept is defined by recursion over the lines.  Here its equation is read as one
   of a set S of lines, up to the line n. *)
Before(batch, d, S, i) ==
  {j \in Own(batch, d) : j < i /\ batch[j].fp = batch[i].fp /\ j \in S}
CountedIn(batch, d, S, i) ==
  \/ Before(batch, d, S, i) = {}
  \/ batch[i].time - batch[Max(Before(batch, d, S, i))].time > DedupSeconds
KeepsUpTo(batch, d, S, n) ==
  \A i \in Own(batch, d) : i <= n => (i \in S <=> CountedIn(batch, d, S, i))

LEMMA OwnLines ==
  ASSUME NEW batch \in Seq(Line), NEW d
  PROVE  /\ Own(batch, d) \in SUBSET (1 .. Len(batch)) /\ Len(batch) \in Nat
         /\ \A i \in Own(batch, d) : batch[i] \in Line
BY DEF Own

(* The next line is decided by those before it. *)
LEMMA KeepsOneMore ==
  ASSUME NEW batch \in Seq(Line), NEW d, NEW n \in Nat,
         NEW S \in SUBSET Own(batch, d), KeepsUpTo(batch, d, S, n)
  PROVE  \E T \in SUBSET Own(batch, d) : KeepsUpTo(batch, d, T, n + 1)
<1> DEFINE T == {i \in Own(batch, d) : IF i = n + 1 THEN CountedIn(batch, d, S, i) ELSE i \in S}
<1>1. ASSUME NEW i \in Own(batch, d), i <= n + 1
      PROVE  i \in T <=> CountedIn(batch, d, T, i)
  <2>1. i \in Nat /\ \A j \in Own(batch, d) : j \in Nat
    BY OwnLines
  <2>2. \A j \in Own(batch, d) : j < i => (j \in T <=> j \in S)
    BY <1>1, <2>1
  <2>3. Before(batch, d, T, i) = Before(batch, d, S, i)
    <3> HIDE DEF T
    <3> QED BY <2>2 DEF Before
  <2>4. CountedIn(batch, d, T, i) <=> CountedIn(batch, d, S, i)
    <3> HIDE DEF T
    <3> QED BY <2>3 DEF CountedIn
  <2>5. CASE i = n + 1
    <3>1. i \in T <=> CountedIn(batch, d, S, i)
      BY <2>5
    <3> QED BY <2>4, <3>1
  <2>6. CASE i # n + 1
    <3>1. i <= n
      BY <1>1, <2>1, <2>6
    <3>2. i \in S <=> CountedIn(batch, d, S, i)
      BY <3>1 DEF KeepsUpTo
    <3>3. i \in T <=> i \in S
      BY <2>6
    <3> QED BY <2>4, <3>2, <3>3
  <2> QED BY <2>5, <2>6
<1>2. T \in SUBSET Own(batch, d)
  OBVIOUS
<1> HIDE DEF T
<1> QED BY <1>1, <1>2 DEF KeepsUpTo

(* So there is such a set for the whole batch: there is no least line it fails at. *)
LEMMA KeepsAll ==
  ASSUME NEW batch \in Seq(Line), NEW d
  PROVE  \E S \in SUBSET Own(batch, d) : KeepsUpTo(batch, d, S, Len(batch))
<1> DEFINE Good(n) == \E S \in SUBSET Own(batch, d) : KeepsUpTo(batch, d, S, n)
           bad == {n \in Nat : ~ Good(n)}
<1>1. Good(0)
  <2>1. \A i \in Own(batch, d) : ~ (i <= 0)
    BY OwnLines
  <2>2. KeepsUpTo(batch, d, {}, 0)
    BY <2>1 DEF KeepsUpTo
  <2> QED BY <2>2
<1>2. ASSUME NEW n \in Nat, Good(n)
      PROVE  Good(n + 1)
  BY <1>2, KeepsOneMore
<1> HIDE DEF Good
<1>3. bad = {}
  <2>1. SUFFICES ASSUME bad # {}
                 PROVE  FALSE
    OBVIOUS
  <2>2. Min(bad) \in bad /\ \A x \in bad : Min(bad) <= x
    <3>1. bad \in SUBSET Nat
      OBVIOUS
    <3> HIDE DEF bad
    <3> QED BY <2>1, <3>1, LeastOf
  <2>3. PICK n \in Nat : ~ Good(n) /\ \A x \in bad : n <= x
    BY <2>2
  <2>4. n # 0
    BY <1>1, <2>3
  <2>5. n - 1 \in Nat /\ (n - 1) + 1 = n /\ ~ (n <= n - 1)
    BY <2>4
  <2>6. n - 1 \notin bad
    BY <2>3, <2>5
  <2>7. Good(n - 1)
    BY <2>5, <2>6
  <2> QED BY <1>2, <2>3, <2>5, <2>7
<1>4. Good(Len(batch))
  BY <1>3, OwnLines
<1> QED BY <1>4 DEF Good

(* Kept is that set. *)
LEMMA KeptIs ==
  ASSUME NEW batch \in Seq(Line), NEW d
  PROVE  /\ Kept(batch, d) \subseteq Own(batch, d)
         /\ KeepsUpTo(batch, d, Kept(batch, d), Len(batch))
<1> DEFINE own == {i \in DOMAIN batch : batch[i].device = d}
           Obeys(f) ==
             f = [i \in own |->
                    LET before == {j \in own : j < i /\ batch[j].fp = batch[i].fp /\ f[j]} IN
                    before = {} \/ batch[i].time - batch[Max(before)].time > DedupSeconds]
           counted == CHOOSE f : Obeys(f)
<1>1. own = Own(batch, d)
  BY DEF Own
<1>2. PICK S \in SUBSET own : KeepsUpTo(batch, d, S, Len(batch))
  BY <1>1, KeepsAll
<1>3. PICK f : f = [i \in own |-> i \in S]
  OBVIOUS
<1>4. ASSUME NEW i \in own
      PROVE  i \in S <=> LET before == {j \in own : j < i /\ batch[j].fp = batch[i].fp /\ f[j]} IN
                    before = {} \/ batch[i].time - batch[Max(before)].time > DedupSeconds
  <2>1. {j \in own : j < i /\ batch[j].fp = batch[i].fp /\ f[j]} = Before(batch, d, S, i)
    BY <1>1, <1>3 DEF Before
  <2>2. i <= Len(batch)
    BY <1>1, OwnLines
  <2>3. i \in S <=> CountedIn(batch, d, S, i)
    BY <1>1, <1>2, <2>2 DEF KeepsUpTo
  <2> QED BY <2>1, <2>3 DEF CountedIn
<1>5. Obeys(f)
  <2> DEFINE Goes(i) == LET before == {j \in own : j < i /\ batch[j].fp = batch[i].fp /\ f[j]} IN
                          before = {} \/ batch[i].time - batch[Max(before)].time > DedupSeconds
  <2>1. ASSUME NEW i \in own
        PROVE  (i \in S) = Goes(i)
    <3>1. i \in S <=> Goes(i)
      BY <1>4
    <3>2. Goes(i) \in BOOLEAN
      OBVIOUS
    <3> HIDE DEF Goes, own
    <3> QED BY <3>1, <3>2
  <2>2. f = [i \in own |-> Goes(i)]
    <3> HIDE DEF Goes, own
    <3> QED BY <1>3, <2>1
  <2> QED BY <2>2
<1>6. Obeys(counted)
  <2> HIDE DEF Obeys
  <2> QED BY <1>5
<1>7. Kept(batch, d) = {i \in own : counted[i]}
  BY DEF Kept
<1>8. ASSUME NEW i \in own
      PROVE  i \in Kept(batch, d) <=> CountedIn(batch, d, Kept(batch, d), i)
  <2>1. counted[i] <=> LET before == {j \in own : j < i /\ batch[j].fp = batch[i].fp /\ counted[j]} IN
                    before = {} \/ batch[i].time - batch[Max(before)].time > DedupSeconds
    <3> HIDE DEF counted
    <3> QED BY <1>6
  <2>2. {j \in own : j < i /\ batch[j].fp = batch[i].fp /\ counted[j]}
          = Before(batch, d, Kept(batch, d), i)
    <3> HIDE DEF counted
    <3> QED BY <1>1, <1>7 DEF Before
  <2>3. i \in Kept(batch, d) <=> counted[i]
    <3> HIDE DEF counted
    <3> QED BY <1>7
  <2> HIDE DEF counted
  <2> QED BY <2>1, <2>2, <2>3 DEF CountedIn
<1>9. Kept(batch, d) \subseteq own
  <2> HIDE DEF counted
  <2> QED BY <1>7
<1> QED BY <1>1, <1>8, <1>9 DEF KeepsUpTo

(* The first line of a device counts, whatever the window. *)
LEMMA KeptTyped ==
  ASSUME NEW batch \in Batches, NEW d \in Logged(batch)
  PROVE  /\ Cardinality(Kept(batch, d)) \in Nat
         /\ Min(Kept(batch, d)) \in Kept(batch, d)
         /\ batch[Min(Kept(batch, d))].fp \in Nat
<1>1. batch \in Seq(Line)
  BY SamplingAssumption
<1>2. /\ Own(batch, d) \in SUBSET (1 .. Len(batch)) /\ Len(batch) \in Nat
      /\ \A i \in Own(batch, d) : batch[i] \in Line
  BY <1>1, OwnLines
<1>3. Own(batch, d) # {} /\ Own(batch, d) \in SUBSET Nat
  BY <1>2 DEF Own, Logged
<1>4. PICK first \in Own(batch, d) : \A i \in Own(batch, d) : first <= i
  <2>1. Min(Own(batch, d)) \in Own(batch, d) /\ \A i \in Own(batch, d) : Min(Own(batch, d)) <= i
    BY <1>3, LeastOf
  <2> QED BY <2>1
<1>5. Before(batch, d, Kept(batch, d), first) = {}
  BY <1>2, <1>4 DEF Before
<1>6. first \in Kept(batch, d) /\ Kept(batch, d) \subseteq Own(batch, d)
  <2>1. first <= Len(batch)
    BY <1>2
  <2> QED BY <1>1, <1>5, <2>1, KeptIs DEF KeepsUpTo, CountedIn
<1>7. Kept(batch, d) \in SUBSET Nat /\ Kept(batch, d) # {}
  BY <1>2, <1>6
<1>8. Min(Kept(batch, d)) \in Kept(batch, d)
  BY <1>7, LeastOf
<1>9. batch[Min(Kept(batch, d))].fp \in Nat
  <2>1. batch[Min(Kept(batch, d))] \in Line
    BY <1>2, <1>6, <1>8
  <2> QED BY <2>1 DEF Line
<1>10. IsFiniteSet(Kept(batch, d))
  <2>1. IsFiniteSet(1 .. Len(batch))
    BY <1>2, FS_Interval
  <2> QED BY <1>2, <1>6, <2>1, FS_Subset
<1> QED BY <1>8, <1>9, <1>10, FS_CardinalityType
LEMMA SampledTyped ==
  ASSUME NEW r \in Runs, runs[r].batch \in Batches, Due(r) \in Logged(runs[r].batch),
         NEW known \in BOOLEAN
  PROVE  Sampled(r, known) \in Sample
<1> DEFINE batch == runs[r].batch
           d == Due(r)
           judged == Judged[batch][d]
           kept == Kept(batch, d)
<1>1. judged = [abnormal |-> Score(Counts(batch, d)) > 0, create |-> Asks(Counts(batch, d)),
                size |-> Cardinality(kept), fp |-> batch[Min(kept)].fp]
  BY DEF Judged
<1>2. Cardinality(kept) \in Nat /\ batch[Min(kept)].fp \in Nat
  BY KeptTyped
<1>3. /\ judged.size \in Nat /\ judged.fp \in Nat
  <2> HIDE DEF kept, judged
  <2> QED BY <1>1, <1>2
<1>4. judged.abnormal \in BOOLEAN /\ judged.create \in BOOLEAN
  <2>1. (Score(Counts(batch, d)) > 0) \in BOOLEAN
    OBVIOUS
  <2>2. Asks(Counts(batch, d)) \in BOOLEAN
    BY DEF Asks
  <2> HIDE DEF judged
  <2> QED BY <1>1, <2>1, <2>2
<1>5. Sampled(r, known) =
        [state |-> "pending", abnormal |-> judged.abnormal, create |-> judged.create,
         known |-> known, fp |-> judged.fp, size |-> judged.size, case |-> 0,
         event |-> IF judged.abnormal THEN "new" ELSE "none"]
  BY DEF Sampled
<1> HIDE DEF judged
<1> QED BY <1>3, <1>4, <1>5 DEF Sample

-----------------------------------------------------------------------------
(* The rows keep their types.                                              *)

Anomaly == [run : Runs, device : Devices, fp : Nat, size : Nat]

RowsInv ==
  /\ samples \in [SampleIds -> Sample]
  /\ anomalies \subseteq Anomaly
  /\ graphs \subseteq DOMAIN cases
  /\ enabled \in BOOLEAN
  /\ env \in [EnvKinds -> Nat]

LEMMA HappensTyped ==
  ASSUME RowsInv, NEW kind \in EnvKinds, Happens(kind)
  PROVE  env' \in [EnvKinds -> Nat]
BY DEF RowsInv, Happens

(* Nothing is written but the counter of the environment. *)
LEMMA RowsStay ==
  ASSUME RowsInv, DOMAIN cases \subseteq DOMAIN cases',
         UNCHANGED <<samples, anomalies, graphs>>,
         UNCHANGED enabled \/ enabled' = ~enabled,
         UNCHANGED env \/ \E kind \in EnvKinds : Happens(kind)
  PROVE  RowsInv'
<1>1. env' \in [EnvKinds -> Nat]
  BY HappensTyped DEF RowsInv
<1>2. enabled' \in BOOLEAN
  BY DEF RowsInv
<1> QED BY <1>1, <1>2 DEF RowsInv, Anomaly

(* A row is written, or is lost. *)
LEMMA SettledTyped ==
  ASSUME RowsInv, NEW r \in Runs, NEW row \in Sample, NEW became
  PROVE  Settled(r, row, became) \in [SampleIds -> Sample]
<1>1. NoSample \in Sample
  BY DEF NoSample, Sample
<1>2. ASSUME NEW now \in Sample
      PROVE  [now EXCEPT !.state = "stored"] \in Sample
  BY DEF Sample
<1> DEFINE Now(s) == IF s = <<r, Due(r)>> THEN row ELSE samples[s]
           Then(now) == IF now.state = "pending"
                        THEN IF became = "stored" THEN [now EXCEPT !.state = "stored"]
                             ELSE IF became = "lost" THEN NoSample ELSE now
                        ELSE now
<1>3. ASSUME NEW s \in SampleIds
      PROVE  Now(s) \in Sample /\ Then(Now(s)) \in Sample
  <2>1. Now(s) \in Sample
    BY DEF RowsInv
  <2> HIDE DEF Now
  <2> QED BY <1>1, <1>2, <2>1
<1>4. Settled(r, row, became) = [s \in SampleIds |-> IF s[1] = r THEN Then(Now(s)) ELSE Now(s)]
  BY DEF Settled
<1> HIDE DEF Now, Then
<1> QED BY <1>3, <1>4

LEMMA WriteRows ==
  ASSUME SamplingInv, RowsInv, NEW r \in Runs, runs[r].todo # {}, NEW known \in Known[Due(r)],
         Write(r, known) \/ WriteAnomaly(r, known)
  PROVE  RowsInv'
<1>1. runs[r].at = "netbox" /\ UNCHANGED <<cases, graphs, enabled, env>>
  BY DEF Write, WriteAnomaly
<1>2. PICK row : row = Sampled(r, known)
  OBVIOUS
<1>3. row \in Sample /\ Due(r) \in Devices
  <2>1. Due(r) \in Devices /\ runs[r].batch \in Batches /\ Due(r) \in Logged(runs[r].batch)
    BY <1>1, DueIsOneOfThem DEF SamplingInv, RunsAhead
  <2>2. known \in BOOLEAN
    BY <2>1, SamplingAssumption
  <2> QED BY <1>2, <2>1, <2>2, SampledTyped
<1>4. samples' \in [SampleIds -> Sample]
  BY <1>2, <1>3, SettledTyped DEF Write, WriteAnomaly
<1>5. anomalies' \subseteq Anomaly
  <2>1. row.fp \in Nat /\ row.size \in Nat
    BY <1>3 DEF Sample
  <2>2. [run |-> r, device |-> Due(r), fp |-> row.fp, size |-> row.size] \in Anomaly
    BY <1>3, <2>1 DEF Anomaly
  <2>3. \/ anomalies' = anomalies
        \/ anomalies' = anomalies \cup {[run |-> r, device |-> Due(r), fp |-> row.fp, size |-> row.size]}
    BY <1>2 DEF Write, WriteAnomaly
  <2> QED BY <2>2, <2>3 DEF RowsInv
<1> QED BY <1>1, <1>4, <1>5 DEF RowsInv

LEMMA WriteBrokenRows ==
  ASSUME SamplingInv, RowsInv, NEW r \in Runs, WriteBroken(r)
  PROVE  RowsInv'
<1>1. runs[r].at = "netbox" /\ UNCHANGED <<anomalies, cases, graphs, enabled>>
  BY DEF WriteBroken
<1>2. PICK row : row = Sampled(r, TRUE)
  OBVIOUS
<1>3. row \in Sample
  <2>1. runs[r].batch \in Batches /\ Due(r) \in Logged(runs[r].batch)
    BY <1>1, DueIsOneOfThem DEF SamplingInv, RunsAhead
  <2> QED BY <1>2, <2>1, SampledTyped
<1>4. samples' \in [SampleIds -> Sample]
  BY <1>2, <1>3, SettledTyped DEF WriteBroken
<1>5. env' \in [EnvKinds -> Nat]
  <2>1. Happens("broken") /\ "broken" \in EnvKinds
    BY DEF WriteBroken, EnvKinds
  <2> QED BY <2>1, HappensTyped
<1> QED BY <1>1, <1>4, <1>5 DEF RowsInv

(* A rollback or a crash. *)
LEMMA LostRows ==
  ASSUME SamplingInv, RowsInv, (\E r \in Runs : WriteFailed(r)) \/ Crash
  PROVE  RowsInv'
<1>1. NoSample \in Sample
  BY DEF NoSample, Sample
<1>2. samples' \in [SampleIds -> Sample] /\ UNCHANGED <<anomalies, cases, graphs, enabled>>
  BY <1>1 DEF WriteFailed, Crash, RowsInv
<1>3. env' \in [EnvKinds -> Nat]
  <2>1. (Happens("fail") \/ Happens("crash")) /\ "fail" \in EnvKinds /\ "crash" \in EnvKinds
    BY DEF WriteFailed, Crash, EnvKinds
  <2> QED BY <2>1, HappensTyped
<1> QED BY <1>2, <1>3 DEF RowsInv

(* The row of a sample says what became of it. *)
LEMMA LinkTyped ==
  ASSUME NEW old \in Sample, NEW c \in Nat, NEW event \in {"none", "new", "correlated", "case_created"}
  PROVE  [old EXCEPT !.case = c, !.event = event] \in Sample
BY DEF Sample

LEMMA CreateRows ==
  ASSUME SamplingInv, RowsInv, NEW s \in StoredIds, NEW steps \in 1 .. 3, Create(s, steps),
         UNCHANGED <<anomalies, enabled>>,
         UNCHANGED env \/ \E kind \in EnvKinds : Happens(kind)
  PROVE  RowsInv'
<1>1. PICK own : own = IF OwnCases(s) # {} THEN Max(OwnCases(s)) ELSE Len(cases) + 1
  OBVIOUS
<1>2. s \in SampleIds /\ samples[s].state = "stored" /\ samples[s] \in Sample
  BY DEF StoredIds, RowsInv
<1>3. \A x \in SampleIds : samples'[x].state = samples[x].state
  BY <1>2, Created
<1>4. /\ cases' = Filed(s)
      /\ graphs' = IF steps >= 2 THEN graphs \cup {own} ELSE graphs
      /\ samples' = IF steps = 3 THEN Recorded(s, own)
                    ELSE [samples EXCEPT ![s].event = IF @ = "none" THEN "case_created" ELSE @]
  BY <1>1 DEF Create
<1>5. Grown /\ own \in Nat /\ own \in DOMAIN cases'
  BY <1>1, <1>2, <1>3, <1>4, FiledOnce
<1>6. graphs' \subseteq DOMAIN cases'
  BY <1>4, <1>5 DEF RowsInv, Grown
<1>7. samples' \in [SampleIds -> Sample]
  <2>1. PICK old : old = samples[s]
    OBVIOUS
  <2>2. /\ old \in Sample /\ old.case \in Nat /\ old = [old EXCEPT !.case = old.case]
        /\ old.event \in {"none", "new", "correlated", "case_created"}
    BY <1>2, <2>1 DEF Sample
  <2>3. PICK event : event = IF old.event = "none" THEN "case_created" ELSE old.event
    OBVIOUS
  <2>4. PICK filed, marked :
          /\ filed = [old EXCEPT !.case = own, !.event = "case_created"]
          /\ marked = [old EXCEPT !.case = old.case, !.event = event]
    OBVIOUS
  <2>5. filed \in Sample /\ marked \in Sample
    BY <1>5, <2>2, <2>3, <2>4, LinkTyped
  <2>6. samples' = [samples EXCEPT ![s] = filed] \/ samples' = [samples EXCEPT ![s] = marked]
    <3>1. CASE steps = 3
      <4>1. samples' = [samples EXCEPT ![s] = filed]
        BY <1>2, <1>4, <2>1, <2>4, <3>1 DEF Recorded, RowsInv
      <4> QED BY <4>1
    <3>2. CASE steps # 3
      <4>1. marked = [old EXCEPT !.event = event]
        BY <2>2, <2>4 DEF Sample
      <4>2. samples' = [samples EXCEPT ![s] = marked]
        BY <1>2, <1>4, <2>1, <2>3, <3>2, <4>1 DEF RowsInv
      <4> QED BY <4>2
    <3> QED BY <3>1, <3>2
  <2> QED BY <2>5, <2>6 DEF RowsInv
<1>8. env' \in [EnvKinds -> Nat]
  BY HappensTyped DEF RowsInv
<1> QED BY <1>6, <1>7, <1>8 DEF RowsInv

LEMMA CorrelateRows ==
  ASSUME SamplingInv, RowsInv, NEW r \in Runs, NEW s \in tasks[r].asked, Correlate(r, s)
  PROVE  RowsInv'
<1>1. PICK c : c = Parent(r, s)
  OBVIOUS
<1>2. s \in SampleIds
  BY TaskRow DEF StoredIds
<1>3. c \in DOMAIN cases /\ DOMAIN cases \subseteq Nat
  BY <1>1, <1>2, ParentWasFound DEF Correlate, SamplingInv, Typed
<1>4. PICK row : row = [samples[s] EXCEPT !.case = c, !.event = "correlated"]
  OBVIOUS
<1>5. row \in Sample
  BY <1>2, <1>3, <1>4, LinkTyped DEF RowsInv
<1>6. samples' = [samples EXCEPT ![s] = row]
  BY <1>1, <1>2, <1>4 DEF Correlate, RowsInv
<1>7. DOMAIN cases' = DOMAIN cases /\ UNCHANGED <<anomalies, graphs, enabled, env>>
  BY DEF Correlate
<1> QED BY <1>2, <1>5, <1>6, <1>7 DEF RowsInv

LEMMA RowsInvStep ==
  ASSUME SamplingInv, RowsInv, [Next]_vars
  PROVE  RowsInv'
<1> USE DEF EnvKinds
<1>1. ASSUME NEW r \in Runs,
             Start(r) \/ Fetched(r) \/ FetchFailed(r) \/ Spawned(r) \/ Ended(r)
      PROVE  RowsInv'
  BY <1>1, RowsStay DEF Start, Fetched, FetchFailed, Spawned, Ended
<1>2. ASSUME NEW r \in Runs, RunStep(r)
      PROVE  RowsInv'
  BY <1>1, <1>2, WriteRows DEF RunStep
<1>3. ASSUME NEW r \in Runs, NEW s \in tasks[r].queue,
             Skip(r, s) \/ CreateAlone(r, s) \/ Ask(r, s) \/ CreateRaised(r, s)
      PROVE  RowsInv'
  <2>1. CASE Skip(r, s) \/ Ask(r, s)
    BY <2>1, RowsStay DEF Skip, Ask
  <2>2. CASE CreateAlone(r, s) \/ CreateRaised(r, s)
    <3>1. s \in StoredIds /\ UNCHANGED <<anomalies, enabled>>
      BY <2>2, TaskRow DEF CreateAlone, CreateRaised
    <3>2. PICK steps \in 1 .. 3 : Create(s, steps)
      BY <2>2 DEF CreateAlone, CreateRaised
    <3>3. UNCHANGED env \/ \E kind \in EnvKinds : Happens(kind)
      BY <2>2 DEF CreateAlone, CreateRaised
    <3> QED BY <3>1, <3>2, <3>3, CreateRows
  <2> QED BY <1>3, <2>1, <2>2
<1>4. ASSUME NEW r \in Runs, NEW s \in tasks[r].asked, NotCorrelated(r, s)
      PROVE  RowsInv'
  <2>1. s \in StoredIds /\ Create(s, 3) /\ UNCHANGED <<anomalies, enabled, env>>
    BY <1>4, TaskRow DEF NotCorrelated
  <2> QED BY <2>1, CreateRows
<1>5. ASSUME NEW r \in Runs, TaskStep(r)
      PROVE  RowsInv'
  BY <1>1, <1>3, <1>4, <1>5, CorrelateRows DEF TaskStep
<1>6. ASSUME NEW s \in SampleIds, Manual(s)
      PROVE  RowsInv'
  <2>1. s \in StoredIds /\ UNCHANGED <<anomalies, enabled>> /\ Happens("manual")
    BY <1>6 DEF Manual, StoredIds
  <2>2. PICK steps \in 1 .. 3 : Create(s, steps)
    BY <1>6 DEF Manual
  <2> QED BY <2>1, <2>2, CreateRows
<1>7. ASSUME NEW d \in Devices, CaseElsewhere(d)
      PROVE  RowsInv'
  <2>1. PICK case : case = [sample |-> Elsewhere, device |-> d, open |-> TRUE, derived |-> {}]
    OBVIOUS
  <2>2. cases' = Append(cases, case) /\ case \in Case /\ cases \in Seq(Case)
    BY <1>7, <2>1 DEF CaseElsewhere, Case, SamplingInv, Typed
  <2>3. DOMAIN cases \subseteq DOMAIN cases'
    BY <2>2, AppendGrown
  <2> QED BY <1>7, <2>3, RowsStay DEF CaseElsewhere
<1>8. ASSUME NEW c \in DOMAIN cases, CloseCase(c)
      PROVE  RowsInv'
  <2>1. DOMAIN cases' = DOMAIN cases
    BY <1>8 DEF CloseCase
  <2> QED BY <1>8, <2>1, RowsStay DEF CloseCase
<1>9. CASE Toggle \/ UNCHANGED vars
  BY <1>9, RowsStay DEF Toggle, vars
<1> QED BY <1>1, <1>2, <1>3, <1>5, <1>6, <1>7, <1>8, <1>9, WriteBrokenRows, LostRows DEF Next

LEMMA RowsInvInit ==
  ASSUME Init
  PROVE  RowsInv
<1>1. NoSample \in Sample
  BY DEF NoSample, Sample
<1> QED BY <1>1 DEF Init, RowsInv

(* TypeOK: the samples, anomalies and cases, the runs and tasks and what they have
   in memory keep their types; every link and every graph is of a case that is
   there; and a sample that is written has a fingerprint, as the first line of a
   device always counts. *)
THEOREM SamplingTypeCorrect == Spec => []TypeOK
<1>1. SamplingInv /\ RowsInv => TypeOK
  <2> SUFFICES ASSUME SamplingInv, RowsInv
               PROVE  TypeOK
    OBVIOUS
  <2>1. \A s \in SampleIds : samples[s].case \in {0} \cup DOMAIN cases
    BY DEF SamplingInv, Backed, Backs
  <2> QED BY <2>1 DEF SamplingInv, Typed, RowsInv, Anomaly, TypeOK
<1>2. Init => SamplingInv /\ RowsInv
  BY SamplingInvInit, RowsInvInit
<1>3. SamplingInv /\ RowsInv /\ [Next]_vars => SamplingInv' /\ RowsInv'
  BY SamplingInvStep, RowsInvStep
<1> QED BY <1>1, <1>2, <1>3, PTL DEF Spec
=============================================================================
