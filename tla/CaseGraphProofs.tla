--------------------------- MODULE CaseGraphProofs ---------------------------
(***************************************************************************)
(* What the graph promises for every number of runs, workers, retries and  *)
(* requests: that the case only takes allowed edges, the invariant of the   *)
(* rows, and on top of it that calls are sent once, the lease excludes, the *)
(* human gate reopens, no run is stranded, the budget is an exact ledger,   *)
(* and a run is completed only past the diagnostic gates.                   *)
(***************************************************************************)
EXTENDS CaseGraph, SequenceTheorems, FiniteSetTheorems, WellFoundedInduction, TLAPS

-----------------------------------------------------------------------------
(* The status of the case.                                                 *)

(* Whatever task a worker executes, the case stays or takes an allowed edge. *)
LEMMA WorkMovesAllowed ==
  ASSUME NEW w \in Workers, Work(w)
  PROVE  case' = case \/ case' \in Allowed[case]
<1>1. CASE Claim(w) \/ Reread(w) \/ BeginRefused(w) \/ Release(w)
  BY <1>1 DEF Claim, Reread, BeginRefused, Release
<1>2. CASE Normalize(w)
  <2>1. "normalized" \in Allowed["new"] /\ "normalized" \in Allowed["open"]
    BY DEF Allowed
  <2> QED BY <1>2, <2>1 DEF Normalize
<1>3. CASE Supervise(w)
  <2>1. PICK fresh \in BOOLEAN : CanMove(case, case')
    BY <1>3 DEF Supervise
  <2> QED BY <2>1 DEF CanMove
<1>4. CASE AgentNode(w)
  BY <1>4 DEF AgentNode, Triage, Historical, Diagnostic, Critic, PlanCandidate, SafetyReview, CanMove
<1>5. CASE Collection(w)
  BY <1>5 DEF Collection, WaitHuman, StartProbe, RejectProbe, ProbeRefused, StartInitialProbe,
              RejectInitialProbe, FinishProbe, CollectDone
<1>6. CASE Exhaust(w) \/ ExhaustEscapes(w) \/ FailTask(w)
  BY <1>6 DEF Exhaust, ExhaustEscapes, FailTask, CanMove
<1> QED BY <1>1, <1>2, <1>3, <1>4, <1>5, <1>6 DEF Work

(* The plan pipeline's own moves are edges of the table as well. *)
LEMMA PipelineMovesAllowed ==
  ASSUME PlanPipelineMove
  PROVE  case' \in Allowed[case]
<1>1. \A from \in DOMAIN PlanMoves : PlanMoves[from] \subseteq Allowed[from]
  BY DEF PlanMoves, Allowed, GiveUp
<1> QED BY <1>1 DEF PlanPipelineMove

(* The graph, its workers, the plan pipeline and every failure together
   implement the status machine that CaseStateService promises. *)
THEOREM GraphFollowsLifecycle == Spec => CaseFollowsLifecycle
<1>1. Init => Lifecycle!Init
  BY DEF Init, Lifecycle!Init
<1>2. [Next]_vars => [Lifecycle!Move]_case
  <2> SUFFICES ASSUME [Next]_vars
               PROVE  case' = case \/ case' \in Allowed[case]
    BY DEF Lifecycle!Move, Lifecycle!Allowed, Lifecycle!GiveUp, Allowed, GiveUp
  <2>1. CASE \E r \in Runs : Enqueue(r) \/ ResumeHuman(r) \/ LeaseExpire(r) \/ Elapse(r)
    BY <2>1 DEF Enqueue, ResumeHuman, LeaseExpire, Elapse
  <2>2. CASE \E w \in Workers : Work(w)
    BY <2>2, WorkMovesAllowed
  <2>3. CASE \E w \in Workers : Crash(w) \/ RenewalBlocks(w)
    BY <2>3 DEF Crash, RenewalBlocks
  <2>4. CASE OtherProbe
    BY <2>4 DEF OtherProbe
  <2>5. CASE PlanPipelineMove
    BY <2>5, PipelineMovesAllowed
  <2>6. CASE UNCHANGED vars
    BY <2>6 DEF vars
  <2> QED BY <2>1, <2>2, <2>3, <2>4, <2>5, <2>6 DEF Next
<1> QED BY <1>1, <1>2, PTL DEF Spec, CaseFollowsLifecycle, Lifecycle!Spec

-----------------------------------------------------------------------------
(* Sequences of task rows.                                                 *)

TodoRows == Seq([node : Nodes, round : Nat, prio : {80, 90, 100}])

(* A run's task rows are well formed: each is a task, and its round is at
   most its place in the order of ids. *)
RowsOK(ts) == ts \in Seq(Task) /\ \A t \in DOMAIN ts : ts[t].round <= t

LEMMA RowRounds ==
  ASSUME NEW ts, RowsOK(ts)
  PROVE  /\ Len(ts) \in Nat /\ DOMAIN ts = 1 .. Len(ts)
         /\ \A t \in 1 .. Len(ts) : ts[t].round \in Nat /\ ts[t].round <= t
<1>1. /\ Len(ts) \in Nat /\ DOMAIN ts = 1 .. Len(ts)
      /\ \A t \in 1 .. Len(ts) : ts[t] \in Task
  BY LenProperties, ElementOfSeq DEF RowsOK
<1>2. \A row \in Task : row.round \in Nat
  BY DEF Task
<1> QED BY <1>1, <1>2 DEF RowsOK

(* A rewriting of rows in place. *)
LEMMA RewriteOK ==
  ASSUME NEW ts, RowsOK(ts), NEW us, DOMAIN us = DOMAIN ts,
         us \in [DOMAIN ts -> Task],
         \A t \in DOMAIN ts : us[t].round = ts[t].round
  PROVE  RowsOK(us) /\ Len(us) = Len(ts)
<1>1. /\ Len(ts) \in Nat /\ DOMAIN ts = 1 .. Len(ts)
  BY LenProperties DEF RowsOK
<1>2. us \in Seq(Task)
  BY <1>1, SeqDef
<1>3. Len(us) \in Nat /\ DOMAIN us = 1 .. Len(us)
  BY <1>2, LenProperties
<1> QED BY <1>1, <1>2, <1>3 DEF RowsOK

LEMMA ExceptOK ==
  ASSUME NEW ts, RowsOK(ts), NEW t \in DOMAIN ts, NEW row \in Task, row.round = ts[t].round
  PROVE  /\ RowsOK([ts EXCEPT ![t] = row])
         /\ Len([ts EXCEPT ![t] = row]) = Len(ts)
<1>1. ts \in [1 .. Len(ts) -> Task] /\ DOMAIN ts = 1 .. Len(ts)
  BY LenProperties DEF RowsOK
<1> QED BY <1>1, RewriteOK

(* New rows are well formed if their rounds are at most one more than the
   number of rows there were, and the old rows stay where they are. *)
LEMMA CreateOK ==
  ASSUME NEW ts, RowsOK(ts), NEW todo \in TodoRows,
         \A i \in DOMAIN todo : todo[i].round <= Len(ts) + 1
  PROVE  /\ RowsOK(Create(ts, todo))
         /\ Len(Create(ts, todo)) = Len(ts) + Len(todo)
         /\ \A t \in DOMAIN ts : t \in DOMAIN Create(ts, todo) /\ Create(ts, todo)[t] = ts[t]
         /\ \A t \in DOMAIN Create(ts, todo) : t \notin DOMAIN ts => Create(ts, todo)[t].calls = NoCalls
<1> DEFINE new == [i \in 1 .. Len(todo) |->
                    [node |-> todo[i].node, round |-> todo[i].round, prio |-> todo[i].prio,
                     born |-> Len(ts), status |-> "ready", attempts |-> 0, out |-> {},
                     calls |-> NoCalls]]
<1>1. /\ Len(todo) \in Nat /\ DOMAIN todo = 1 .. Len(todo)
      /\ Len(ts) \in Nat /\ DOMAIN ts = 1 .. Len(ts)
      /\ \A i \in 1 .. Len(todo) : todo[i] \in [node : Nodes, round : Nat, prio : {80, 90, 100}]
  <2> DEFINE Row == [node : Nodes, round : Nat, prio : {80, 90, 100}]
  <2>1. todo \in Seq(Row) /\ ts \in Seq(Task)
    BY DEF TodoRows, RowsOK
  <2> HIDE DEF Row
  <2>2. Len(todo) \in Nat /\ DOMAIN todo = 1 .. Len(todo)
    BY <2>1, LenProperties, Zenon
  <2>3. Len(ts) \in Nat /\ DOMAIN ts = 1 .. Len(ts)
    BY <2>1, LenProperties, Zenon
  <2>4. \A i \in 1 .. Len(todo) : todo[i] \in Row
    BY <2>1, ElementOfSeq, Zenon
  <2> QED BY <2>2, <2>3, <2>4 DEF Row
<1>2. NoCalls \in [Calls -> CallStatus]
  BY DEF NoCalls, CallStatus
<1>3. \A i \in 1 .. Len(todo) : new[i] \in Task
  BY <1>1, <1>2 DEF Task, TaskStatus
<1>4. new \in [1 .. Len(todo) -> Task]
  BY <1>3
<1>5. new \in Seq(Task)
  BY <1>1, <1>4, SeqDef
<1>6. Len(new) = Len(todo)
  <2>1. Len(new) \in Nat /\ DOMAIN new = 1 .. Len(new)
    BY <1>5, LenProperties
  <2>2. DOMAIN new = 1 .. Len(todo)
    OBVIOUS
  <2> QED BY <1>1, <2>1, <2>2
<1>7. Create(ts, todo) = ts \o new
  BY DEF Create
<1> HIDE DEF new
<1>8. /\ ts \o new \in Seq(Task)
      /\ Len(ts \o new) = Len(ts) + Len(todo)
      /\ \A i \in 1 .. Len(ts) + Len(todo) :
           (ts \o new)[i] = IF i <= Len(ts) THEN ts[i] ELSE new[i - Len(ts)]
  <2>1. ts \in Seq(Task)
    BY DEF RowsOK
  <2>2. /\ ts \o new \in Seq(Task)
        /\ Len(ts \o new) = Len(ts) + Len(new)
        /\ \A i \in 1 .. Len(ts) + Len(new) :
             (ts \o new)[i] = IF i <= Len(ts) THEN ts[i] ELSE new[i - Len(ts)]
    BY <1>5, <2>1, ConcatProperties, Zenon
  <2> QED BY <1>6, <2>2, Zenon
<1>9. DOMAIN (ts \o new) = 1 .. Len(ts) + Len(todo)
  BY <1>8, LenProperties
<1>10. \A i \in 1 .. Len(todo) : new[i].round = todo[i].round /\ new[i].calls = NoCalls
  BY DEF new
<1>11. \A t \in DOMAIN (ts \o new) : (ts \o new)[t].round <= t
  <2> SUFFICES ASSUME NEW t \in 1 .. Len(ts) + Len(todo)
               PROVE  (ts \o new)[t].round <= t
    BY <1>9
  <2>1. CASE t <= Len(ts)
    BY <2>1, <1>1, <1>8 DEF RowsOK
  <2>2. CASE t > Len(ts)
    <3>1. t - Len(ts) \in 1 .. Len(todo)
      BY <2>2, <1>1
    <3>2. (ts \o new)[t].round = todo[t - Len(ts)].round
      BY <2>2, <3>1, <1>1, <1>8, <1>10
    <3>3. todo[t - Len(ts)].round <= Len(ts) + 1 /\ todo[t - Len(ts)].round \in Nat
      BY <3>1, <1>1
    <3> QED BY <3>2, <3>3, <2>2, <1>1
  <2>3. t \in Nat /\ Len(ts) \in Nat /\ (t <= Len(ts) \/ t > Len(ts))
    BY <1>1
  <2> QED BY <2>1, <2>2, <2>3
<1>12. \A t \in DOMAIN (ts \o new) : t \notin DOMAIN ts => (ts \o new)[t].calls = NoCalls
  BY <1>1, <1>8, <1>9, <1>10
<1> QED BY <1>1, <1>7, <1>8, <1>9, <1>11, <1>12 DEF RowsOK

(* A non-empty set of naturals with an upper bound has a greatest element. *)
LEMMA GreatestExists ==
  ASSUME NEW n \in Nat, NEW S \in SUBSET (0 .. n), S # {}
  PROVE  \E m \in S : \A k \in S : k <= m
<1> DEFINE below == {n - k : k \in S}
<1>1. below \subseteq Nat /\ below # {}
  <2>1. \A k \in S : n - k \in Nat
    OBVIOUS
  <2>2. PICK k \in S : TRUE
    OBVIOUS
  <2>3. n - k \in below
    OBVIOUS
  <2> QED BY <2>1, <2>3
<1>2. PICK x \in below : \A y \in below : ~(<<y, x>> \in OpToRel(<, Nat))
  BY <1>1, NatLessThanWellFounded, WFMin
<1>3. \A y \in below : ~(y < x)
  BY <1>1, <1>2 DEF OpToRel
<1>4. PICK m \in S : x = n - m
  OBVIOUS
<1>5. \A k \in S : k <= m
  <2> SUFFICES ASSUME NEW k \in S PROVE k <= m
    OBVIOUS
  <2>1. k \in Int /\ m \in Int
    OBVIOUS
  <2>2. ~(n - k < n - m)
    BY <1>3, <1>4
  <2> QED BY <2>1, <2>2
<1> QED BY <1>5

(* Once a diagnosis has completed, the supervisor finds the latest one. *)
LEMMA LatestExists ==
  ASSUME NEW r \in Runs, RowsOK(tasks[r]), Done(r, "diagnostic") # {}
  PROVE  Latest(r) \in Done(r, "diagnostic")
<1> DEFINE D == Done(r, "diagnostic")
           Round(t) == tasks[r][t].round
           N == Len(tasks[r])
           rounds == {Round(t) : t \in D}
<1>1. /\ N \in Nat /\ DOMAIN tasks[r] = 1 .. N
      /\ \A t \in 1 .. N : Round(t) \in Nat /\ Round(t) <= t
  BY RowRounds
<1>2. D \subseteq 1 .. N
  BY <1>1 DEF Done
<1>3. rounds \in SUBSET (0 .. N) /\ rounds # {}
  BY <1>1, <1>2
<1> HIDE DEF D
<1>4. PICK top \in rounds : \A k \in rounds : k <= top
  BY <1>1, <1>3, GreatestExists
<1> DEFINE T == {t \in D : Round(t) = top}
<1>5. T \in SUBSET (0 .. N) /\ T # {}
  <2>1. PICK t \in D : top = Round(t)
    OBVIOUS
  <2>2. t \in T
    BY <2>1
  <2>3. T \subseteq 0 .. N
    <3>1. T \subseteq D
      OBVIOUS
    <3>2. 1 .. N \subseteq 0 .. N
      BY <1>1
    <3> QED BY <3>1, <3>2, <1>2
  <2> QED BY <2>2, <2>3
<1>6. PICK last \in T : \A k \in T : k <= last
  BY <1>1, <1>5, GreatestExists
<1>7. \A s \in D : \/ Round(s) < Round(last)
                   \/ Round(s) = Round(last) /\ s <= last
  <2> SUFFICES ASSUME NEW s \in D
               PROVE  Round(s) < Round(last) \/ (Round(s) = Round(last) /\ s <= last)
    OBVIOUS
  <2>1. Round(last) = top
    OBVIOUS
  <2>2. Round(s) \in Nat /\ Round(last) \in Nat
    BY <1>1, <1>2
  <2>3. Round(s) \in rounds
    OBVIOUS
  <2>4. Round(s) <= top
    BY <2>3, <1>4
  <2>5. CASE Round(s) = top
    <3>1. s \in T
      BY <2>5
    <3> QED BY <3>1, <2>1, <2>5, <1>6
  <2> QED BY <2>1, <2>2, <2>4, <2>5
<1>8. \E t \in Done(r, "diagnostic") : \A s \in Done(r, "diagnostic") :
        \/ tasks[r][s].round < tasks[r][t].round
        \/ tasks[r][s].round = tasks[r][t].round /\ s <= t
  BY <1>6, <1>7 DEF D
<1> QED BY <1>8 DEF Latest

OneRow(node, round, prio) == <<Todo(node, round, prio)>>

LEMMA RowOf ==
  ASSUME NEW node \in Nodes, NEW round \in Nat, NEW prio \in {80, 90, 100}
  PROVE  /\ OneRow(node, round, prio) \in TodoRows
         /\ \A i \in DOMAIN OneRow(node, round, prio) : OneRow(node, round, prio)[i].round = round
<1> DEFINE Row == [node : Nodes, round : Nat, prio : {80, 90, 100}]
<1>1. Todo(node, round, prio) \in Row /\ Todo(node, round, prio).round = round
  BY DEF Todo
<1> HIDE DEF Row
<1>2. <<Todo(node, round, prio)>> \in Seq(Row)
  BY <1>1
<1> QED BY <1>1, <1>2 DEF TodoRows, Row, OneRow

TwoRows(a, p, b, q) == <<Todo(a, 0, p), Todo(b, 0, q)>>

LEMMA RowsOf ==
  ASSUME NEW a \in Nodes, NEW b \in Nodes, NEW p \in {80, 90, 100}, NEW q \in {80, 90, 100}
  PROVE  /\ TwoRows(a, p, b, q) \in TodoRows
         /\ \A i \in DOMAIN TwoRows(a, p, b, q) : TwoRows(a, p, b, q)[i].round = 0
<1> DEFINE Row == [node : Nodes, round : Nat, prio : {80, 90, 100}]
<1>1. /\ Todo(a, 0, p) \in Row /\ Todo(b, 0, q) \in Row
      /\ Todo(a, 0, p).round = 0 /\ Todo(b, 0, q).round = 0
  BY DEF Todo
<1> HIDE DEF Row
<1>2. <<Todo(a, 0, p), Todo(b, 0, q)>> \in Seq(Row)
  BY <1>1
<1>3. DOMAIN <<Todo(a, 0, p), Todo(b, 0, q)>> = {1, 2}
  OBVIOUS
<1> QED BY <1>1, <1>2, <1>3 DEF TodoRows, Row, TwoRows

(* What the supervisor schedules are rows that may be created. *)
LEMMA DecisionsScheduleRows ==
  ASSUME NEW r \in Runs, RowsOK(tasks[r]), NEW fresh \in BOOLEAN
  PROVE  LET todo == NextTasks(r, Decide(r, fresh)) IN
           todo \in TodoRows /\ \A i \in DOMAIN todo : todo[i].round <= Len(tasks[r]) + 1
<1> DEFINE d == Decide(r, fresh)
           Row == [node : Nodes, round : Nat, prio : {80, 90, 100}]
<1>1. /\ Len(tasks[r]) \in Nat /\ DOMAIN tasks[r] = 1 .. Len(tasks[r])
      /\ \A t \in 1 .. Len(tasks[r]) : tasks[r][t].round \in Nat /\ tasks[r][t].round <= t
  BY RowRounds
<1>2. CASE d \in {"collect_requested", "rerun_diagnostics", "run_critic"}
  <2>1. Done(r, "diagnostic") # {}
    BY <1>2 DEF Decide
  <2>2. Latest(r) \in 1 .. Len(tasks[r])
    BY <2>1, <1>1, LatestExists DEF Done
  <2>3. /\ LatestRound(r) \in Nat /\ LatestRound(r) <= Len(tasks[r])
        /\ LatestRound(r) + 1 \in Nat
    BY <2>2, <1>1 DEF LatestRound
  <2>4. PICK n \in Nodes, k \in {LatestRound(r), LatestRound(r) + 1}, p \in {80, 100} :
          NextTasks(r, d) = OneRow(n, k, p)
    BY <1>2 DEF NextTasks, NextRound, Nodes, OneRow
  <2>5. k \in Nat /\ k <= Len(tasks[r]) + 1 /\ p \in {80, 90, 100}
    BY <2>3, <1>1
  <2> QED BY <2>4, <2>5, RowOf
<1>3. CASE d \in {"collect_initial", "plan", "safety_review"}
  <2>1. PICK n \in Nodes : NextTasks(r, d) = OneRow(n, 0, 100)
    BY <1>3 DEF NextTasks, Nodes, OneRow
  <2>2. 0 <= Len(tasks[r]) + 1
    BY <1>1
  <2> QED BY <2>1, <2>2, RowOf
<1>4. CASE d = "run_diagnostics"
  <2>1. NextTasks(r, d) = TwoRows("historical", 90, "diagnostic", 100)
    BY <1>4 DEF NextTasks, TwoRows
  <2>2. 0 <= Len(tasks[r]) + 1 /\ "historical" \in Nodes /\ "diagnostic" \in Nodes
        /\ 90 \in {80, 90, 100} /\ 100 \in {80, 90, 100}
    BY <1>1 DEF Nodes
  <2> DEFINE todo == TwoRows("historical", 90, "diagnostic", 100)
  <2>3. todo \in TodoRows /\ \A i \in DOMAIN todo : todo[i].round = 0
    BY <2>2, RowsOf
  <2> HIDE DEF todo
  <2> QED BY <2>1, <2>2, <2>3 DEF todo
<1>5. CASE d \notin {"collect_requested", "rerun_diagnostics", "run_critic", "collect_initial",
                     "plan", "safety_review", "run_diagnostics"}
  <2>1. NextTasks(r, d) = <<>>
    BY <1>5 DEF NextTasks
  <2> QED BY <2>1, EmptySeq DEF TodoRows
<1> QED BY <1>2, <1>3, <1>4, <1>5

-----------------------------------------------------------------------------
(* The inductive invariant behind type correctness: task rows are well formed,
   a busy worker holds a run and a row of it, and a run nobody has enqueued
   has no rows.                                                            *)

AllRowsOK == \A r \in Runs : RowsOK(tasks[r])

HoldsRow ==
  \A w \in Workers : wk[w].pc # "idle" =>
    wk[w].run \in Runs /\ wk[w].task \in DOMAIN tasks[wk[w].run]

AbsentEmpty == \A r \in Runs : run[r].status = "absent" => tasks[r] = <<>>

RowsInv == TypeOK /\ AllRowsOK /\ HoldsRow /\ AbsentEmpty

(* The rows part of the invariant, and the types of the variables it reads. *)
RowsPart ==
  /\ run \in [Runs -> RunRecord] /\ tasks \in [Runs -> Seq(Task)] /\ wk \in [Workers -> Worker]
  /\ AllRowsOK /\ HoldsRow /\ AbsentEmpty

(* A row with another status, attempts, output or calls is a row of the same
   round. *)
LEMMA RowUpdate ==
  ASSUME NEW row \in Task
  PROVE  /\ \A s \in TaskStatus : /\ [row EXCEPT !.status = s] \in Task
                                   /\ [row EXCEPT !.status = s].round = row.round
                                   /\ [row EXCEPT !.status = s].attempts = row.attempts
                                   /\ [row EXCEPT !.status = s].calls = row.calls
         /\ \A n \in Nat : /\ [row EXCEPT !.attempts = n] \in Task
                            /\ [row EXCEPT !.attempts = n].round = row.round
                            /\ [row EXCEPT !.attempts = n].calls = row.calls
         /\ \A o \in SUBSET Flags : /\ [row EXCEPT !.out = o] \in Task
                                     /\ [row EXCEPT !.out = o].round = row.round
                                     /\ [row EXCEPT !.out = o].calls = row.calls
         /\ \A c \in [Calls -> CallStatus] : /\ [row EXCEPT !.calls = c] \in Task
                                              /\ [row EXCEPT !.calls = c].round = row.round
                                              /\ [row EXCEPT !.calls = c].status = row.status
                                              /\ [row EXCEPT !.calls = c].calls = c
  BY DEF Task

LEMMA IdleIsWorker == IdleWorker \in Worker /\ IdleWorker.pc = "idle"
<1>1. NoCalls \in [Calls -> CallStatus]
  BY DEF NoCalls, CallStatus
<1> QED BY <1>1 DEF IdleWorker, Worker, Seen, RunStatus, TaskStatus

(* The row and the run a busy worker holds. *)
LEMMA Held ==
  ASSUME RowsInv, NEW w \in Workers, wk[w].pc # "idle"
  PROVE  /\ wk[w] \in Worker
         /\ wk[w].run \in Runs
         /\ run[wk[w].run] \in RunRecord /\ run[wk[w].run].status # "absent"
         /\ RowsOK(tasks[wk[w].run])
         /\ wk[w].task \in DOMAIN tasks[wk[w].run]
         /\ TaskOf(w) \in Task
<1>1. wk[w] \in Worker /\ wk[w].run \in Runs /\ wk[w].task \in DOMAIN tasks[wk[w].run]
  BY DEF RowsInv, TypeOK, HoldsRow
<1>2. run[wk[w].run] \in RunRecord /\ RowsOK(tasks[wk[w].run])
  BY <1>1 DEF RowsInv, TypeOK, AllRowsOK
<1>3. TaskOf(w) \in Task
  BY <1>1, <1>2, LenProperties, ElementOfSeq DEF RowsOK, TaskOf
<1>4. tasks[wk[w].run] # <<>>
  BY <1>1
<1>5. run[wk[w].run].status # "absent"
  BY <1>1, <1>4 DEF RowsInv, AbsentEmpty
<1> QED BY <1>1, <1>2, <1>3, <1>5

(* A step of one busy worker: it may rewrite the record and the rows of the run
   it holds, and its own state. *)
LEMMA WorkerStep ==
  ASSUME RowsInv, NEW w \in Workers, wk[w].pc # "idle",
         NEW rec \in RunRecord, rec.status # "absent", run' = [run EXCEPT ![wk[w].run] = rec],
         NEW rows, RowsOK(rows), Len(rows) >= Len(tasks[wk[w].run]),
         tasks' = [tasks EXCEPT ![wk[w].run] = rows],
         NEW me \in Worker, me.pc # "idle" => me.run = wk[w].run /\ me.task = wk[w].task,
         wk' = [wk EXCEPT ![w] = me]
  PROVE  RowsPart'
<1> DEFINE r == wk[w].run
<1>1. r \in Runs /\ RowsOK(tasks[r])
  BY Held
<1>2. /\ run \in [Runs -> RunRecord] /\ tasks \in [Runs -> Seq(Task)] /\ wk \in [Workers -> Worker]
  BY DEF RowsInv, TypeOK
<1>3. run' \in [Runs -> RunRecord] /\ tasks' \in [Runs -> Seq(Task)] /\ wk' \in [Workers -> Worker]
  BY <1>1, <1>2 DEF RowsOK
<1>4. \A q \in Runs : RowsOK(tasks'[q])
  BY <1>1, <1>2 DEF RowsInv, AllRowsOK
<1>5. \A q \in Runs : DOMAIN tasks[q] \subseteq DOMAIN tasks'[q]
  <2>1. DOMAIN tasks[r] = 1 .. Len(tasks[r]) /\ DOMAIN rows = 1 .. Len(rows)
        /\ Len(tasks[r]) \in Nat /\ Len(rows) \in Nat
    BY <1>1, RowRounds
  <2>2. 1 .. Len(tasks[r]) \subseteq 1 .. Len(rows)
    BY <2>1
  <2> QED BY <1>1, <1>2, <2>1, <2>2
<1>6. HoldsRow'
  <2> SUFFICES ASSUME NEW v \in Workers, wk'[v].pc # "idle"
               PROVE  wk'[v].run \in Runs /\ wk'[v].task \in DOMAIN tasks'[wk'[v].run]
    BY DEF HoldsRow
  <2>1. wk[v].pc # "idle" /\ wk'[v].run = wk[v].run /\ wk'[v].task = wk[v].task
    BY <1>2
  <2> QED BY <2>1, <1>5 DEF RowsInv, HoldsRow
<1>7. AbsentEmpty'
  BY <1>1, <1>2 DEF RowsInv, AbsentEmpty
<1> QED BY <1>3, <1>4, <1>6, <1>7 DEF RowsPart, AllRowsOK

(* The row of a task that begins, and the row it leaves. *)
LEMMA StartedRow ==
  ASSUME RowsInv, NEW w \in Workers, wk[w].pc # "idle"
  PROVE  /\ Started(w) \in Task
         /\ Started(w).round = tasks[wk[w].run][wk[w].task].round
         /\ Started(w).calls = tasks[wk[w].run][wk[w].task].calls
<1>1. TaskOf(w) \in Task /\ wk[w] \in Worker
  BY Held
<1>2. wk[w].seen.attempts \in Nat /\ TaskOf(w).attempts \in Nat
  BY <1>1 DEF Worker, Seen, Task
<1> DEFINE n == IF wk[w].seen.task = "ready" THEN wk[w].seen.attempts + 1 ELSE TaskOf(w).attempts
<1>3. n \in Nat
  BY <1>2
<1>4. Started(w) = [TaskOf(w) EXCEPT !.status = "running", !.attempts = n]
  BY DEF Started
<1> HIDE DEF n
<1> DEFINE row == TaskOf(w)
           begun == [row EXCEPT !.status = "running"]
<1>5. begun \in Task /\ begun.round = row.round /\ begun.calls = row.calls
  BY <1>1, RowUpdate DEF TaskStatus
<1>6. Started(w) = [begun EXCEPT !.attempts = n]
  BY <1>4
<1>7. row.round = tasks[wk[w].run][wk[w].task].round /\ row.calls = tasks[wk[w].run][wk[w].task].calls
  BY DEF TaskOf
<1> HIDE DEF row, begun
<1> QED BY <1>3, <1>5, <1>6, <1>7, RowUpdate

LEMMA BegunStatus ==
  ASSUME RowsInv, NEW w \in Workers, wk[w].pc # "idle"
  PROVE  Begun(w) \in RunStatus \ {"absent"}
<1>1. run[wk[w].run] \in RunRecord /\ run[wk[w].run].status # "absent"
  BY Held
<1> QED BY <1>1 DEF Begun, RunRecord, RunStatus, ActiveRun, Claimable

(* A node that completes. *)
LEMMA CompleteStep ==
  ASSUME RowsInv, NEW w \in Workers, wk[w].pc # "idle",
         NEW out \in SUBSET Flags,
         NEW todo \in TodoRows,
         \A i \in DOMAIN todo : todo[i].round <= Len(tasks[wk[w].run]) + 1,
         NEW status \in RunStatus \ {"absent"},
         Complete(w, out, todo, status)
  PROVE  RowsPart'
<1> DEFINE r == wk[w].run
           row == [Started(w) EXCEPT !.status = "completed", !.out = out]
           rows == [tasks[r] EXCEPT ![wk[w].task] = row]
           rec == [run[r] EXCEPT !.status = IF status = "running" THEN Begun(w) ELSE status,
                                 !.started = TRUE]
           me == [wk[w] EXCEPT !.pc = "finish"]
<1>1. /\ wk[w] \in Worker /\ r \in Runs /\ run[r] \in RunRecord
      /\ RowsOK(tasks[r]) /\ wk[w].task \in DOMAIN tasks[r]
  BY Held
<1>2. row \in Task /\ row.round = tasks[r][wk[w].task].round
  <2>1. Started(w) \in Task /\ Started(w).round = tasks[r][wk[w].task].round
    BY StartedRow
  <2> DEFINE done == [Started(w) EXCEPT !.status = "completed"]
  <2>2. done \in Task /\ done.round = Started(w).round
    BY <2>1, RowUpdate DEF TaskStatus
  <2>3. row = [done EXCEPT !.out = out]
    OBVIOUS
  <2> HIDE DEF done
  <2> QED BY <2>1, <2>2, <2>3, RowUpdate
<1>3. RowsOK(rows) /\ Len(rows) = Len(tasks[r])
  BY <1>1, <1>2, ExceptOK
<1>4. RowsOK(Create(rows, todo)) /\ Len(Create(rows, todo)) >= Len(tasks[r])
  <2>1. RowsOK(Create(rows, todo)) /\ Len(Create(rows, todo)) = Len(rows) + Len(todo)
    BY <1>3, CreateOK
  <2>2. Len(todo) \in Nat /\ Len(rows) \in Nat
    BY <1>3, LenProperties DEF RowsOK, TodoRows
  <2> QED BY <2>1, <2>2, <1>3
<1>5. rec \in RunRecord /\ rec.status # "absent"
  BY <1>1, BegunStatus DEF RunRecord
<1>6. me \in Worker /\ me.run = wk[w].run /\ me.task = wk[w].task
  BY <1>1 DEF Worker
<1>7. /\ run' = [run EXCEPT ![r] = rec]
      /\ tasks' = [tasks EXCEPT ![r] = Create(rows, todo)]
      /\ wk' = [wk EXCEPT ![w] = me]
  BY <1>1 DEF Complete, RowsInv, TypeOK
<1> HIDE DEF rec, rows, me
<1> QED BY <1>4, <1>5, <1>6, <1>7, WorkerStep

-----------------------------------------------------------------------------
(* The rows part of the invariant, action by action.                       *)

LEMMA NormalizeRows ==
  ASSUME RowsInv, NEW w \in Workers, Normalize(w)
  PROVE  RowsPart'
<1> DEFINE todo == TwoRows("triage", 100, "supervisor", 100)
<1>1. wk[w].pc # "idle" /\ RowsOK(tasks[wk[w].run])
  BY Held DEF Normalize, Executes
<1>2. todo \in TodoRows /\ \A i \in DOMAIN todo : todo[i].round = 0
  <2>1. "triage" \in Nodes /\ "supervisor" \in Nodes /\ 100 \in {80, 90, 100}
    BY DEF Nodes
  <2> QED BY <2>1, RowsOf
<1>3. 0 <= Len(tasks[wk[w].run]) + 1
  BY <1>1, RowRounds
<1>4. Complete(w, {}, todo, "running")
  BY DEF Normalize, TwoRows, Supervisor
<1>5. "running" \in RunStatus \ {"absent"} /\ {} \in SUBSET Flags
  BY DEF RunStatus, ActiveRun, Claimable
<1> HIDE DEF todo
<1> QED BY <1>1, <1>2, <1>3, <1>4, <1>5, CompleteStep

LEMMA SuperviseRows ==
  ASSUME RowsInv, NEW w \in Workers, Supervise(w)
  PROVE  RowsPart'
<1> DEFINE r == wk[w].run
<1>1. wk[w].pc # "idle" /\ RowsOK(tasks[r]) /\ r \in Runs
  BY Held DEF Supervise, Executes
<1>2. PICK fresh \in BOOLEAN :
        Complete(w, {}, NextTasks(r, Decide(r, fresh)), RunStatusAfter(Decide(r, fresh)))
  BY DEF Supervise
<1> DEFINE todo == NextTasks(r, Decide(r, fresh))
           status == RunStatusAfter(Decide(r, fresh))
<1>3. todo \in TodoRows /\ \A i \in DOMAIN todo : todo[i].round <= Len(tasks[r]) + 1
  BY <1>1, DecisionsScheduleRows
<1>4. status \in RunStatus \ {"absent"}
  BY DEF RunStatusAfter, RunStatus, ActiveRun, Claimable
<1> HIDE DEF todo, status
<1> QED BY <1>1, <1>2, <1>3, <1>4, CompleteStep DEF todo, status

LEMMA AgentRows ==
  ASSUME RowsInv, NEW w \in Workers, NEW node, NEW out \in SUBSET Flags, Agent(w, node, out)
  PROVE  RowsPart'
<1> DEFINE todo == OneRow("supervisor", 0, 100)
<1>1. wk[w].pc # "idle" /\ RowsOK(tasks[wk[w].run])
  BY Held DEF Agent, Executes
<1>2. todo \in TodoRows /\ \A i \in DOMAIN todo : todo[i].round = 0
  <2>1. "supervisor" \in Nodes /\ 0 \in Nat /\ 100 \in {80, 90, 100}
    BY DEF Nodes
  <2> QED BY <2>1, RowOf
<1>3. 0 <= Len(tasks[wk[w].run]) + 1
  BY <1>1, RowRounds
<1>4. Complete(w, out, todo, "running")
  BY DEF Agent, OneRow, Supervisor
<1>5. "running" \in RunStatus \ {"absent"}
  BY DEF RunStatus, ActiveRun, Claimable
<1> HIDE DEF todo
<1> QED BY <1>1, <1>2, <1>3, <1>4, <1>5, CompleteStep

LEMMA AgentNodeRows ==
  ASSUME RowsInv, NEW w \in Workers, AgentNode(w)
  PROVE  RowsPart'
<1>1. \E node, out : out \in SUBSET Flags /\ Agent(w, node, out)
  BY DEF AgentNode, Triage, Historical, Diagnostic, Critic, PlanCandidate, SafetyReview, Outcomes, Flags
<1> QED BY <1>1, AgentRows

(* A step that rewrites runs, appends rows, and leaves busy workers with a row
   they could hold before. *)
LEMMA GrowStep ==
  ASSUME RowsInv,
         run' \in [Runs -> RunRecord], tasks' \in [Runs -> Seq(Task)], wk' \in [Workers -> Worker],
         \A q \in Runs : RowsOK(tasks'[q]) /\ Len(tasks'[q]) >= Len(tasks[q]),
         \A q \in Runs : run'[q].status = "absent" => tasks'[q] = <<>>,
         \A v \in Workers : wk'[v].pc # "idle" =>
           wk'[v].run \in Runs /\ wk'[v].task \in DOMAIN tasks[wk'[v].run]
  PROVE  RowsPart'
<1>1. \A q \in Runs : DOMAIN tasks[q] \subseteq DOMAIN tasks'[q]
  <2> SUFFICES ASSUME NEW q \in Runs PROVE DOMAIN tasks[q] \subseteq DOMAIN tasks'[q]
    OBVIOUS
  <2>1. RowsOK(tasks[q]) /\ RowsOK(tasks'[q])
    BY DEF RowsInv, AllRowsOK
  <2>2. DOMAIN tasks[q] = 1 .. Len(tasks[q]) /\ DOMAIN tasks'[q] = 1 .. Len(tasks'[q])
        /\ Len(tasks[q]) \in Nat /\ Len(tasks'[q]) \in Nat
    BY <2>1, RowRounds
  <2>3. 1 .. Len(tasks[q]) \subseteq 1 .. Len(tasks'[q])
    BY <2>2
  <2> QED BY <2>2, <2>3
<1>2. HoldsRow'
  BY <1>1 DEF HoldsRow
<1>3. AbsentEmpty' /\ AllRowsOK'
  BY DEF AbsentEmpty, AllRowsOK
<1> QED BY <1>2, <1>3 DEF RowsPart

(* A step that touches neither rows nor runs and only sets workers down or
   moves one on with the row it holds. *)
LEMMA WorkersOnly ==
  ASSUME RowsInv, UNCHANGED tasks, NEW w \in Workers, NEW me \in Worker,
         me.pc # "idle" => me.run \in Runs /\ me.task \in DOMAIN tasks[me.run],
         wk' = [wk EXCEPT ![w] = me],
         run' \in [Runs -> RunRecord], \A q \in Runs : run'[q].status = run[q].status
  PROVE  RowsPart'
<1>1. wk \in [Workers -> Worker] /\ tasks \in [Runs -> Seq(Task)]
  BY DEF RowsInv, TypeOK
<1>2. wk' \in [Workers -> Worker]
  BY <1>1
<1>3. \A v \in Workers : wk'[v].pc # "idle" =>
        wk'[v].run \in Runs /\ wk'[v].task \in DOMAIN tasks[wk'[v].run]
  <2> SUFFICES ASSUME NEW v \in Workers, wk'[v].pc # "idle"
               PROVE  wk'[v].run \in Runs /\ wk'[v].task \in DOMAIN tasks[wk'[v].run]
    OBVIOUS
  <2>1. CASE v = w
    BY <1>1, <2>1
  <2>2. CASE v # w
    BY <1>1, <2>2 DEF RowsInv, HoldsRow
  <2> QED BY <2>1, <2>2
<1>4. \A q \in Runs : run'[q].status = "absent" => tasks'[q] = <<>>
  BY DEF RowsInv, AbsentEmpty
<1>5. \A q \in Runs : RowsOK(tasks'[q]) /\ Len(tasks'[q]) >= Len(tasks[q])
  BY RowRounds DEF RowsInv, AllRowsOK
<1> QED BY <1>1, <1>2, <1>3, <1>4, <1>5, GrowStep

LEMMA ClaimRows ==
  ASSUME RowsInv, NEW w \in Workers, Claim(w)
  PROVE  RowsPart'
<1>1. PICK r \in Runs :
        /\ wk[w].pc = "idle"
        /\ CanClaim(r)
        /\ tasks' = [tasks EXCEPT ![r] = Recovered(r)]
        /\ \/ \E t \in Picks(Recovered(r)) :
                /\ run' = [run EXCEPT ![r].lease = "held"]
                /\ wk' = [wk EXCEPT ![w].pc = "claimed", ![w].run = r, ![w].task = t]
           \/ /\ Picks(Recovered(r)) = {}
              /\ run' = [run EXCEPT ![r].lease = "free"]
              /\ UNCHANGED wk
  BY DEF Claim
<1>2. /\ run \in [Runs -> RunRecord] /\ tasks \in [Runs -> Seq(Task)] /\ wk \in [Workers -> Worker]
      /\ \A q \in Runs : RowsOK(tasks[q])
  BY DEF RowsInv, TypeOK, AllRowsOK
<1> DEFINE us == [t \in DOMAIN tasks[r] |->
                   IF tasks[r][t].status = "running"
                   THEN [tasks[r][t] EXCEPT !.status = "ready"] ELSE tasks[r][t]]
<1>3. /\ Recovered(r) = us \/ Recovered(r) = tasks[r]
      /\ DOMAIN us = DOMAIN tasks[r]
  BY DEF Recovered
<1>4. RowsOK(us) /\ Len(us) = Len(tasks[r])
  <2>1. \A t \in DOMAIN tasks[r] : us[t] \in Task /\ us[t].round = tasks[r][t].round
    <3> SUFFICES ASSUME NEW t \in DOMAIN tasks[r]
                 PROVE  us[t] \in Task /\ us[t].round = tasks[r][t].round
      OBVIOUS
    <3>1. tasks[r][t] \in Task /\ "ready" \in TaskStatus
      BY <1>2, LenProperties, ElementOfSeq DEF TaskStatus
    <3> DEFINE row == tasks[r][t]
    <3>2. [row EXCEPT !.status = "ready"] \in Task /\ [row EXCEPT !.status = "ready"].round = row.round
      BY <3>1, RowUpdate
    <3>3. us[t] = IF row.status = "running" THEN [row EXCEPT !.status = "ready"] ELSE row
      OBVIOUS
    <3> HIDE DEF us
    <3> QED BY <3>1, <3>2, <3>3
  <2>2. us \in [DOMAIN tasks[r] -> Task]
    BY <2>1
  <2> HIDE DEF us
  <2> QED BY <1>2, <1>3, <2>1, <2>2, RewriteOK
<1> HIDE DEF us
<1>5. /\ RowsOK(Recovered(r)) /\ Len(Recovered(r)) = Len(tasks[r])
      /\ DOMAIN Recovered(r) = DOMAIN tasks[r]
  BY <1>2, <1>3, <1>4
<1>6. \A q \in Runs : RowsOK(tasks'[q]) /\ Len(tasks'[q]) >= Len(tasks[q])
  <2> SUFFICES ASSUME NEW q \in Runs
               PROVE  RowsOK(tasks'[q]) /\ Len(tasks'[q]) >= Len(tasks[q])
    OBVIOUS
  <2>1. Len(tasks[q]) \in Nat
    BY <1>2, RowRounds
  <2>2. tasks'[q] = IF q = r THEN Recovered(r) ELSE tasks[q]
    BY <1>1, <1>2
  <2> QED BY <1>2, <1>5, <2>1, <2>2
<1>7. tasks' \in [Runs -> Seq(Task)]
  BY <1>1, <1>2, <1>5 DEF RowsOK
<1>8. run' \in [Runs -> RunRecord] /\ \A q \in Runs : run'[q].status = run[q].status
  <2>1. PICK lease \in {"free", "held"} : run' = [run EXCEPT ![r].lease = lease]
    BY <1>1
  <2> QED BY <1>2, <2>1 DEF RunRecord
<1>9. \A q \in Runs : run'[q].status = "absent" => tasks'[q] = <<>>
  <2> SUFFICES ASSUME NEW q \in Runs, run[q].status = "absent"
               PROVE  tasks'[q] = <<>>
    BY <1>8
  <2>1. q # r
    BY <1>1 DEF CanClaim, Claimable
  <2> QED BY <1>1, <1>2, <2>1 DEF RowsInv, AbsentEmpty
<1>10. \A t \in Picks(Recovered(r)) : t \in DOMAIN tasks[r] /\ t \in Nat
  BY <1>2, <1>5, RowRounds DEF Picks
<1>11. /\ wk' \in [Workers -> Worker]
       /\ \A v \in Workers : wk'[v].pc # "idle" =>
            wk'[v].run \in Runs /\ wk'[v].task \in DOMAIN tasks[wk'[v].run]
  <2>1. CASE wk' = wk
    BY <1>2, <2>1 DEF RowsInv, HoldsRow
  <2>2. ASSUME NEW t \in Picks(Recovered(r)),
               wk' = [wk EXCEPT ![w].pc = "claimed", ![w].run = r, ![w].task = t]
        PROVE  /\ wk' \in [Workers -> Worker]
               /\ \A v \in Workers : wk'[v].pc # "idle" =>
                    wk'[v].run \in Runs /\ wk'[v].task \in DOMAIN tasks[wk'[v].run]
    <3> DEFINE me == [wk[w] EXCEPT !.pc = "claimed", !.run = r, !.task = t]
    <3>1. t \in DOMAIN tasks[r] /\ t \in Nat
      BY <1>10
    <3>2. me \in Worker /\ me.run = r /\ me.task = t
      BY <1>2, <3>1 DEF Worker
    <3>3. wk' = [wk EXCEPT ![w] = me]
      BY <1>2, <2>2
    <3> HIDE DEF me
    <3>4. wk' \in [Workers -> Worker]
      BY <1>2, <3>2, <3>3
    <3> SUFFICES ASSUME NEW v \in Workers, wk'[v].pc # "idle"
                 PROVE  wk'[v].run \in Runs /\ wk'[v].task \in DOMAIN tasks[wk'[v].run]
      BY <3>4
    <3>5. CASE v = w
      BY <1>2, <3>1, <3>2, <3>3, <3>5
    <3>6. CASE v # w
      BY <1>2, <3>3, <3>6 DEF RowsInv, HoldsRow
    <3> QED BY <3>5, <3>6
  <2> QED BY <1>1, <2>1, <2>2
<1> QED BY <1>6, <1>7, <1>8, <1>9, <1>11, GrowStep

LEMMA RereadRows ==
  ASSUME RowsInv, NEW w \in Workers, Reread(w)
  PROVE  RowsPart'
<1> DEFINE r == wk[w].run
           seen == [run |-> run[r].status, task |-> TaskOf(w).status, attempts |-> TaskOf(w).attempts]
           me == [wk[w] EXCEPT !.pc = "begun", !.seen = seen]
<1>1. /\ wk[w] \in Worker /\ r \in Runs /\ run[r] \in RunRecord
      /\ wk[w].task \in DOMAIN tasks[r] /\ TaskOf(w) \in Task
  BY Held DEF Reread
<1>2. seen \in Seen
  BY <1>1 DEF Seen, RunRecord, Task
<1>3. me \in Worker /\ me.run = r /\ me.task = wk[w].task
  <2> HIDE DEF seen
  <2> QED BY <1>1, <1>2 DEF Worker
<1>4. wk' = [wk EXCEPT ![w] = me] /\ UNCHANGED <<tasks, run>>
  BY <1>1 DEF Reread, TaskOf, RowsInv, TypeOK
<1>5. run \in [Runs -> RunRecord]
  BY DEF RowsInv, TypeOK
<1> HIDE DEF me
<1> QED BY <1>1, <1>3, <1>4, <1>5, WorkersOnly

(* The steps that leave a worker idle and touch nothing but a lease. *)
LEMMA SetDownRows ==
  ASSUME RowsInv, NEW w \in Workers,
         BeginRefused(w) \/ Release(w) \/ ExhaustEscapes(w) \/ Crash(w)
  PROVE  RowsPart'
<1>1. /\ UNCHANGED tasks /\ wk' = [wk EXCEPT ![w] = IdleWorker]
      /\ UNCHANGED run \/ run' = [run EXCEPT ![wk[w].run].lease = "free"]
  BY DEF BeginRefused, Release, ExhaustEscapes, Crash
<1>2. run \in [Runs -> RunRecord]
  BY DEF RowsInv, TypeOK
<1>3. run' \in [Runs -> RunRecord] /\ \A q \in Runs : run'[q].status = run[q].status
  BY <1>1, <1>2 DEF RunRecord
<1> QED BY <1>1, <1>3, IdleIsWorker, WorkersOnly

(* A worker held up by its own renewal keeps the task it has. *)
LEMMA BlockedRows ==
  ASSUME RowsInv, NEW w \in Workers, RenewalBlocks(w)
  PROVE  RowsPart'
<1> DEFINE me == [wk[w] EXCEPT !.pc = "hung"]
<1>1. wk[w].pc # "idle"
  BY DEF RenewalBlocks, Executes
<1>2. me \in Worker /\ me.run \in Runs /\ me.task \in DOMAIN tasks[me.run]
  BY <1>1, Held DEF Worker
<1>3. wk' = [wk EXCEPT ![w] = me] /\ UNCHANGED <<tasks, run>>
  BY DEF RenewalBlocks, RowsInv, TypeOK
<1>4. run \in [Runs -> RunRecord]
  BY DEF RowsInv, TypeOK
<1> HIDE DEF me
<1> QED BY <1>2, <1>3, <1>4, WorkersOnly

LEMMA FlushedCalls ==
  ASSUME RowsInv, NEW w \in Workers, wk[w].pc # "idle", NEW i
  PROVE  Flushed(w, i) \in [Calls -> CallStatus]
<1>1. wk[w] \in Worker /\ TaskOf(w) \in Task
  BY Held
<1>2. wk[w].pend \in [Calls -> CallStatus] /\ TaskOf(w).calls \in [Calls -> CallStatus]
      /\ "rejected" \in CallStatus
  BY <1>1 DEF Worker, Task, CallStatus
<1> QED BY <1>2 DEF Flushed

(* Another record for the run in hand, and another row for the task in hand. *)
LEMMA RowStep ==
  ASSUME RowsInv, NEW w \in Workers, wk[w].pc # "idle",
         NEW rec \in RunRecord, rec.status # "absent", run' = [run EXCEPT ![wk[w].run] = rec],
         NEW row \in Task, row.round = TaskOf(w).round,
         tasks' = [tasks EXCEPT ![wk[w].run][wk[w].task] = row],
         NEW me \in Worker, me.pc # "idle" => me.run = wk[w].run /\ me.task = wk[w].task,
         wk' = [wk EXCEPT ![w] = me]
  PROVE  RowsPart'
<1> DEFINE r == wk[w].run
           rows == [tasks[r] EXCEPT ![wk[w].task] = row]
<1>1. r \in Runs /\ RowsOK(tasks[r]) /\ wk[w].task \in DOMAIN tasks[r]
  BY Held
<1>2. RowsOK(rows) /\ Len(rows) = Len(tasks[r])
  BY <1>1, ExceptOK DEF TaskOf
<1>3. Len(tasks[r]) \in Nat
  BY <1>1, RowRounds
<1>4. tasks' = [tasks EXCEPT ![r] = rows]
  BY <1>1 DEF RowsInv, TypeOK
<1>5. Len(rows) >= Len(tasks[r])
  BY <1>2, <1>3
<1> HIDE DEF rows
<1> QED BY <1>2, <1>4, <1>5, WorkerStep, Zenon

LEMMA BegunRecord ==
  ASSUME RowsInv, NEW w \in Workers, wk[w].pc # "idle", NEW status \in RunStatus \ {"absent"}
  PROVE  /\ [run[wk[w].run] EXCEPT !.status = status, !.started = TRUE] \in RunRecord
         /\ [run[wk[w].run] EXCEPT !.status = status, !.started = TRUE].status # "absent"
<1>1. run[wk[w].run] \in RunRecord
  BY Held
<1> QED BY <1>1 DEF RunRecord

LEMMA WaitHumanRows ==
  ASSUME RowsInv, NEW w \in Workers, WaitHuman(w)
  PROVE  RowsPart'
<1> DEFINE r == wk[w].run
           row == [Started(w) EXCEPT !.status = "waiting_human"]
           rec == [run[r] EXCEPT !.status = "waiting_human", !.started = TRUE]
           me == [wk[w] EXCEPT !.pc = "finish"]
<1>1. wk[w].pc # "idle" /\ wk[w] \in Worker /\ r \in Runs
  BY Held DEF WaitHuman, Executes
<1>2. row \in Task /\ row.round = TaskOf(w).round
  <2>1. Started(w) \in Task /\ Started(w).round = TaskOf(w).round
    BY <1>1, StartedRow DEF TaskOf
  <2>2. "waiting_human" \in TaskStatus
    BY DEF TaskStatus
  <2> QED BY <2>1, <2>2, RowUpdate
<1>3. rec \in RunRecord /\ rec.status # "absent"
  <2>1. "waiting_human" \in RunStatus \ {"absent"}
    BY DEF RunStatus, ActiveRun
  <2> QED BY <1>1, <2>1, BegunRecord
<1>4. me \in Worker /\ me.run = r /\ me.task = wk[w].task
  BY <1>1 DEF Worker
<1>5. /\ run' = [run EXCEPT ![r] = rec]
      /\ tasks' = [tasks EXCEPT ![r][wk[w].task] = row]
      /\ wk' = [wk EXCEPT ![w] = me]
  BY <1>1 DEF WaitHuman, RowsInv, TypeOK
<1> HIDE DEF row, rec, me
<1> QED BY <1>1, <1>2, <1>3, <1>4, <1>5, RowStep

(* The record of the run in hand after a commit of the gateway or of the
   collection: the begin is in it, if this transaction made it. *)
LEMMA GatewayRecord ==
  ASSUME RowsInv, NEW w \in Workers, wk[w].pc # "idle",
         run' = IF wk[w].pc = "begun"
                THEN [run EXCEPT ![wk[w].run].status = Begun(w), ![wk[w].run].started = TRUE] ELSE run
  PROVE  \E rec \in RunRecord : rec.status # "absent" /\ run' = [run EXCEPT ![wk[w].run] = rec]
<1> DEFINE r == wk[w].run
<1>1. r \in Runs /\ run[r] \in RunRecord /\ run[r].status # "absent"
      /\ run \in [Runs -> RunRecord]
  BY Held DEF RowsInv, TypeOK
<1>2. CASE wk[w].pc = "begun"
  <2> DEFINE rec == [run[r] EXCEPT !.status = Begun(w), !.started = TRUE]
  <2>1. rec \in RunRecord /\ rec.status # "absent"
    BY <1>1, BegunStatus, BegunRecord
  <2>2. run' = [run EXCEPT ![r] = rec]
    BY <1>1, <1>2
  <2> HIDE DEF rec
  <2> QED BY <2>1, <2>2
<1>3. CASE wk[w].pc # "begun"
  <2>1. run' = [run EXCEPT ![r] = run[r]]
    BY <1>1, <1>3
  <2> QED BY <1>1, <2>1
<1> QED BY <1>2, <1>3

LEMMA CommitBeginRows ==
  ASSUME RowsInv, NEW w \in Workers, wk[w].pc # "idle",
         NEW calls \in [Calls -> CallStatus], CommitBegin(w, calls),
         NEW me \in Worker, me.run = wk[w].run, me.task = wk[w].task,
         wk' = [wk EXCEPT ![w] = me]
  PROVE  RowsPart'
<1> DEFINE begun == IF wk[w].pc = "begun" THEN Started(w) ELSE TaskOf(w)
           row == [begun EXCEPT !.calls = calls]
<1>1. begun \in Task /\ begun.round = TaskOf(w).round
  BY Held, StartedRow DEF TaskOf
<1>2. row \in Task /\ row.round = TaskOf(w).round
  <2> HIDE DEF begun
  <2> QED BY <1>1, RowUpdate
<1>3. PICK rec \in RunRecord : rec.status # "absent" /\ run' = [run EXCEPT ![wk[w].run] = rec]
  BY GatewayRecord DEF CommitBegin
<1>4. tasks' = [tasks EXCEPT ![wk[w].run][wk[w].task] = row]
  BY DEF CommitBegin
<1> HIDE DEF row
<1> QED BY <1>2, <1>3, <1>4, RowStep

(* The first commit of the gateway, for a call of the loop or for the initial
   collection: it opens a session, or turns the request down. *)
CommitsCall(w) == StartProbe(w) \/ RejectProbe(w)
Commits(w) == CommitsCall(w) \/ StartInitialProbe(w) \/ RejectInitialProbe(w)

(* The worker goes on at a place of the loop, with what it has to flush. *)
GoesTo(w, pc, i, pend) ==
  wk' = [wk EXCEPT ![w] = [wk[w] EXCEPT !.pc = pc, !.idx = i, !.pend = pend]]

CommitsAt(w, i, pc, k, pend) ==
  /\ AtNewCall(w, i) /\ CommitBegin(w, [Flushed(w, i) EXCEPT ![i] = "running"])
  /\ GoesTo(w, pc, i + k, pend)
  /\ \/ pc = "probing" /\ k = 0 /\ pend = NoCalls
     \/ pc = "looping" /\ k = 1 /\ pend = [NoCalls EXCEPT ![i] = "rejected"]

LEMMA CallCommit ==
  ASSUME RowsInv, NEW w \in Workers, CommitsCall(w)
  PROVE  \E i \in Calls, pc \in {"probing", "looping"}, k \in {0, 1}, pend \in [Calls -> CallStatus] :
           CommitsAt(w, i, pc, k, pend)
<1>1. wk \in [Workers -> Worker] /\ NoCalls \in [Calls -> CallStatus] /\ "rejected" \in CallStatus
  BY DEF RowsInv, TypeOK, NoCalls, CallStatus
<1>2. CASE StartProbe(w)
  <2>1. PICK i \in Calls :
          /\ AtNewCall(w, i) /\ CommitBegin(w, [Flushed(w, i) EXCEPT ![i] = "running"])
          /\ wk' = [wk EXCEPT ![w].pc = "probing", ![w].idx = i, ![w].pend = NoCalls]
    BY <1>2 DEF StartProbe
  <2>2. i + 0 = i
    BY DEF Calls
  <2>3. GoesTo(w, "probing", i + 0, NoCalls)
    BY <1>1, <2>1, <2>2 DEF GoesTo
  <2>4. CommitsAt(w, i, "probing", 0, NoCalls)
    BY <2>1, <2>3 DEF CommitsAt
  <2> QED BY <1>1, <2>4
<1>3. CASE RejectProbe(w)
  <2>1. PICK i \in Calls :
          /\ AtNewCall(w, i) /\ CommitBegin(w, [Flushed(w, i) EXCEPT ![i] = "running"])
          /\ wk' = [wk EXCEPT ![w].pc = "looping", ![w].idx = i + 1,
                              ![w].pend = [NoCalls EXCEPT ![i] = "rejected"]]
    BY <1>3 DEF RejectProbe
  <2> DEFINE pend == [NoCalls EXCEPT ![i] = "rejected"]
  <2>2. pend \in [Calls -> CallStatus]
    BY <1>1
  <2>3. GoesTo(w, "looping", i + 1, pend)
    BY <1>1, <2>1 DEF GoesTo
  <2>4. CommitsAt(w, i, "looping", 1, pend)
    BY <2>1, <2>3 DEF CommitsAt
  <2> HIDE DEF pend
  <2> QED BY <2>2, <2>4
<1> QED BY <1>2, <1>3 DEF CommitsCall

LEMMA GatewayCommit ==
  ASSUME RowsInv, NEW w \in Workers, Commits(w)
  PROVE  /\ wk[w].pc \in {"begun", "looping"} /\ (wk[w].pc = "begun" => CanBegin(w))
         /\ TaskOf(w).node = "evidence_collection"
         /\ \E calls \in [Calls -> CallStatus] : CommitBegin(w, calls)
         /\ \E pc \in {"probing", "looping"}, i \in Nat \ {0}, pend \in [Calls -> CallStatus] :
              GoesTo(w, pc, i, pend)
<1>1. CASE CommitsCall(w)
  <2>1. PICK i \in Calls, pc \in {"probing", "looping"}, k \in {0, 1}, pend \in [Calls -> CallStatus] :
           CommitsAt(w, i, pc, k, pend)
    BY <1>1, CallCommit
  <2>2. AtNewCall(w, i) /\ CommitBegin(w, [Flushed(w, i) EXCEPT ![i] = "running"]) /\ GoesTo(w, pc, i + k, pend)
    BY <2>1 DEF CommitsAt
  <2>3. /\ wk[w].pc \in {"begun", "looping"} /\ (wk[w].pc = "begun" => CanBegin(w))
        /\ TaskOf(w).node = "evidence_collection"
    BY <2>2 DEF AtNewCall, AtRequests, Executes, IsFollowUp
  <2>4. Flushed(w, i) \in [Calls -> CallStatus]
    BY <2>3, FlushedCalls
  <2>5. [Flushed(w, i) EXCEPT ![i] = "running"] \in [Calls -> CallStatus]
    BY <2>4 DEF CallStatus
  <2>6. i + k \in Nat \ {0}
    BY ConstantsAssumption DEF Calls
  <2> QED BY <2>2, <2>3, <2>5, <2>6
<1>2. CASE StartInitialProbe(w) \/ RejectInitialProbe(w)
  <2>1. NoCalls \in [Calls -> CallStatus] /\ ProbesPerRequest \in Nat \ {0} /\ ProbesPerRequest + 1 \in Nat \ {0}
    BY ConstantsAssumption DEF NoCalls, CallStatus
  <2>2. /\ wk[w].pc = "begun" /\ CanBegin(w) /\ TaskOf(w).node = "evidence_collection"
        /\ CommitBegin(w, NoCalls)
    BY <1>2 DEF StartInitialProbe, RejectInitialProbe, Executes
  <2>3. wk[w] \in Worker /\ wk[w].pend \in [Calls -> CallStatus] /\ wk \in [Workers -> Worker]
    BY DEF RowsInv, TypeOK, Worker
  <2>4. PICK pc \in {"probing", "looping"}, i \in {ProbesPerRequest, ProbesPerRequest + 1} :
          wk' = [wk EXCEPT ![w].pc = pc, ![w].idx = i]
    BY <1>2 DEF StartInitialProbe, RejectInitialProbe
  <2>5. GoesTo(w, pc, i, wk[w].pend)
    BY <2>3, <2>4 DEF GoesTo, Worker
  <2>6. i \in Nat \ {0}
    BY <2>1, <2>4
  <2> QED BY <2>1, <2>2, <2>3, <2>5, <2>6
<1> QED BY <1>1, <1>2 DEF Commits

(* The commit leaves the worker on its task, in the session or past the call. *)
LEMMA GatewayWorker ==
  ASSUME RowsInv, NEW w \in Workers, Commits(w)
  PROVE  /\ wk'[w].pc \in {"probing", "looping"} /\ wk'[w].idx \in Nat \ {0}
         /\ wk'[w].run = wk[w].run /\ wk'[w].task = wk[w].task
         /\ \A v \in Workers : v # w => wk'[v] = wk[v]
         /\ \E me \in Worker : wk' = [wk EXCEPT ![w] = me] /\ me.run = wk[w].run /\ me.task = wk[w].task
<1>1. PICK pc \in {"probing", "looping"}, i \in Nat \ {0}, pend \in [Calls -> CallStatus] :
        GoesTo(w, pc, i, pend)
  BY GatewayCommit
<1>2. wk[w] \in Worker /\ wk \in [Workers -> Worker]
  BY DEF RowsInv, TypeOK
<1> DEFINE me == [wk[w] EXCEPT !.pc = pc, !.idx = i, !.pend = pend]
<1>3. /\ me \in Worker /\ me.pc = pc /\ me.idx = i
      /\ me.run = wk[w].run /\ me.task = wk[w].task
  BY <1>2 DEF Worker
<1>4. wk' = [wk EXCEPT ![w] = me]
  BY <1>1 DEF GoesTo
<1> HIDE DEF me
<1> QED BY <1>2, <1>3, <1>4

LEMMA StartRows ==
  ASSUME RowsInv, NEW w \in Workers, Commits(w)
  PROVE  RowsPart'
<1>1. PICK calls \in [Calls -> CallStatus] : CommitBegin(w, calls)
  BY GatewayCommit
<1>2. PICK me \in Worker : wk' = [wk EXCEPT ![w] = me] /\ me.run = wk[w].run /\ me.task = wk[w].task
  BY GatewayWorker
<1>3. wk[w].pc # "idle"
  BY GatewayCommit
<1> QED BY <1>1, <1>2, <1>3, CommitBeginRows

LEMMA ProbingRows ==
  ASSUME RowsInv, NEW w \in Workers, ProbeRefused(w) \/ FinishProbe(w)
  PROVE  RowsPart'
<1>0. NoCalls \in [Calls -> CallStatus] /\ ProbesPerRequest \in Nat
  BY ConstantsAssumption DEF NoCalls, CallStatus
<1>1. /\ wk[w].pc # "idle" /\ wk[w] \in Worker /\ wk \in [Workers -> Worker]
      /\ wk[w].run \in Runs /\ wk[w].task \in DOMAIN tasks[wk[w].run]
      /\ run \in [Runs -> RunRecord] /\ UNCHANGED <<run, tasks>>
  BY Held DEF ProbeRefused, FinishProbe, AtNewCall, AtRequests, Executes, RowsInv, TypeOK
<1>2. CASE ProbeRefused(w)
  <2>1. PICK i \in Calls :
          wk' = [wk EXCEPT ![w].pc = "looping", ![w].idx = i + 1, ![w].pend = NoCalls]
    BY <1>2 DEF ProbeRefused
  <2> DEFINE me == [wk[w] EXCEPT !.pc = "looping", !.idx = i + 1, !.pend = NoCalls]
  <2>2. i + 1 \in Nat
    BY <1>0 DEF Calls
  <2>3. me \in Worker /\ me.run = wk[w].run /\ me.task = wk[w].task
    BY <1>0, <1>1, <2>2 DEF Worker
  <2>4. wk' = [wk EXCEPT ![w] = me]
    BY <1>1, <2>1
  <2> HIDE DEF me
  <2> QED BY <1>1, <2>3, <2>4, WorkersOnly
<1>3. CASE FinishProbe(w)
  <2>1. PICK result \in {"completed", "failed"} :
          wk' = [wk EXCEPT ![w].pc = "looping", ![w].idx = @ + 1,
                           ![w].pend[wk[w].idx] = IF IsFollowUp(w) THEN result ELSE @]
    BY <1>3 DEF FinishProbe
  <2> DEFINE pend == [wk[w].pend EXCEPT ![wk[w].idx] = IF IsFollowUp(w) THEN result ELSE @]
             me == [wk[w] EXCEPT !.pc = "looping", !.idx = wk[w].idx + 1, !.pend = pend]
  <2>2. wk[w].idx + 1 \in Nat /\ wk[w].pend \in [Calls -> CallStatus]
    BY <1>1 DEF Worker
  <2>3. pend \in [Calls -> CallStatus]
    BY <2>2 DEF CallStatus
  <2>4. me \in Worker /\ me.run = wk[w].run /\ me.task = wk[w].task
    <3> HIDE DEF pend
    <3> QED BY <1>1, <2>2, <2>3 DEF Worker
  <2>5. wk' = [wk EXCEPT ![w] = me]
    BY <1>1, <2>1
  <2> HIDE DEF me
  <2> QED BY <1>1, <2>4, <2>5, WorkersOnly
<1> QED BY <1>2, <1>3

LEMMA CollectDoneRows ==
  ASSUME RowsInv, NEW w \in Workers, CollectDone(w)
  PROVE  RowsPart'
<1> DEFINE r == wk[w].run
           last == IF IsFollowUp(w) THEN ProbesPerRequest + 1 ELSE wk[w].idx
           row == IF wk[w].pc = "begun" THEN Started(w) ELSE TaskOf(w)
           live == wk[w].pc = "begun" \/ run[r].status \in Claimable
           flushed == [row EXCEPT !.calls = Flushed(w, last),
                                  !.status = IF @ = "running" THEN "completed" ELSE @]
           rows == [tasks[r] EXCEPT ![wk[w].task] = flushed]
           todo == IF row.status \in {"running", "completed"} /\ live THEN <<Supervisor>> ELSE <<>>
           me == [wk[w] EXCEPT !.pc = "finish"]
<1>1. /\ wk[w].pc # "idle" /\ wk[w] \in Worker /\ r \in Runs
      /\ RowsOK(tasks[r]) /\ wk[w].task \in DOMAIN tasks[r]
  BY Held DEF CollectDone, Executes
<1>2. row \in Task /\ row.round = tasks[r][wk[w].task].round
  BY <1>1, Held, StartedRow DEF TaskOf
<1>3. flushed \in Task /\ flushed.round = tasks[r][wk[w].task].round
  <2> DEFINE calls == Flushed(w, last)
             called == [row EXCEPT !.calls = calls]
             s == IF row.status = "running" THEN "completed" ELSE row.status
  <2>1. calls \in [Calls -> CallStatus]
    BY <1>1, FlushedCalls
  <2>2. s \in TaskStatus
    <3> HIDE DEF row
    <3> QED BY <1>2 DEF Task, TaskStatus
  <2>3. called \in Task /\ called.round = row.round
    <3> HIDE DEF row, calls
    <3> QED BY <1>2, <2>1, RowUpdate
  <2>4. flushed = [called EXCEPT !.status = s]
    <3>1. called.status = row.status
      <4> HIDE DEF row, calls
      <4> QED BY <1>2, <2>1, RowUpdate
    <3>2. flushed = [called EXCEPT !.status = IF called.status = "running" THEN "completed" ELSE called.status]
      OBVIOUS
    <3> HIDE DEF row, called, flushed
    <3> QED BY <3>1, <3>2
  <2> HIDE DEF row, called, flushed, s
  <2> QED BY <1>2, <2>2, <2>3, <2>4, RowUpdate
<1>4. RowsOK(rows) /\ Len(rows) = Len(tasks[r])
  <2> HIDE DEF flushed
  <2> QED BY <1>1, <1>3, ExceptOK
<1>5. todo \in TodoRows /\ \A i \in DOMAIN todo : todo[i].round <= Len(rows) + 1
  <2>0. 0 <= Len(rows) + 1
    BY <1>4, RowRounds
  <2>1. /\ <<Supervisor>> \in TodoRows
        /\ \A i \in DOMAIN <<Supervisor>> : <<Supervisor>>[i].round = 0
    <3>1. "supervisor" \in Nodes /\ 0 \in Nat /\ 100 \in {80, 90, 100}
      BY DEF Nodes
    <3>2. /\ OneRow("supervisor", 0, 100) \in TodoRows
          /\ \A i \in DOMAIN OneRow("supervisor", 0, 100) : OneRow("supervisor", 0, 100)[i].round = 0
      BY <3>1, RowOf
    <3>3. OneRow("supervisor", 0, 100) = <<Supervisor>>
      BY DEF OneRow, Supervisor
    <3> QED BY <3>2, <3>3
  <2>2. <<>> \in TodoRows /\ DOMAIN <<>> = {}
    BY EmptySeq DEF TodoRows
  <2>3. todo = <<Supervisor>> \/ todo = <<>>
    OBVIOUS
  <2> HIDE DEF todo, rows
  <2> QED BY <2>0, <2>1, <2>2, <2>3
<1>6. RowsOK(Create(rows, todo)) /\ Len(Create(rows, todo)) >= Len(tasks[r])
  <2> HIDE DEF rows, todo
  <2>1. RowsOK(Create(rows, todo)) /\ Len(Create(rows, todo)) = Len(rows) + Len(todo)
    BY <1>4, <1>5, CreateOK
  <2>2. Len(todo) \in Nat /\ Len(rows) \in Nat
    BY <1>4, <1>5, LenProperties DEF RowsOK, TodoRows
  <2> QED BY <2>1, <2>2, <1>4
<1>7. PICK rec \in RunRecord : rec.status # "absent" /\ run' = [run EXCEPT ![r] = rec]
  BY <1>1, GatewayRecord DEF CollectDone
<1>8. me \in Worker /\ me.run = r /\ me.task = wk[w].task
  BY <1>1 DEF Worker
<1>9. /\ tasks' = [tasks EXCEPT ![r] = Create(rows, todo)]
      /\ wk' = [wk EXCEPT ![w] = me]
  BY <1>1 DEF CollectDone, RowsInv, TypeOK
<1> HIDE DEF rows, todo, me
<1> QED BY <1>1, <1>6, <1>7, <1>8, <1>9, WorkerStep, Zenon

(* The two exception handlers. *)
LEMMA HandlerRows ==
  ASSUME RowsInv, NEW w \in Workers, Exhaust(w) \/ FailTask(w)
  PROVE  RowsPart'
<1> DEFINE r == wk[w].run
           me == [wk[w] EXCEPT !.pc = "finish"]
<1>1. /\ wk[w].pc # "idle"
      /\ wk' = [wk EXCEPT ![w].pc = "finish"]
  BY DEF Exhaust, FailTask, OverBudget, AtNewCall, AtRequests, Executes
<1>2. /\ wk[w] \in Worker /\ r \in Runs /\ run[r] \in RunRecord /\ run[r].status # "absent"
      /\ TaskOf(w) \in Task /\ wk[w].task \in DOMAIN tasks[r]
      /\ run \in [Runs -> RunRecord] /\ wk \in [Workers -> Worker] /\ tasks \in [Runs -> Seq(Task)]
  BY <1>1, Held DEF RowsInv, TypeOK
<1>3. /\ me \in Worker /\ me.run = r /\ me.task = wk[w].task
      /\ wk' = [wk EXCEPT ![w] = me]
  BY <1>1, <1>2 DEF Worker
<1>4. \E rec \in RunRecord : rec.status # "absent" /\ run' = [run EXCEPT ![r] = rec]
  <2>1. PICK status \in RunStatus \ {"absent"} : run' = [run EXCEPT ![r].status = status]
    <3>1. {"budget_exhausted", "failed", run[r].status} \subseteq RunStatus \ {"absent"}
      BY <1>2 DEF RunRecord, RunStatus, ActiveRun, Claimable
    <3>2. \E s \in {"budget_exhausted", "failed", run[r].status} : run' = [run EXCEPT ![r].status = s]
      BY DEF Exhaust, FailTask
    <3> QED BY <3>1, <3>2
  <2> DEFINE rec == [run[r] EXCEPT !.status = status]
  <2>2. rec \in RunRecord /\ rec.status # "absent"
    BY <1>2 DEF RunRecord
  <2>3. run' = [run EXCEPT ![r] = rec]
    BY <1>2, <2>1
  <2> HIDE DEF rec
  <2> QED BY <2>2, <2>3
<1>5. \E row \in Task : row.round = TaskOf(w).round /\ tasks' = [tasks EXCEPT ![r][wk[w].task] = row]
  <2>1. \E n \in Nat, s \in TaskStatus :
          tasks' = [tasks EXCEPT ![r][wk[w].task] = [TaskOf(w) EXCEPT !.attempts = n, !.status = s]]
    <3>1. CASE Exhaust(w)
      <4>1. tasks' = [tasks EXCEPT ![r][wk[w].task] =
                        [TaskOf(w) EXCEPT !.attempts = TaskOf(w).attempts, !.status = "failed"]]
        <5> DEFINE row == TaskOf(w)
        <5>1. [row EXCEPT !.attempts = row.attempts] = row
          BY <1>2 DEF Task
        <5>2. tasks' = [tasks EXCEPT ![r][wk[w].task] = [row EXCEPT !.status = "failed"]]
          BY <3>1, <1>2 DEF Exhaust, TaskOf
        <5> HIDE DEF row
        <5>3. tasks' = [tasks EXCEPT ![r][wk[w].task] =
                         [[row EXCEPT !.attempts = row.attempts] EXCEPT !.status = "failed"]]
          BY <5>1, <5>2
        <5> QED BY <5>3 DEF row
      <4>2. TaskOf(w).attempts \in Nat /\ "failed" \in TaskStatus
        BY <1>2 DEF Task, TaskStatus
      <4> QED BY <4>1, <4>2
    <3>2. CASE FailTask(w)
      <4> DEFINE n == TaskOf(w).attempts + 1
                 s == IF n >= MaxAttempts THEN "failed" ELSE "ready"
      <4>1. n \in Nat /\ s \in TaskStatus
        BY <1>2 DEF Task, TaskStatus
      <4>2. tasks' = [tasks EXCEPT ![r][wk[w].task] = [TaskOf(w) EXCEPT !.attempts = n, !.status = s]]
        BY <3>2, <1>2 DEF FailTask, TaskOf
      <4> HIDE DEF n, s
      <4> QED BY <4>1, <4>2
    <3> QED BY <3>1, <3>2
  <2>2. PICK n \in Nat, s \in TaskStatus :
          tasks' = [tasks EXCEPT ![r][wk[w].task] = [TaskOf(w) EXCEPT !.attempts = n, !.status = s]]
    BY <2>1
  <2> DEFINE counted == [TaskOf(w) EXCEPT !.attempts = n]
             row == [counted EXCEPT !.status = s]
  <2>3. counted \in Task /\ counted.round = TaskOf(w).round
    BY <1>2, RowUpdate
  <2>4. row \in Task /\ row.round = counted.round
    <3> HIDE DEF counted
    <3> QED BY <2>3, RowUpdate
  <2>5. tasks' = [tasks EXCEPT ![r][wk[w].task] = row]
    BY <2>2
  <2> HIDE DEF row, counted
  <2> QED BY <2>3, <2>4, <2>5
<1> HIDE DEF me
<1> QED BY <1>1, <1>3, <1>4, <1>5, RowStep

LEMMA ResumeRows ==
  ASSUME RowsInv, NEW r \in Runs, ResumeHuman(r)
  PROVE  RowsPart'
<1>1. /\ run \in [Runs -> RunRecord] /\ tasks \in [Runs -> Seq(Task)] /\ wk \in [Workers -> Worker]
      /\ \A q \in Runs : RowsOK(tasks[q]) /\ Len(tasks[q]) \in Nat
  BY RowRounds DEF RowsInv, TypeOK, AllRowsOK
<1> DEFINE us == Unblocked(r)
<1>2. DOMAIN us = DOMAIN tasks[r]
  BY DEF Unblocked
<1>3. \A t \in DOMAIN tasks[r] : us[t] \in Task /\ us[t].round = tasks[r][t].round
  <2> SUFFICES ASSUME NEW t \in DOMAIN tasks[r]
               PROVE  us[t] \in Task /\ us[t].round = tasks[r][t].round
    OBVIOUS
  <2> DEFINE row == tasks[r][t]
  <2>1. row \in Task /\ "ready" \in TaskStatus
    BY <1>1, LenProperties, ElementOfSeq DEF TaskStatus
  <2>2. [row EXCEPT !.status = "ready"] \in Task /\ [row EXCEPT !.status = "ready"].round = row.round
    BY <2>1, RowUpdate
  <2>3. us[t] = IF row.status = "waiting_human" THEN [row EXCEPT !.status = "ready"] ELSE row
    BY DEF Unblocked
  <2> HIDE DEF us
  <2> QED BY <2>1, <2>2, <2>3
<1>4. RowsOK(us) /\ Len(us) = Len(tasks[r])
  <2>1. us \in [DOMAIN tasks[r] -> Task]
    BY <1>3 DEF Unblocked
  <2> HIDE DEF us
  <2> QED BY <1>1, <1>2, <1>3, <2>1, RewriteOK
<1> HIDE DEF us
<1>5. /\ tasks' = [tasks EXCEPT ![r] = us] /\ wk' = wk
      /\ run' = [run EXCEPT ![r].status = "queued", ![r].cred = TRUE, ![r].lease = "free"]
      /\ run[r].status # "absent"
  BY DEF ResumeHuman, us, Resumed
<1>6. tasks' \in [Runs -> Seq(Task)]
  BY <1>1, <1>4, <1>5 DEF RowsOK
<1>7. \A q \in Runs : RowsOK(tasks'[q]) /\ Len(tasks'[q]) >= Len(tasks[q])
  <2> SUFFICES ASSUME NEW q \in Runs
               PROVE  RowsOK(tasks'[q]) /\ Len(tasks'[q]) >= Len(tasks[q])
    OBVIOUS
  <2>1. tasks'[q] = IF q = r THEN us ELSE tasks[q]
    BY <1>1, <1>5
  <2> QED BY <1>1, <1>4, <2>1
<1>8. /\ run' \in [Runs -> RunRecord]
      /\ \A q \in Runs : run'[q].status = "absent" => q # r /\ run[q].status = "absent"
  <2> DEFINE rec == [run[r] EXCEPT !.status = "queued", !.cred = TRUE, !.lease = "free"]
  <2>1. rec \in RunRecord /\ rec.status = "queued"
    BY <1>1 DEF RunRecord, RunStatus, ActiveRun, Claimable
  <2>2. run' = [run EXCEPT ![r] = rec]
    BY <1>1, <1>5
  <2> HIDE DEF rec
  <2> QED BY <1>1, <2>1, <2>2
<1>9. \A q \in Runs : run'[q].status = "absent" => tasks'[q] = <<>>
  BY <1>1, <1>5, <1>8 DEF RowsInv, AbsentEmpty
<1> QED BY <1>1, <1>5, <1>6, <1>7, <1>8, <1>9, GrowStep DEF RowsInv, HoldsRow

LEMMA EnqueueRows ==
  ASSUME RowsInv, NEW r \in Runs, Enqueue(r)
  PROVE  RowsPart'
<1>1. /\ run \in [Runs -> RunRecord] /\ tasks \in [Runs -> Seq(Task)] /\ wk \in [Workers -> Worker]
      /\ \A q \in Runs : RowsOK(tasks[q]) /\ Len(tasks[q]) \in Nat
  BY RowRounds DEF RowsInv, TypeOK, AllRowsOK
<1> DEFINE todo == OneRow("normalize", 0, 100)
           first == Create(<<>>, todo)
           Cancelled(q) == [t \in DOMAIN tasks[q] |->
                              IF tasks[q][t].status \in ActiveTask
                              THEN [tasks[q][t] EXCEPT !.status = "cancelled"] ELSE tasks[q][t]]
<1>2. RowsOK(first) /\ Len(first) >= 0
  <2>1. RowsOK(<<>>) /\ Len(<<>>) = 0
    BY EmptySeq DEF RowsOK
  <2>2. todo \in TodoRows /\ \A i \in DOMAIN todo : todo[i].round = 0
    <3>1. "normalize" \in Nodes /\ 0 \in Nat /\ 100 \in {80, 90, 100}
      BY DEF Nodes
    <3> QED BY <3>1, RowOf
  <2>3. RowsOK(first)
    <3> HIDE DEF todo
    <3> QED BY <2>1, <2>2, CreateOK
  <2> HIDE DEF first
  <2> QED BY <2>3, RowRounds
<1>3. \A q \in Runs : RowsOK(Cancelled(q)) /\ Len(Cancelled(q)) = Len(tasks[q])
  <2> SUFFICES ASSUME NEW q \in Runs
               PROVE  RowsOK(Cancelled(q)) /\ Len(Cancelled(q)) = Len(tasks[q])
    OBVIOUS
  <2> DEFINE us == Cancelled(q)
  <2>1. DOMAIN us = DOMAIN tasks[q]
    OBVIOUS
  <2>2. \A t \in DOMAIN tasks[q] : us[t] \in Task /\ us[t].round = tasks[q][t].round
    <3> SUFFICES ASSUME NEW t \in DOMAIN tasks[q]
                 PROVE  us[t] \in Task /\ us[t].round = tasks[q][t].round
      OBVIOUS
    <3> DEFINE row == tasks[q][t]
    <3>1. row \in Task /\ "cancelled" \in TaskStatus
      BY <1>1, LenProperties, ElementOfSeq DEF TaskStatus
    <3>2. [row EXCEPT !.status = "cancelled"] \in Task
          /\ [row EXCEPT !.status = "cancelled"].round = row.round
      BY <3>1, RowUpdate
    <3>3. us[t] = IF row.status \in ActiveTask THEN [row EXCEPT !.status = "cancelled"] ELSE row
      OBVIOUS
    <3> HIDE DEF us
    <3> QED BY <3>1, <3>2, <3>3
  <2>3. us \in [DOMAIN tasks[q] -> Task]
    BY <2>2
  <2> HIDE DEF us
  <2>4. RowsOK(us) /\ Len(us) = Len(tasks[q])
    BY <1>1, <2>1, <2>2, <2>3, RewriteOK
  <2> QED BY <2>4 DEF us
<1>4. PICK cred \in CredStart :
        run' = [q \in Runs |->
                  IF q = r THEN [run[r] EXCEPT !.status = "queued", !.cred = cred]
                  ELSE IF q \in Superseded THEN [run[q] EXCEPT !.status = "cancelled"] ELSE run[q]]
  BY DEF Enqueue
<1>5. /\ wk' = wk /\ run[r].status = "absent"
      /\ tasks' = [q \in Runs |-> IF q = r THEN first
                                  ELSE IF q \in Superseded THEN Cancelled(q) ELSE tasks[q]]
  BY DEF Enqueue, OneRow
<1> HIDE DEF first, Cancelled
<1>6. tasks[r] = <<>> /\ Len(tasks[r]) = 0
  BY <1>5, EmptySeq DEF RowsInv, AbsentEmpty
<1>7. \A q \in Runs : RowsOK(tasks'[q]) /\ Len(tasks'[q]) >= Len(tasks[q])
  <2> SUFFICES ASSUME NEW q \in Runs
               PROVE  RowsOK(tasks'[q]) /\ Len(tasks'[q]) >= Len(tasks[q])
    OBVIOUS
  <2>1. tasks'[q] = IF q = r THEN first ELSE IF q \in Superseded THEN Cancelled(q) ELSE tasks[q]
    BY <1>5
  <2>2. Len(tasks[q]) \in Nat
    BY <1>1
  <2> QED BY <1>1, <1>2, <1>3, <1>6, <2>1, <2>2
<1>8. tasks' \in [Runs -> Seq(Task)]
  BY <1>5, <1>7 DEF RowsOK
<1>9. cred \in BOOLEAN
  BY <1>4, ConstantsAssumption
<1>10. /\ run' \in [Runs -> RunRecord]
       /\ \A q \in Runs : run'[q].status = "absent" => q # r /\ q \notin Superseded /\ run[q].status = "absent"
  <2> SUFFICES ASSUME NEW q \in Runs
               PROVE  /\ run'[q] \in RunRecord
                      /\ run'[q].status = "absent" => q # r /\ q \notin Superseded /\ run[q].status = "absent"
    BY <1>4
  <2>1. run[q] \in RunRecord
    BY <1>1
  <2>2. CASE q = r
    BY <1>4, <1>9, <2>1, <2>2 DEF RunRecord, RunStatus, ActiveRun, Claimable
  <2>3. CASE q # r /\ q \in Superseded
    BY <1>4, <2>1, <2>3 DEF RunRecord, RunStatus
  <2>4. CASE q # r /\ q \notin Superseded
    BY <1>4, <2>1, <2>4
  <2> QED BY <2>2, <2>3, <2>4
<1>11. \A q \in Runs : run'[q].status = "absent" => tasks'[q] = <<>>
  BY <1>5, <1>10 DEF RowsInv, AbsentEmpty
<1> QED BY <1>1, <1>5, <1>7, <1>8, <1>10, <1>11, GrowStep DEF RowsInv, HoldsRow

LEMMA TimeRows ==
  ASSUME RowsInv, NEW r \in Runs, LeaseExpire(r) \/ Elapse(r)
  PROVE  RowsPart'
<1>1. UNCHANGED <<tasks, wk>>
      /\ (run' = [run EXCEPT ![r].lease = "expired"] \/ run' = [run EXCEPT ![r].over = TRUE])
  BY DEF LeaseExpire, Elapse
<1>2. run \in [Runs -> RunRecord]
  BY DEF RowsInv, TypeOK
<1>3. run' \in [Runs -> RunRecord] /\ \A q \in Runs : run'[q].status = run[q].status
  <2>1. PICK rec \in RunRecord : rec.status = run[r].status /\ run' = [run EXCEPT ![r] = rec]
    <3>1. CASE run' = [run EXCEPT ![r].lease = "expired"]
      <4> DEFINE rec == [run[r] EXCEPT !.lease = "expired"]
      <4>1. rec \in RunRecord /\ rec.status = run[r].status /\ run' = [run EXCEPT ![r] = rec]
        BY <1>2, <3>1 DEF RunRecord
      <4> QED BY <4>1
    <3>2. CASE run' = [run EXCEPT ![r].over = TRUE]
      <4> DEFINE rec == [run[r] EXCEPT !.over = TRUE]
      <4>1. rec \in RunRecord /\ rec.status = run[r].status /\ run' = [run EXCEPT ![r] = rec]
        BY <1>2, <3>2 DEF RunRecord
      <4> QED BY <4>1
    <3> QED BY <1>1, <3>1, <3>2
  <2> QED BY <1>2, <2>1
<1>4. AllRowsOK' /\ HoldsRow' /\ AbsentEmpty'
  BY <1>1, <1>3 DEF RowsInv, AllRowsOK, HoldsRow, AbsentEmpty
<1> QED BY <1>1, <1>3, <1>4 DEF RowsPart, RowsInv, TypeOK

(* Every step keeps the rows part. *)
LEMMA RowsStep ==
  ASSUME RowsInv, [Next]_vars
  PROVE  RowsPart'
<1>1. ASSUME NEW r \in Runs, Enqueue(r) \/ ResumeHuman(r) \/ LeaseExpire(r) \/ Elapse(r)
      PROVE  RowsPart'
  BY <1>1, EnqueueRows, ResumeRows, TimeRows
<1>2. ASSUME NEW w \in Workers, Work(w)
      PROVE  RowsPart'
  <2>1. CASE Claim(w)
    BY <2>1, ClaimRows
  <2>2. CASE Reread(w)
    BY <2>2, RereadRows
  <2>3. CASE BeginRefused(w) \/ Release(w) \/ ExhaustEscapes(w)
    BY <2>3, SetDownRows
  <2>4. CASE Normalize(w)
    BY <2>4, NormalizeRows
  <2>5. CASE Supervise(w)
    BY <2>5, SuperviseRows
  <2>6. CASE AgentNode(w)
    BY <2>6, AgentNodeRows
  <2>7. CASE Collection(w)
    BY <2>7, WaitHumanRows, StartRows, ProbingRows, CollectDoneRows DEF Collection, Commits, CommitsCall
  <2>8. CASE Exhaust(w) \/ FailTask(w)
    BY <2>8, HandlerRows
  <2> QED BY <1>2, <2>1, <2>2, <2>3, <2>4, <2>5, <2>6, <2>7, <2>8 DEF Work
<1>3. ASSUME NEW w \in Workers, Crash(w) \/ RenewalBlocks(w)
      PROVE  RowsPart'
  BY <1>3, SetDownRows, BlockedRows
<1>4. CASE UNCHANGED <<run, tasks, wk>>
  BY <1>4 DEF RowsInv, TypeOK, RowsPart, AllRowsOK, HoldsRow, AbsentEmpty
<1>5. CASE OtherProbe \/ PlanPipelineMove \/ UNCHANGED vars
  BY <1>4, <1>5 DEF OtherProbe, PlanPipelineMove, vars
<1> QED BY <1>1, <1>2, <1>3, <1>5 DEF Next

-----------------------------------------------------------------------------
(* The remaining parts of the type invariant.                              *)

LEMMA StatusStep ==
  ASSUME TypeOK, [Next]_vars
  PROVE  (case \in Status)' /\ (plan \in {"none", "unreviewed", "passed", "rejected"})'
<1>1. case' = case \/ case' \in Allowed[case]
  <2>1. CASE \E r \in Runs : Enqueue(r) \/ ResumeHuman(r) \/ LeaseExpire(r) \/ Elapse(r)
    BY <2>1 DEF Enqueue, ResumeHuman, LeaseExpire, Elapse
  <2>2. CASE \E w \in Workers : Work(w)
    BY <2>2, WorkMovesAllowed
  <2>3. CASE (\E w \in Workers : Crash(w) \/ RenewalBlocks(w)) \/ OtherProbe \/ UNCHANGED vars
    BY <2>3 DEF Crash, RenewalBlocks, OtherProbe, vars
  <2>4. CASE PlanPipelineMove
    BY <2>4, PipelineMovesAllowed
  <2> QED BY <2>1, <2>2, <2>3, <2>4 DEF Next
<1>2. \A from \in Status : Allowed[from] \subseteq Status
  BY DEF Status, Allowed, GiveUp
<1>3. case' \in Status
  BY <1>1, <1>2 DEF TypeOK
<1>4. plan' = plan \/ plan' \in {"none", "unreviewed", "passed", "rejected"}
  <2>1. CASE \E r \in Runs : Enqueue(r) \/ ResumeHuman(r) \/ LeaseExpire(r) \/ Elapse(r)
    BY <2>1 DEF Enqueue, ResumeHuman, LeaseExpire, Elapse
  <2>2. CASE \E w \in Workers : Claim(w) \/ Reread(w) \/ BeginRefused(w) \/ Release(w)
    BY <2>2 DEF Claim, Reread, BeginRefused, Release
  <2>3. CASE \E w \in Workers : Normalize(w) \/ Supervise(w)
    BY <2>3 DEF Normalize, Supervise
  <2>4. CASE \E w \in Workers : AgentNode(w)
    BY <2>4 DEF AgentNode, Agent, Triage, Historical, Diagnostic, Critic, PlanCandidate,
               SafetyReview
  <2>5. CASE \E w \in Workers : Collection(w)
    <3>1. CASE \E w \in Workers : WaitHuman(w)
      BY <3>1 DEF WaitHuman
    <3>2. CASE \E w \in Workers : StartProbe(w) \/ RejectProbe(w) \/ ProbeRefused(w)
      BY <3>2 DEF StartProbe, RejectProbe, ProbeRefused
    <3>3. CASE \E w \in Workers : StartInitialProbe(w) \/ RejectInitialProbe(w)
      BY <3>3 DEF StartInitialProbe, RejectInitialProbe
    <3>4. CASE \E w \in Workers : FinishProbe(w) \/ CollectDone(w)
      BY <3>4 DEF FinishProbe, CollectDone
    <3> QED BY <2>5, <3>1, <3>2, <3>3, <3>4 DEF Collection
  <2>6. CASE \E w \in Workers : Exhaust(w) \/ ExhaustEscapes(w) \/ FailTask(w)
    BY <2>6 DEF Exhaust, ExhaustEscapes, FailTask
  <2>7. CASE (\E w \in Workers : Crash(w) \/ RenewalBlocks(w)) \/ OtherProbe \/ PlanPipelineMove \/ UNCHANGED vars
    BY <2>7 DEF Crash, RenewalBlocks, OtherProbe, PlanPipelineMove, vars
  <2> QED BY <2>1, <2>2, <2>3, <2>4, <2>5, <2>6, <2>7 DEF Next, Work
<1> QED BY <1>3, <1>4 DEF TypeOK

LEMMA ProbeStep ==
  ASSUME TypeOK, [Next]_vars
  PROVE  (probe \in {"free", "orphan", "other"} \cup Workers)'
<1>1. probe' \in {probe, "free", "orphan", "other"} \cup Workers
  <2>1. CASE \E r \in Runs : Enqueue(r) \/ ResumeHuman(r) \/ LeaseExpire(r) \/ Elapse(r)
    BY <2>1 DEF Enqueue, ResumeHuman, LeaseExpire, Elapse
  <2>2. CASE \E w \in Workers : Claim(w) \/ Reread(w) \/ BeginRefused(w) \/ Release(w)
    BY <2>2 DEF Claim, Reread, BeginRefused, Release
  <2>3. CASE \E w \in Workers : Normalize(w) \/ Supervise(w)
    BY <2>3 DEF Normalize, Supervise
  <2>4. CASE \E w \in Workers : AgentNode(w)
    BY <2>4 DEF AgentNode, Agent, Triage, Historical, Diagnostic, Critic, PlanCandidate,
               SafetyReview
  <2>5. CASE \E w \in Workers : Collection(w)
    <3>1. CASE \E w \in Workers : WaitHuman(w)
      BY <3>1 DEF WaitHuman
    <3>2. CASE \E w \in Workers : StartProbe(w) \/ RejectProbe(w) \/ ProbeRefused(w)
      BY <3>2 DEF StartProbe, RejectProbe, ProbeRefused
    <3>3. CASE \E w \in Workers : StartInitialProbe(w) \/ RejectInitialProbe(w)
      BY <3>3 DEF StartInitialProbe, RejectInitialProbe
    <3>4. CASE \E w \in Workers : FinishProbe(w) \/ CollectDone(w)
      BY <3>4 DEF FinishProbe, CollectDone
    <3> QED BY <2>5, <3>1, <3>2, <3>3, <3>4 DEF Collection
  <2>6. CASE \E w \in Workers : Exhaust(w) \/ ExhaustEscapes(w) \/ FailTask(w)
    BY <2>6 DEF Exhaust, ExhaustEscapes, FailTask
  <2>7. CASE (\E w \in Workers : Crash(w) \/ RenewalBlocks(w)) \/ OtherProbe \/ PlanPipelineMove \/ UNCHANGED vars
    BY <2>7 DEF Crash, RenewalBlocks, OtherProbe, PlanPipelineMove, vars
  <2> QED BY <2>1, <2>2, <2>3, <2>4, <2>5, <2>6, <2>7 DEF Next, Work
<1> QED BY <1>1 DEF TypeOK

LEMMA EnvStep ==
  ASSUME TypeOK, [Next]_vars
  PROVE  (env \in [EnvKinds -> Nat])'
<1>1. UNCHANGED env \/ \E kind \in EnvKinds : Happens(kind)
  <2>1. CASE \E r \in Runs : Enqueue(r) \/ ResumeHuman(r) \/ LeaseExpire(r) \/ Elapse(r)
    BY <2>1 DEF Enqueue, ResumeHuman, LeaseExpire, Elapse, EnvKinds
  <2>2. CASE \E w \in Workers : Claim(w) \/ Reread(w) \/ BeginRefused(w) \/ Release(w)
    BY <2>2 DEF Claim, Reread, BeginRefused, Release, EnvKinds
  <2>3. CASE \E w \in Workers : Normalize(w) \/ Supervise(w)
    BY <2>3 DEF Normalize, Supervise, EnvKinds
  <2>4. CASE \E w \in Workers : AgentNode(w)
    BY <2>4 DEF AgentNode, Agent, Triage, Historical, Diagnostic, Critic, PlanCandidate,
               SafetyReview, EnvKinds
  <2>5. CASE \E w \in Workers : Collection(w)
    <3>1. CASE \E w \in Workers : WaitHuman(w)
      BY <3>1 DEF WaitHuman, EnvKinds
    <3>2. CASE \E w \in Workers : StartProbe(w) \/ RejectProbe(w) \/ ProbeRefused(w)
      BY <3>2 DEF StartProbe, RejectProbe, ProbeRefused, EnvKinds
    <3>3. CASE \E w \in Workers : StartInitialProbe(w) \/ RejectInitialProbe(w)
      BY <3>3 DEF StartInitialProbe, RejectInitialProbe, EnvKinds
    <3>4. CASE \E w \in Workers : FinishProbe(w) \/ CollectDone(w)
      BY <3>4 DEF FinishProbe, CollectDone, EnvKinds
    <3> QED BY <2>5, <3>1, <3>2, <3>3, <3>4 DEF Collection
  <2>6. CASE \E w \in Workers : Exhaust(w) \/ ExhaustEscapes(w) \/ FailTask(w)
    BY <2>6 DEF Exhaust, ExhaustEscapes, FailTask, EnvKinds
  <2>7. CASE (\E w \in Workers : Crash(w) \/ RenewalBlocks(w)) \/ OtherProbe \/ PlanPipelineMove \/ UNCHANGED vars
    BY <2>7 DEF Crash, RenewalBlocks, OtherProbe, PlanPipelineMove, vars, EnvKinds
  <2> QED BY <2>1, <2>2, <2>3, <2>4, <2>5, <2>6, <2>7 DEF Next, Work
<1>2. ASSUME NEW kind \in EnvKinds, Happens(kind)
      PROVE  env' \in [EnvKinds -> Nat]
  <2>1. env' = [env EXCEPT ![kind] = env[kind] + 1] /\ env[kind] \in Nat
    BY <1>2 DEF Happens, TypeOK
  <2> QED BY <2>1 DEF TypeOK
<1> QED BY <1>1, <1>2 DEF TypeOK

(* A charge raises a count by a natural number. *)
LEMMA LedgerStep ==
  ASSUME RowsInv, [Next]_vars
  PROVE  (used \in [Runs -> [Resources -> Nat]])'
<1>1. used \in [Runs -> [Resources -> Nat]]
  BY DEF RowsInv, TypeOK
<1>2. ASSUME NEW r \in Runs, NEW resources PROVE Charged(r, resources) \in [Runs -> [Resources -> Nat]]
  BY <1>1 DEF Charged
<1>3. ASSUME NEW w \in Workers, wk[w].pc # "idle", NEW i \in Nat
      PROVE  ProbeCharge(w, i) \in Nat
  <2>1. wk[w].run \in Runs /\ wk[w].idx \in Nat
    BY <1>3, Held DEF Worker
  <2>2. used[wk[w].run]["probe_calls"] \in Nat
    BY <1>1, <2>1 DEF Resources
  <2>3. IsFiniteSet(wk[w].idx .. (i - 1))
    BY <2>1, FS_Interval
  <2>4. Cardinality(Passed(w, i)) \in Nat
    BY <2>3, FS_Subset, FS_CardinalityType DEF Passed
  <2> QED BY <2>2, <2>4 DEF ProbeCharge
<1>4. ASSUME NEW w \in Workers, Normalize(w) \/ Supervise(w) \/ AgentNode(w)
      PROVE  used' \in [Runs -> [Resources -> Nat]]
  <2>1. \E resources : used' = used \/ used' = Charged(wk[w].run, resources)
    BY <1>4 DEF Normalize, Supervise, AgentNode, Agent, Triage, Historical, Diagnostic, Critic,
                PlanCandidate, SafetyReview
  <2>2. wk[w].run \in Runs
    BY <1>4, Held DEF Normalize, Supervise, AgentNode, Agent, Triage, Historical, Diagnostic, Critic,
                      PlanCandidate, SafetyReview, Executes
  <2> QED BY <1>1, <1>2, <2>1, <2>2
<1>5. ASSUME NEW w \in Workers, CommitsCall(w)
      PROVE  used' \in [Runs -> [Resources -> Nat]]
  <2>1. wk[w].pc # "idle"
    BY <1>5 DEF CommitsCall, StartProbe, RejectProbe, AtNewCall, AtRequests, Executes
  <2>2. PICK i \in Calls : used' = [used EXCEPT ![wk[w].run]["probe_calls"] = ProbeCharge(w, i) + 1]
    BY <1>5 DEF CommitsCall, StartProbe, RejectProbe
  <2>3. ProbeCharge(w, i) \in Nat
    BY <1>3, <2>1 DEF Calls
  <2>4. ProbeCharge(w, i) + 1 \in Nat
    BY <2>3
  <2> DEFINE n == ProbeCharge(w, i) + 1
  <2>5. used' = [used EXCEPT ![wk[w].run]["probe_calls"] = n]
    BY <2>2
  <2> HIDE DEF n
  <2> QED BY <1>1, <2>4, <2>5 DEF n
<1>6. ASSUME NEW w \in Workers, CollectDone(w)
      PROVE  used' \in [Runs -> [Resources -> Nat]]
  <2> DEFINE last == IF IsFollowUp(w) THEN ProbesPerRequest + 1 ELSE wk[w].idx
  <2>1. wk[w].pc # "idle"
    BY <1>6 DEF CollectDone, Executes
  <2>2. last \in Nat
    BY <2>1, Held, ConstantsAssumption DEF Worker
  <2>3. ProbeCharge(w, last) \in Nat
    BY <1>3, <2>1, <2>2
  <2>4. used' = [used EXCEPT ![wk[w].run]["probe_calls"] = ProbeCharge(w, last)]
    BY <1>6 DEF CollectDone
  <2> QED BY <1>1, <2>3, <2>4
<1>7. CASE UNCHANGED used
  BY <1>1, <1>7
<1>8. \/ UNCHANGED used
      \/ \E w \in Workers : Normalize(w) \/ Supervise(w) \/ AgentNode(w) \/ CommitsCall(w) \/ CollectDone(w)
  <2>1. CASE \E r \in Runs : Enqueue(r) \/ ResumeHuman(r) \/ LeaseExpire(r) \/ Elapse(r)
    BY <2>1 DEF Enqueue, ResumeHuman, LeaseExpire, Elapse
  <2>2. CASE \E w \in Workers : Claim(w) \/ Reread(w) \/ BeginRefused(w) \/ Release(w)
    BY <2>2 DEF Claim, Reread, BeginRefused, Release
  <2>3. CASE \E w \in Workers : Normalize(w) \/ Supervise(w) \/ AgentNode(w)
    BY <2>3
  <2>4. CASE \E w \in Workers : Collection(w)
    BY <2>4 DEF Collection, CommitsCall, WaitHuman, ProbeRefused, StartInitialProbe,
                RejectInitialProbe, FinishProbe
  <2>5. CASE \E w \in Workers : Exhaust(w) \/ ExhaustEscapes(w) \/ FailTask(w)
    BY <2>5 DEF Exhaust, ExhaustEscapes, FailTask
  <2>6. CASE (\E w \in Workers : Crash(w) \/ RenewalBlocks(w)) \/ OtherProbe \/ PlanPipelineMove \/ UNCHANGED vars
    BY <2>6 DEF Crash, RenewalBlocks, OtherProbe, PlanPipelineMove, vars
  <2> QED BY <2>1, <2>2, <2>3, <2>4, <2>5, <2>6 DEF Next, Work
<1> QED BY <1>4, <1>5, <1>6, <1>7, <1>8

-----------------------------------------------------------------------------
LEMMA RowsInvInit ==
  ASSUME Init
  PROVE  RowsInv
<1>1. run \in [Runs -> RunRecord] /\ wk \in [Workers -> Worker]
  BY IdleIsWorker DEF Init, RunRecord, RunStatus
<1>2. \A r \in Runs : tasks[r] = <<>> /\ RowsOK(tasks[r])
  BY EmptySeq DEF Init, RowsOK
<1>3. tasks \in [Runs -> Seq(Task)]
  BY EmptySeq DEF Init
<1>4. used \in [Runs -> [Resources -> Nat]] /\ env \in [EnvKinds -> Nat]
  BY DEF Init
<1>5. case \in Status
  BY ConstantsAssumption DEF Init
<1>6. TypeOK
  BY <1>1, <1>3, <1>4, <1>5 DEF Init, TypeOK
<1>7. HoldsRow
  BY IdleIsWorker DEF Init, HoldsRow
<1> QED BY <1>2, <1>6, <1>7 DEF RowsInv, AllRowsOK, AbsentEmpty

LEMMA RowsInvStep ==
  ASSUME RowsInv, [Next]_vars
  PROVE  RowsInv'
<1>1. RowsPart'
  BY RowsStep
<1>2. TypeOK
  BY DEF RowsInv
<1>3. TypeOK'
  BY <1>1, <1>2, StatusStep, ProbeStep, EnvStep, LedgerStep DEF TypeOK, RowsPart
<1> QED BY <1>1, <1>3 DEF RowsPart, RowsInv

(* Every row, record, counter and process the graph ever holds has its type,
   for every number of runs, workers, retries, requests and budgets: no
   failure, retry, takeover or race makes a row the code could not read. *)
THEOREM TypeCorrect == Spec => []TypeOK
<1>1. RowsInv => TypeOK
  BY DEF RowsInv
<1> QED BY <1>1, RowsInvInit, RowsInvStep, PTL DEF Spec


-----------------------------------------------------------------------------
(* What one step does to the rows.                                         *)

(* The row an enqueued or scheduled task starts as. *)
Fresh(new, born) ==
  [node |-> new.node, round |-> new.round, prio |-> new.prio, born |-> born,
   status |-> "ready", attempts |-> 0, out |-> {}, calls |-> NoCalls]

(* Appended rows stand after the old ones, in order, and are fresh. *)
LEMMA CreateRows ==
  ASSUME NEW ts, RowsOK(ts), NEW todo \in TodoRows
  PROVE  /\ Len(ts) \in Nat /\ Len(todo) \in Nat
         /\ DOMAIN ts = 1 .. Len(ts) /\ DOMAIN todo = 1 .. Len(todo)
         /\ DOMAIN Create(ts, todo) = 1 .. (Len(ts) + Len(todo))
         /\ \A t \in 1 .. Len(ts) : Create(ts, todo)[t] = ts[t]
         /\ \A i \in 1 .. Len(todo) : Create(ts, todo)[Len(ts) + i] = Fresh(todo[i], Len(ts))
<1> DEFINE Row == [node : Nodes, round : Nat, prio : {80, 90, 100}]
           new == [i \in 1 .. Len(todo) |->
                    [node |-> todo[i].node, round |-> todo[i].round, prio |-> todo[i].prio,
                     born |-> Len(ts), status |-> "ready", attempts |-> 0, out |-> {},
                     calls |-> NoCalls]]
<1>1. todo \in Seq(Row) /\ ts \in Seq(Task)
  BY DEF TodoRows, RowsOK
<1> HIDE DEF Row
<1>2. /\ Len(ts) \in Nat /\ DOMAIN ts = 1 .. Len(ts)
      /\ Len(todo) \in Nat /\ DOMAIN todo = 1 .. Len(todo)
  BY <1>1, LenProperties, Zenon
<1> DEFINE Any == {new[i] : i \in 1 .. Len(todo)}
<1>3. new \in Seq(Any \cup Task) /\ ts \in Seq(Any \cup Task)
  <2>1. new \in [1 .. Len(todo) -> Any \cup Task]
    OBVIOUS
  <2>2. ts \in [1 .. Len(ts) -> Task]
    BY <1>1, LenProperties, Zenon
  <2> HIDE DEF new
  <2>3. ts \in [1 .. Len(ts) -> Any \cup Task]
    BY <2>2
  <2> HIDE DEF Any
  <2> QED BY <1>2, <2>1, <2>3, SeqDef, ZenonT(30)
<1>4. Len(new) = Len(todo)
  <2>1. Len(new) \in Nat /\ DOMAIN new = 1 .. Len(new)
    <3> HIDE DEF new
    <3> QED BY <1>3, LenProperties, Zenon
  <2>2. DOMAIN new = 1 .. Len(todo)
    OBVIOUS
  <2>3. \A m, n \in Nat : 1 .. m = 1 .. n => m = n
    OBVIOUS
  <2> HIDE DEF new, Any
  <2> QED BY <1>2, <2>1, <2>2, <2>3, Zenon
<1>5. Create(ts, todo) = ts \o new
  BY DEF Create
<1>6. \A i \in 1 .. Len(todo) : new[i] = Fresh(todo[i], Len(ts))
  BY DEF Fresh
<1> HIDE DEF new
<1>7. /\ ts \o new \in Seq(Any \cup Task)
      /\ Len(ts \o new) = Len(ts) + Len(new)
      /\ \A i \in 1 .. Len(ts) + Len(new) :
           (ts \o new)[i] = IF i <= Len(ts) THEN ts[i] ELSE new[i - Len(ts)]
  <2> HIDE DEF Any
  <2> QED BY <1>3, ConcatProperties, Zenon
<1>8. DOMAIN (ts \o new) = 1 .. (Len(ts) + Len(todo))
  <2> HIDE DEF Any
  <2> QED BY <1>4, <1>7, LenProperties, Zenon
<1>9. \A t \in 1 .. Len(ts) : (ts \o new)[t] = ts[t]
  <2>1. \A t \in 1 .. Len(ts) : t \in 1 .. Len(ts) + Len(new) /\ t <= Len(ts)
    BY <1>2, <1>4
  <2> QED BY <1>7, <2>1, Zenon
<1>10. \A i \in 1 .. Len(todo) : (ts \o new)[Len(ts) + i] = new[i]
  <2> SUFFICES ASSUME NEW i \in 1 .. Len(todo) PROVE (ts \o new)[Len(ts) + i] = new[i]
    OBVIOUS
  <2>1. /\ Len(ts) + i \in 1 .. Len(ts) + Len(new)
        /\ ~(Len(ts) + i <= Len(ts))
        /\ Len(ts) + i - Len(ts) = i
    BY <1>2, <1>4
  <2> DEFINE k == Len(ts) + i
  <2>2. k \in 1 .. Len(ts) + Len(new) /\ ~(k <= Len(ts)) /\ k - Len(ts) = i
    BY <2>1
  <2> HIDE DEF k
  <2>3. (ts \o new)[k] = new[i]
    BY <1>7, <2>2, Zenon
  <2> QED BY <2>3 DEF k
<1> QED BY <1>2, <1>5, <1>6, <1>8, <1>9, <1>10

(* The step of one task: its row is rewritten and rows may be appended. *)
TaskStep(w, row, todo) ==
  tasks' = [tasks EXCEPT ![wk[w].run] =
              Create([tasks[wk[w].run] EXCEPT ![wk[w].task] = row], todo)]

(* A row that a step of its task leaves: what identifies it stays. *)
SameTask(w, row) ==
  /\ row \in Task
  /\ row.node = TaskOf(w).node /\ row.round = TaskOf(w).round
  /\ row.prio = TaskOf(w).prio /\ row.born = TaskOf(w).born

LEMMA TaskStepRows ==
  ASSUME RowsInv, NEW w \in Workers, wk[w].pc # "idle",
         NEW row, SameTask(w, row), NEW todo \in TodoRows, TaskStep(w, row, todo)
  PROVE  LET r == wk[w].run  n == Len(tasks[r]) IN
         /\ r \in Runs /\ n \in Nat /\ Len(todo) \in Nat
         /\ DOMAIN tasks[r] = 1 .. n /\ wk[w].task \in 1 .. n
         /\ DOMAIN todo = 1 .. Len(todo)
         /\ \A q \in Runs : q # r => tasks'[q] = tasks[q]
         /\ DOMAIN tasks'[r] = 1 .. (n + Len(todo))
         /\ tasks'[r][wk[w].task] = row
         /\ \A t \in 1 .. n : t # wk[w].task => tasks'[r][t] = tasks[r][t]
         /\ \A i \in 1 .. Len(todo) : tasks'[r][n + i] = Fresh(todo[i], n)
<1> DEFINE r == wk[w].run
           ts == [tasks[r] EXCEPT ![wk[w].task] = row]
<1>1. r \in Runs /\ RowsOK(tasks[r]) /\ wk[w].task \in DOMAIN tasks[r] /\ tasks \in [Runs -> Seq(Task)]
  BY Held DEF RowsInv, TypeOK
<1>2. RowsOK(ts) /\ Len(ts) = Len(tasks[r])
  BY <1>1, ExceptOK DEF SameTask, TaskOf
<1>3. DOMAIN tasks[r] = 1 .. Len(tasks[r])
  BY <1>1, RowRounds
<1>4. ts[wk[w].task] = row /\ \A t \in 1 .. Len(tasks[r]) : t # wk[w].task => ts[t] = tasks[r][t]
  BY <1>1, <1>3
<1>5. \A q \in Runs : tasks'[q] = IF q = r THEN Create(ts, todo) ELSE tasks[q]
  BY <1>1 DEF TaskStep
<1> HIDE DEF ts
<1>6. /\ Len(ts) \in Nat /\ Len(todo) \in Nat
      /\ DOMAIN todo = 1 .. Len(todo)
      /\ DOMAIN Create(ts, todo) = 1 .. (Len(ts) + Len(todo))
      /\ \A t \in 1 .. Len(ts) : Create(ts, todo)[t] = ts[t]
      /\ \A i \in 1 .. Len(todo) : Create(ts, todo)[Len(ts) + i] = Fresh(todo[i], Len(ts))
  BY <1>2, CreateRows
<1> QED BY <1>1, <1>2, <1>3, <1>4, <1>5, <1>6

(* A row of which only the status may differ. *)
Restatus(before, after) ==
  /\ after.node = before.node /\ after.round = before.round /\ after.prio = before.prio
  /\ after.born = before.born /\ after.attempts = before.attempts
  /\ after.out = before.out /\ after.calls = before.calls

LEMMA StatusRow ==
  ASSUME NEW row \in Task, NEW status
  PROVE  /\ Restatus(row, [row EXCEPT !.status = status]) /\ Restatus(row, row)
         /\ [row EXCEPT !.status = status].status = status
  BY DEF Restatus, Task

LEMMA RowIsTask ==
  ASSUME RowsInv, NEW r \in Runs, NEW t \in DOMAIN tasks[r]
  PROVE  tasks[r][t] \in Task
  BY LenProperties, ElementOfSeq DEF RowsInv, AllRowsOK, RowsOK

(* The three places that rewrite the statuses of a run's rows in place. *)
LEMMA RecoveredRows ==
  ASSUME RowsInv, NEW r \in Runs
  PROVE  /\ DOMAIN Recovered(r) = DOMAIN tasks[r]
         /\ \A t \in DOMAIN tasks[r] :
              /\ Restatus(tasks[r][t], Recovered(r)[t])
              /\ Recovered(r)[t].status =
                   IF run[r].lease = "expired" /\ run[r].started /\ tasks[r][t].status = "running"
                   THEN "ready" ELSE tasks[r][t].status
<1>1. DOMAIN Recovered(r) = DOMAIN tasks[r]
  BY DEF Recovered
<1> SUFFICES ASSUME NEW t \in DOMAIN tasks[r]
             PROVE  /\ Restatus(tasks[r][t], Recovered(r)[t])
                    /\ Recovered(r)[t].status =
                         IF run[r].lease = "expired" /\ run[r].started /\ tasks[r][t].status = "running"
                         THEN "ready" ELSE tasks[r][t].status
  BY <1>1
<1> DEFINE row == tasks[r][t]
<1>2. row \in Task
  BY RowIsTask
<1>3. Recovered(r)[t] = IF run[r].lease = "expired" /\ run[r].started /\ row.status = "running"
                        THEN [row EXCEPT !.status = "ready"] ELSE row
  BY DEF Recovered
<1> HIDE DEF row
<1>4. /\ Restatus(row, Recovered(r)[t])
      /\ Recovered(r)[t].status =
           IF run[r].lease = "expired" /\ run[r].started /\ row.status = "running"
           THEN "ready" ELSE row.status
  BY <1>2, <1>3, StatusRow
<1> QED BY <1>4 DEF row

LEMMA UnblockedRows ==
  ASSUME RowsInv, NEW r \in Runs
  PROVE  /\ DOMAIN Unblocked(r) = DOMAIN tasks[r]
         /\ \A t \in DOMAIN tasks[r] :
              /\ Restatus(tasks[r][t], Unblocked(r)[t])
              /\ Unblocked(r)[t].status =
                   IF tasks[r][t].status = "waiting_human" THEN "ready" ELSE tasks[r][t].status
<1>1. DOMAIN Unblocked(r) = DOMAIN tasks[r]
  BY DEF Unblocked
<1> SUFFICES ASSUME NEW t \in DOMAIN tasks[r]
             PROVE  /\ Restatus(tasks[r][t], Unblocked(r)[t])
                    /\ Unblocked(r)[t].status =
                         IF tasks[r][t].status = "waiting_human" THEN "ready" ELSE tasks[r][t].status
  BY <1>1
<1> DEFINE row == tasks[r][t]
<1>2. row \in Task
  BY RowIsTask
<1>3. Unblocked(r)[t] = IF row.status = "waiting_human" THEN [row EXCEPT !.status = "ready"] ELSE row
  BY DEF Unblocked
<1> HIDE DEF row
<1>4. /\ Restatus(row, Unblocked(r)[t])
      /\ Unblocked(r)[t].status = IF row.status = "waiting_human" THEN "ready" ELSE row.status
  BY <1>2, <1>3, StatusRow
<1> QED BY <1>4 DEF row

LEMMA EnqueuedRows ==
  ASSUME RowsInv, NEW r \in Runs, Enqueue(r)
  PROVE  /\ tasks[r] = <<>> /\ DOMAIN tasks[r] = {}
         /\ DOMAIN tasks'[r] = {1} /\ tasks'[r][1] = Fresh(Todo("normalize", 0, 100), 0)
         /\ \A q \in Runs : q # r =>
              /\ DOMAIN tasks'[q] = DOMAIN tasks[q]
              /\ \A t \in DOMAIN tasks[q] :
                   /\ Restatus(tasks[q][t], tasks'[q][t])
                   /\ tasks'[q][t].status =
                        IF q \in Superseded /\ tasks[q][t].status \in ActiveTask
                        THEN "cancelled" ELSE tasks[q][t].status
<1> DEFINE todo == OneRow("normalize", 0, 100)
<1>1. tasks[r] = <<>>
  BY DEF Enqueue, RowsInv, AbsentEmpty
<1>2. todo \in TodoRows
  <2>1. "normalize" \in Nodes /\ 0 \in Nat /\ 100 \in {80, 90, 100}
    BY DEF Nodes
  <2> QED BY <2>1, RowOf
<1>3. Len(todo) = 1 /\ todo[1] = Todo("normalize", 0, 100) /\ todo = <<Todo("normalize", 0, 100)>>
  BY DEF OneRow
<1> HIDE DEF todo
<1>4. RowsOK(<<>>) /\ Len(<<>>) = 0
  BY EmptySeq DEF RowsOK
<1>5. tasks'[r] = Create(<<>>, todo)
  BY <1>3 DEF Enqueue
<1>6. /\ DOMAIN Create(<<>>, todo) = 1 .. (Len(<<>>) + Len(todo))
      /\ \A i \in 1 .. Len(todo) : Create(<<>>, todo)[Len(<<>>) + i] = Fresh(todo[i], Len(<<>>))
  BY <1>2, <1>4, CreateRows
<1>7. DOMAIN tasks'[r] = {1} /\ tasks'[r][1] = Fresh(Todo("normalize", 0, 100), 0)
  <2>1. 1 .. (Len(<<>>) + Len(todo)) = {1} /\ 1 \in 1 .. Len(todo) /\ Len(<<>>) + 1 = 1
    BY <1>3, <1>4
  <2> QED BY <1>3, <1>4, <1>5, <1>6, <2>1
<1>8. ASSUME NEW q \in Runs, q # r
      PROVE  /\ DOMAIN tasks'[q] = DOMAIN tasks[q]
             /\ \A t \in DOMAIN tasks[q] :
                  /\ Restatus(tasks[q][t], tasks'[q][t])
                  /\ tasks'[q][t].status =
                       IF q \in Superseded /\ tasks[q][t].status \in ActiveTask
                       THEN "cancelled" ELSE tasks[q][t].status
  <2>1. tasks'[q] = IF q \in Superseded
                    THEN [t \in DOMAIN tasks[q] |->
                           IF tasks[q][t].status \in ActiveTask
                           THEN [tasks[q][t] EXCEPT !.status = "cancelled"] ELSE tasks[q][t]]
                    ELSE tasks[q]
    BY <1>8 DEF Enqueue
  <2>2. DOMAIN tasks'[q] = DOMAIN tasks[q]
    BY <2>1
  <2> SUFFICES ASSUME NEW t \in DOMAIN tasks[q]
               PROVE  /\ Restatus(tasks[q][t], tasks'[q][t])
                      /\ tasks'[q][t].status =
                           IF q \in Superseded /\ tasks[q][t].status \in ActiveTask
                           THEN "cancelled" ELSE tasks[q][t].status
    BY <2>2
  <2> DEFINE row == tasks[q][t]
  <2>3. row \in Task
    BY RowIsTask
  <2>4. tasks'[q][t] = IF q \in Superseded /\ row.status \in ActiveTask
                       THEN [row EXCEPT !.status = "cancelled"] ELSE row
    BY <2>1
  <2> HIDE DEF row
  <2>5. /\ Restatus(row, tasks'[q][t])
        /\ tasks'[q][t].status = IF q \in Superseded /\ row.status \in ActiveTask
                                 THEN "cancelled" ELSE row.status
    BY <2>3, <2>4, StatusRow
  <2> QED BY <2>5 DEF row
<1> QED BY <1>1, <1>7, <1>8

(* A change of one field of a row is the same task, and leaves the others. *)
LEMMA FieldUpdate ==
  ASSUME NEW w, NEW row, SameTask(w, row)
  PROVE  /\ \A s \in TaskStatus : LET new == [row EXCEPT !.status = s] IN
              /\ SameTask(w, new) /\ new.status = s
              /\ new.calls = row.calls /\ new.out = row.out /\ new.attempts = row.attempts
         /\ \A n \in Nat : LET new == [row EXCEPT !.attempts = n] IN
              /\ SameTask(w, new) /\ new.attempts = n
              /\ new.calls = row.calls /\ new.out = row.out /\ new.status = row.status
         /\ \A o \in SUBSET Flags : LET new == [row EXCEPT !.out = o] IN
              /\ SameTask(w, new) /\ new.out = o
              /\ new.calls = row.calls /\ new.status = row.status /\ new.attempts = row.attempts
         /\ \A c \in [Calls -> CallStatus] : LET new == [row EXCEPT !.calls = c] IN
              /\ SameTask(w, new) /\ new.calls = c
              /\ new.status = row.status /\ new.out = row.out /\ new.attempts = row.attempts
  BY DEF SameTask, Task

LEMMA StartedTask ==
  ASSUME RowsInv, NEW w \in Workers, wk[w].pc # "idle"
  PROVE  /\ SameTask(w, TaskOf(w))
         /\ SameTask(w, Started(w)) /\ Started(w).status = "running"
         /\ Started(w).calls = TaskOf(w).calls /\ Started(w).out = TaskOf(w).out
<1>1. TaskOf(w) \in Task /\ wk[w] \in Worker
  BY Held
<1>2. SameTask(w, TaskOf(w))
  BY <1>1 DEF SameTask
<1> DEFINE row == TaskOf(w)
           n == IF wk[w].seen.task = "ready" THEN wk[w].seen.attempts + 1 ELSE row.attempts
           begun == [row EXCEPT !.status = "running"]
<1>3. n \in Nat
  BY <1>1 DEF Worker, Seen, Task
<1>4. Started(w) = [begun EXCEPT !.attempts = n]
  BY DEF Started
<1> HIDE DEF n, row, begun
<1>5. /\ SameTask(w, begun) /\ begun.status = "running"
      /\ begun.calls = row.calls /\ begun.out = row.out
  <2>1. "running" \in TaskStatus
    BY DEF TaskStatus
  <2> QED BY <1>2, <2>1, FieldUpdate DEF begun, row
<1>6. /\ SameTask(w, [begun EXCEPT !.attempts = n])
      /\ [begun EXCEPT !.attempts = n].calls = begun.calls
      /\ [begun EXCEPT !.attempts = n].out = begun.out
      /\ [begun EXCEPT !.attempts = n].status = begun.status
  BY <1>3, <1>5, FieldUpdate
<1> QED BY <1>2, <1>4, <1>5, <1>6 DEF row

(* No row is appended. *)
LEMMA NoNewRows ==
  ASSUME RowsInv, NEW w \in Workers, wk[w].pc # "idle", NEW row,
         tasks' = [tasks EXCEPT ![wk[w].run][wk[w].task] = row], SameTask(w, row)
  PROVE  TaskStep(w, row, <<>>) /\ <<>> \in TodoRows
<1> DEFINE r == wk[w].run
           ts == [tasks[r] EXCEPT ![wk[w].task] = row]
<1>1. r \in Runs /\ RowsOK(tasks[r]) /\ wk[w].task \in DOMAIN tasks[r] /\ tasks \in [Runs -> Seq(Task)]
  BY Held DEF RowsInv, TypeOK
<1>2. RowsOK(ts)
  BY <1>1, ExceptOK DEF SameTask, TaskOf
<1>3. <<>> \in TodoRows /\ Len(<<>>) = 0 /\ DOMAIN <<>> = {}
  BY EmptySeq DEF TodoRows
<1>4. tasks' = [tasks EXCEPT ![r] = ts]
  BY <1>1
<1>5. Create(ts, <<>>) = ts
  <2> HIDE DEF ts
  <2>1. ts \in Seq(Task)
    BY <1>2 DEF RowsOK
  <2>2. Create(ts, <<>>) = ts \o <<>>
    <3> DEFINE F(i) == [node |-> <<>>[i].node, round |-> <<>>[i].round, prio |-> <<>>[i].prio,
                        born |-> Len(ts), status |-> "ready", attempts |-> 0, out |-> {},
                        calls |-> NoCalls]
    <3>1. 1 .. Len(<<>>) = {}
      BY <1>3
    <3>2. [i \in 1 .. Len(<<>>) |-> F(i)] = <<>>
      BY <3>1
    <3> QED BY <3>2 DEF Create
  <2> QED BY <2>1, <2>2, ConcatEmptySeq
<1> QED BY <1>3, <1>4, <1>5 DEF TaskStep

(* A node that completes. *)
LEMMA CompleteTask ==
  ASSUME RowsInv, NEW w \in Workers, wk[w].pc # "idle", NEW out \in SUBSET Flags,
         NEW todo, NEW status, Complete(w, out, todo, status)
  PROVE  \E row : /\ SameTask(w, row) /\ TaskStep(w, row, todo)
                  /\ row.status = "completed" /\ row.out = out /\ row.calls = TaskOf(w).calls
<1> DEFINE done == [Started(w) EXCEPT !.status = "completed"]
           row == [done EXCEPT !.out = out]
<1>1. SameTask(w, Started(w)) /\ Started(w).calls = TaskOf(w).calls
  BY StartedTask
<1>2. SameTask(w, done) /\ done.status = "completed" /\ done.calls = Started(w).calls
  <2>1. "completed" \in TaskStatus
    BY DEF TaskStatus
  <2> QED BY <1>1, <2>1, FieldUpdate
<1>3. TaskStep(w, row, todo)
  BY DEF Complete, TaskStep
<1> HIDE DEF done
<1>4. SameTask(w, row) /\ row.out = out /\ row.status = done.status /\ row.calls = done.calls
  BY <1>2, FieldUpdate
<1> HIDE DEF row
<1> QED BY <1>1, <1>2, <1>3, <1>4

(* The nodes that are one transaction. *)
LEMMA NodeCompletes ==
  ASSUME RowsInv, NEW w \in Workers, Normalize(w) \/ Supervise(w) \/ AgentNode(w)
  PROVE  /\ wk[w].pc = "begun" /\ CanBegin(w)
         /\ UNCHANGED <<probe, env>>
         /\ \E out \in SUBSET Flags, todo \in TodoRows, status \in RunStatus \ {"absent", "waiting_human"} :
              Complete(w, out, todo, status)
<1>1. "running" \in RunStatus \ {"absent", "waiting_human"} /\ {} \in SUBSET Flags
  BY DEF RunStatus, ActiveRun, Claimable
<1>2. \A n \in Nodes : OneRow(n, 0, 100) \in TodoRows
  <2>1. 0 \in Nat /\ 100 \in {80, 90, 100}
    OBVIOUS
  <2> QED BY <2>1, RowOf
<1>3. CASE Normalize(w)
  <2>1. <<Todo("triage", 0, 100), Supervisor>> \in TodoRows
    <3>1. "triage" \in Nodes /\ "supervisor" \in Nodes /\ 100 \in {80, 90, 100}
      BY DEF Nodes
    <3>2. TwoRows("triage", 100, "supervisor", 100) \in TodoRows
      BY <3>1, RowsOf
    <3> QED BY <3>2 DEF TwoRows, Supervisor
  <2> QED BY <1>1, <1>3, <2>1 DEF Normalize, Executes
<1>4. CASE Supervise(w)
  <2>1. wk[w].pc = "begun" /\ CanBegin(w) /\ UNCHANGED <<probe, env>>
    BY <1>4 DEF Supervise, Executes
  <2>2. wk[w].run \in Runs /\ RowsOK(tasks[wk[w].run])
    BY <2>1, Held
  <2>3. PICK fresh \in BOOLEAN :
          Complete(w, {}, NextTasks(wk[w].run, Decide(wk[w].run, fresh)),
                   RunStatusAfter(Decide(wk[w].run, fresh)))
    BY <1>4 DEF Supervise
  <2>4. NextTasks(wk[w].run, Decide(wk[w].run, fresh)) \in TodoRows
    BY <2>2, DecisionsScheduleRows
  <2>5. RunStatusAfter(Decide(wk[w].run, fresh)) \in RunStatus \ {"absent", "waiting_human"}
    BY DEF RunStatusAfter, RunStatus, ActiveRun, Claimable
  <2> QED BY <1>1, <2>1, <2>3, <2>4, <2>5
<1>5. CASE AgentNode(w)
  <2>1. \E node, out : out \in SUBSET Flags /\ Agent(w, node, out)
    BY <1>5 DEF AgentNode, Triage, Historical, Diagnostic, Critic, PlanCandidate, SafetyReview,
                Outcomes, Flags
  <2>2. <<Supervisor>> \in TodoRows
    <3>1. "supervisor" \in Nodes
      BY DEF Nodes
    <3> QED BY <1>2, <3>1 DEF OneRow, Supervisor
  <2> QED BY <1>1, <2>1, <2>2 DEF Agent, Executes
<1> QED BY <1>3, <1>4, <1>5

-----------------------------------------------------------------------------
(* Tool calls: who may write their rows.                                   *)

(* A follow-up evidence task; only those have call rows. *)
IsRequest(row) == row.node = "evidence_collection" /\ row.round > 0

(* The call a worker is probing for, or whose result it has still to flush. *)
Results == {"completed", "failed", "rejected"}

Owns(w, j) ==
  \/ wk[w].pc = "looping" /\ wk[w].pend[j] # "none"
  \/ wk[w].pc = "probing" /\ wk[w].idx = j /\ IsFollowUp(w)

(* A call's row stays "running" until the one worker that owns it flushes its
   result; whoever retries or takes over the task finds the row and owns
   nothing of it. *)
RequestsOnly ==
  \A r \in Runs : \A t \in DOMAIN tasks[r] : ~IsRequest(tasks[r][t]) => tasks[r][t].calls = NoCalls

PendingEmpty ==
  \A w \in Workers : wk[w].pc \notin {"looping", "finish"} => wk[w].pend = NoCalls

OwnedRunning ==
  \A w \in Workers : \A j \in Calls : Owns(w, j) =>
    /\ IsFollowUp(w) /\ TaskOf(w).calls[j] = "running"
    /\ wk[w].pc = "looping" => wk[w].pend[j] \in Results

OneOwner ==
  \A w, v \in Workers : \A j \in Calls :
    Owns(w, j) /\ Owns(v, j) /\ wk[w].run = wk[v].run /\ wk[w].task = wk[v].task => w = v

CallsInv == RequestsOnly /\ PendingEmpty /\ OwnedRunning /\ OneOwner

(* A row's calls, and what makes it a follow-up, stay as they are. *)
SameCalls(before, after) ==
  after.calls = before.calls /\ after.node = before.node /\ after.round = before.round

(* Rows keep their calls, new rows have none. *)
CallsKept ==
  \A q \in Runs :
    /\ DOMAIN tasks[q] \subseteq DOMAIN tasks'[q]
    /\ \A t \in DOMAIN tasks[q] : SameCalls(tasks[q][t], tasks'[q][t])
    /\ \A t \in DOMAIN tasks'[q] : t \notin DOMAIN tasks[q] => tasks'[q][t].calls = NoCalls

(* What the steps may do to call rows. *)
CallsMove ==
  \A q \in Runs : \A t \in DOMAIN tasks[q] : \A i \in Calls :
    LET before == tasks[q][t].calls[i]   after == tasks'[q][t].calls[i] IN
    \/ after = before
    \/ before = "none"
    \/ before = "running" /\ after \in Results

(* A worker that owns nothing, whatever its task. *)
OwnsNothing(me) ==
  \/ me.pc \in {"idle", "claimed", "begun", "hung", "looping"} /\ me.pend = NoCalls
  \/ me.pc = "finish"

LEMMA KeptCalls ==
  ASSUME RowsInv, CallsInv, CallsKept,
         \A v \in Workers : wk'[v] = wk[v] \/ OwnsNothing(wk'[v])
  PROVE  CallsInv' /\ CallsMove
<1>1. CallsMove
  BY DEF CallsKept, CallsMove, SameCalls
<1>2. ASSUME NEW v \in Workers, NEW j \in Calls, Owns(v, j)'
      PROVE  /\ wk'[v] = wk[v] /\ Owns(v, j)
             /\ (IsFollowUp(v) = IsFollowUp(v)') /\ (TaskOf(v).calls = TaskOf(v).calls')
  <2>1. wk'[v].pc \in {"looping", "probing"} /\ (wk'[v].pc = "looping" => wk'[v].pend[j] # "none")
    BY <1>2 DEF Owns
  <2>2. wk'[v] = wk[v]
    BY <2>1 DEF OwnsNothing, NoCalls
  <2>3. wk[v].run \in Runs /\ wk[v].task \in DOMAIN tasks[wk[v].run]
    BY <2>1, <2>2, Held
  <2>4. SameCalls(TaskOf(v), TaskOf(v)')
    BY <2>2, <2>3 DEF CallsKept, TaskOf
  <2>5. (IsFollowUp(v) = IsFollowUp(v)') /\ (TaskOf(v).calls = TaskOf(v).calls')
    BY <2>4 DEF IsFollowUp, SameCalls
  <2> QED BY <1>2, <2>2, <2>5 DEF Owns
<1>3. RequestsOnly'
  <2> SUFFICES ASSUME NEW r \in Runs, NEW t \in DOMAIN tasks'[r], ~IsRequest(tasks'[r][t])
               PROVE  tasks'[r][t].calls = NoCalls
    BY DEF RequestsOnly
  <2>1. CASE t \in DOMAIN tasks[r]
    BY <2>1 DEF CallsKept, SameCalls, CallsInv, RequestsOnly, IsRequest
  <2>2. CASE t \notin DOMAIN tasks[r]
    BY <2>2 DEF CallsKept
  <2> QED BY <2>1, <2>2
<1>4. PendingEmpty'
  BY DEF CallsInv, PendingEmpty, OwnsNothing
<1>5. OwnedRunning'
  BY <1>2 DEF CallsInv, OwnedRunning
<1>6. OneOwner'
  BY <1>2 DEF CallsInv, OneOwner
<1> QED BY <1>1, <1>3, <1>4, <1>5, <1>6 DEF CallsInv

LEMMA TaskStepKeepsCalls ==
  ASSUME RowsInv, NEW w \in Workers, wk[w].pc # "idle",
         NEW row, SameTask(w, row), row.calls = TaskOf(w).calls,
         NEW todo \in TodoRows, TaskStep(w, row, todo)
  PROVE  CallsKept
<1> DEFINE r == wk[w].run
           n == Len(tasks[r])
<1>1. /\ r \in Runs /\ n \in Nat /\ Len(todo) \in Nat
      /\ DOMAIN tasks[r] = 1 .. n /\ wk[w].task \in 1 .. n
      /\ DOMAIN todo = 1 .. Len(todo)
      /\ \A q \in Runs : q # r => tasks'[q] = tasks[q]
      /\ DOMAIN tasks'[r] = 1 .. (n + Len(todo))
      /\ tasks'[r][wk[w].task] = row
      /\ \A t \in 1 .. n : t # wk[w].task => tasks'[r][t] = tasks[r][t]
      /\ \A i \in 1 .. Len(todo) : tasks'[r][n + i] = Fresh(todo[i], n)
  BY TaskStepRows, SMTT(30)
<1>2. ASSUME NEW q \in Runs, q # r
      PROVE  /\ DOMAIN tasks[q] \subseteq DOMAIN tasks'[q]
             /\ \A t \in DOMAIN tasks[q] : SameCalls(tasks[q][t], tasks'[q][t])
             /\ \A t \in DOMAIN tasks'[q] : t \notin DOMAIN tasks[q] => tasks'[q][t].calls = NoCalls
  BY <1>1, <1>2 DEF SameCalls
<1>3. DOMAIN tasks[r] \subseteq DOMAIN tasks'[r]
  BY <1>1
<1>4. \A t \in DOMAIN tasks[r] : SameCalls(tasks[r][t], tasks'[r][t])
  BY <1>1 DEF SameCalls, SameTask, TaskOf
<1>5. \A t \in DOMAIN tasks'[r] : t \notin DOMAIN tasks[r] => tasks'[r][t].calls = NoCalls
  <2> SUFFICES ASSUME NEW t \in 1 .. (n + Len(todo)), t \notin 1 .. n
               PROVE  tasks'[r][t].calls = NoCalls
    BY <1>1
  <2>1. t - n \in 1 .. Len(todo) /\ n + (t - n) = t
    BY <1>1
  <2>2. tasks'[r][t] = Fresh(todo[t - n], n)
    BY <1>1, <2>1
  <2> QED BY <2>2 DEF Fresh
<1> QED BY <1>2, <1>3, <1>4, <1>5 DEF CallsKept

LEMMA RestatusKeepsCalls ==
  ASSUME NEW r \in Runs, NEW us, DOMAIN us = DOMAIN tasks[r],
         \A t \in DOMAIN tasks[r] : Restatus(tasks[r][t], us[t]),
         tasks \in [Runs -> Seq(Task)], tasks' = [tasks EXCEPT ![r] = us]
  PROVE  CallsKept
<1>1. tasks'[r] = us /\ \A q \in Runs : q # r => tasks'[q] = tasks[q]
  OBVIOUS
<1> QED BY <1>1 DEF CallsKept, SameCalls, Restatus

LEMMA SameRowsKeepCalls ==
  ASSUME UNCHANGED tasks
  PROVE  CallsKept
  BY DEF CallsKept, SameCalls

(* Steps that never touch a call's row. *)
LEMMA ApiCalls ==
  ASSUME RowsInv, CallsInv, NEW r \in Runs, Enqueue(r) \/ ResumeHuman(r) \/ LeaseExpire(r) \/ Elapse(r)
  PROVE  CallsInv' /\ CallsMove
<1>1. UNCHANGED wk
  BY DEF Enqueue, ResumeHuman, LeaseExpire, Elapse
<1>2. CASE Enqueue(r)
  <2>1. /\ DOMAIN tasks[r] = {} /\ DOMAIN tasks'[r] = {1}
        /\ tasks'[r][1] = Fresh(Todo("normalize", 0, 100), 0)
        /\ \A q \in Runs : q # r =>
             /\ DOMAIN tasks'[q] = DOMAIN tasks[q]
             /\ \A t \in DOMAIN tasks[q] : Restatus(tasks[q][t], tasks'[q][t])
    BY <1>2, EnqueuedRows
  <2>2. CallsKept
    BY <2>1 DEF CallsKept, SameCalls, Restatus, Fresh
  <2> QED BY <1>1, <2>2, KeptCalls
<1>3. CASE ResumeHuman(r)
  <2>1. CallsKept
    BY <1>3, UnblockedRows, RestatusKeepsCalls DEF ResumeHuman, RowsInv, TypeOK
  <2> QED BY <1>1, <2>1, KeptCalls
<1>4. CASE LeaseExpire(r) \/ Elapse(r)
  <2>1. CallsKept
    BY <1>4, SameRowsKeepCalls DEF LeaseExpire, Elapse
  <2> QED BY <1>1, <2>1, KeptCalls
<1> QED BY <1>2, <1>3, <1>4

LEMMA ClaimCalls ==
  ASSUME RowsInv, CallsInv, NEW w \in Workers, Claim(w) \/ Reread(w)
  PROVE  CallsInv' /\ CallsMove
<1>0. wk \in [Workers -> Worker] /\ tasks \in [Runs -> Seq(Task)]
  BY DEF RowsInv, TypeOK
<1>1. CASE Claim(w)
  <2>1. PICK r \in Runs :
          /\ tasks' = [tasks EXCEPT ![r] = Recovered(r)]
          /\ \/ \E t : wk' = [wk EXCEPT ![w].pc = "claimed", ![w].run = r, ![w].task = t]
             \/ UNCHANGED wk
          /\ wk[w].pc = "idle"
    BY <1>1 DEF Claim
  <2>2. CallsKept
    BY <1>0, <2>1, RecoveredRows, RestatusKeepsCalls
  <2>3. wk[w].pend = NoCalls
    BY <2>1 DEF CallsInv, PendingEmpty
  <2>4. \A v \in Workers : wk'[v] = wk[v] \/ OwnsNothing(wk'[v])
    BY <1>0, <2>1, <2>3 DEF OwnsNothing, Worker
  <2> QED BY <2>2, <2>4, KeptCalls
<1>2. CASE Reread(w)
  <2>1. CallsKept
    BY <1>2, SameRowsKeepCalls DEF Reread
  <2>2. wk[w].pend = NoCalls
    BY <1>2 DEF Reread, CallsInv, PendingEmpty
  <2>3. PICK seen : wk' = [wk EXCEPT ![w].pc = "begun", ![w].seen = seen]
    BY <1>2 DEF Reread
  <2>4. \A v \in Workers : wk'[v] = wk[v] \/ OwnsNothing(wk'[v])
    BY <1>0, <2>2, <2>3 DEF OwnsNothing, Worker
  <2> QED BY <2>1, <2>4, KeptCalls
<1> QED BY <1>1, <1>2

LEMMA SetDownCalls ==
  ASSUME RowsInv, CallsInv, NEW w \in Workers,
         BeginRefused(w) \/ Release(w) \/ ExhaustEscapes(w) \/ Crash(w) \/ RenewalBlocks(w)
  PROVE  CallsInv' /\ CallsMove
<1>0. wk \in [Workers -> Worker]
  BY DEF RowsInv, TypeOK
<1>1. CallsKept
  BY SameRowsKeepCalls DEF BeginRefused, Release, ExhaustEscapes, Crash, RenewalBlocks
<1>2. CASE RenewalBlocks(w)
  <2>1. wk' = [wk EXCEPT ![w].pc = "hung"] /\ wk[w].pc = "begun"
    BY <1>2 DEF RenewalBlocks, Executes
  <2>2. wk[w].pend = NoCalls
    BY <2>1 DEF CallsInv, PendingEmpty
  <2>3. \A v \in Workers : wk'[v] = wk[v] \/ OwnsNothing(wk'[v])
    BY <1>0, <2>1, <2>2 DEF OwnsNothing, Worker
  <2> QED BY <1>1, <2>3, KeptCalls
<1>3. CASE BeginRefused(w) \/ Release(w) \/ ExhaustEscapes(w) \/ Crash(w)
  <2>1. wk' = [wk EXCEPT ![w] = IdleWorker]
    BY <1>3 DEF BeginRefused, Release, ExhaustEscapes, Crash
  <2>2. OwnsNothing(IdleWorker)
    BY DEF OwnsNothing, IdleWorker
  <2>3. \A v \in Workers : wk'[v] = wk[v] \/ OwnsNothing(wk'[v])
    BY <1>0, <2>1, <2>2
  <2> QED BY <1>1, <2>3, KeptCalls
<1> QED BY <1>2, <1>3

(* A step that ends the task's work keeps its calls. *)
LEMMA FinishCalls ==
  ASSUME RowsInv, CallsInv, NEW w \in Workers, wk[w].pc # "idle",
         NEW row, SameTask(w, row), row.calls = TaskOf(w).calls,
         NEW todo \in TodoRows, TaskStep(w, row, todo), wk' = [wk EXCEPT ![w].pc = "finish"]
  PROVE  CallsInv' /\ CallsMove
<1>0. wk \in [Workers -> Worker]
  BY DEF RowsInv, TypeOK
<1>1. CallsKept
  BY TaskStepKeepsCalls
<1>2. \A v \in Workers : wk'[v] = wk[v] \/ OwnsNothing(wk'[v])
  BY <1>0 DEF OwnsNothing, Worker
<1> QED BY <1>1, <1>2, KeptCalls

(* The row the exception handlers leave. *)
LEMMA HandlerTask ==
  ASSUME RowsInv, NEW w \in Workers, Exhaust(w) \/ FailTask(w)
  PROVE  /\ wk[w].pc \in {"begun", "looping"} /\ wk' = [wk EXCEPT ![w].pc = "finish"]
         /\ \E row : /\ SameTask(w, row) /\ row.calls = TaskOf(w).calls /\ row.out = TaskOf(w).out
                     /\ TaskStep(w, row, <<>>) /\ <<>> \in TodoRows
                     /\ \/ row.status = "failed" /\ run'[wk[w].run].status \in {"failed", "budget_exhausted"}
                        \/ row.status = "ready" /\ run' = run
<1> DEFINE r == wk[w].run
<1>1. /\ wk[w].pc \in {"begun", "looping"}
      /\ wk' = [wk EXCEPT ![w].pc = "finish"]
  BY DEF Exhaust, FailTask, OverBudget, AtNewCall, AtRequests, Executes
<1>2. /\ r \in Runs /\ run[r] \in RunRecord /\ wk[w].task \in DOMAIN tasks[r]
      /\ TaskOf(w) \in Task /\ SameTask(w, TaskOf(w))
      /\ run \in [Runs -> RunRecord] /\ tasks \in [Runs -> Seq(Task)]
  BY <1>1, Held, StartedTask DEF RowsInv, TypeOK
<1> DEFINE old == TaskOf(w)
<1>3. CASE Exhaust(w)
  <2> DEFINE row == [old EXCEPT !.status = "failed"]
  <2>1. tasks' = [tasks EXCEPT ![r][wk[w].task] = row]
    BY <1>2, <1>3 DEF Exhaust, TaskOf
  <2>2. SameTask(w, row) /\ row.calls = old.calls /\ row.out = old.out /\ row.status = "failed"
    <3>1. "failed" \in TaskStatus
      BY DEF TaskStatus
    <3> HIDE DEF old
    <3> QED BY <1>2, <3>1, FieldUpdate DEF old
  <2>3. run'[r].status = "budget_exhausted"
    BY <1>2, <1>3 DEF Exhaust
  <2> HIDE DEF row
  <2>4. TaskStep(w, row, <<>>) /\ <<>> \in TodoRows
    BY <1>1, <2>1, <2>2, NoNewRows
  <2> QED BY <1>1, <2>2, <2>3, <2>4
<1>4. CASE FailTask(w)
  <2> DEFINE n == old.attempts + 1
             s == IF n >= MaxAttempts THEN "failed" ELSE "ready"
             counted == [old EXCEPT !.attempts = n]
             row == [counted EXCEPT !.status = s]
  <2>1. n \in Nat /\ s \in TaskStatus
    BY <1>2 DEF Task, TaskStatus
  <2>2. tasks' = [tasks EXCEPT ![r][wk[w].task] = row]
    <3>1. tasks' = [tasks EXCEPT ![r][wk[w].task] = [old EXCEPT !.attempts = n, !.status = s]]
      BY <1>2, <1>4 DEF FailTask, TaskOf
    <3> QED BY <3>1
  <2>3. run' = [run EXCEPT ![r].status = IF s = "failed" THEN "failed" ELSE @]
    BY <1>4 DEF FailTask
  <2>4. \/ s = "failed" /\ run'[r].status = "failed"
        \/ s = "ready" /\ run' = run
    <3>1. CASE s = "failed"
      <4> HIDE DEF s
      <4> QED BY <1>2, <2>3, <3>1
    <3>2. CASE s = "ready"
      <4>1. run' = [run EXCEPT ![r].status = run[r].status]
        <5> HIDE DEF s
        <5> QED BY <2>3, <3>2
      <4>2. run' = run
        BY <1>2, <4>1 DEF RunRecord
      <4> HIDE DEF s
      <4> QED BY <3>2, <4>2
    <3> QED BY <3>1, <3>2
  <2>5. SameTask(w, counted) /\ counted.calls = old.calls /\ counted.out = old.out
    <3> HIDE DEF n, old
    <3> QED BY <1>2, <2>1, FieldUpdate DEF old
  <2>6. SameTask(w, row) /\ row.calls = old.calls /\ row.out = old.out /\ row.status = s
    <3> HIDE DEF counted, s
    <3> QED BY <2>1, <2>5, FieldUpdate
  <2> HIDE DEF row, s
  <2>7. TaskStep(w, row, <<>>) /\ <<>> \in TodoRows
    BY <1>1, <2>2, <2>6, NoNewRows
  <2> QED BY <1>1, <2>4, <2>6, <2>7
<1> QED BY <1>3, <1>4

LEMMA WaitHumanTask ==
  ASSUME RowsInv, NEW w \in Workers, WaitHuman(w)
  PROVE  /\ wk[w].pc = "begun" /\ wk' = [wk EXCEPT ![w].pc = "finish"]
         /\ \E row : /\ SameTask(w, row) /\ row.calls = TaskOf(w).calls /\ row.out = TaskOf(w).out
                     /\ TaskStep(w, row, <<>>) /\ <<>> \in TodoRows /\ row.status = "waiting_human"
<1>1. wk[w].pc = "begun" /\ wk' = [wk EXCEPT ![w].pc = "finish"]
  BY DEF WaitHuman, Executes
<1> DEFINE begun == Started(w)
           row == [begun EXCEPT !.status = "waiting_human"]
<1>2. SameTask(w, begun) /\ begun.calls = TaskOf(w).calls /\ begun.out = TaskOf(w).out
  BY <1>1, StartedTask
<1>3. tasks' = [tasks EXCEPT ![wk[w].run][wk[w].task] = row]
  BY DEF WaitHuman
<1>4. SameTask(w, row) /\ row.calls = begun.calls /\ row.out = begun.out /\ row.status = "waiting_human"
  <2>1. "waiting_human" \in TaskStatus
    BY DEF TaskStatus
  <2> HIDE DEF begun
  <2> QED BY <1>2, <2>1, FieldUpdate
<1> HIDE DEF row, begun
<1>5. TaskStep(w, row, <<>>) /\ <<>> \in TodoRows
  BY <1>1, <1>3, <1>4, NoNewRows
<1> QED BY <1>1, <1>2, <1>4, <1>5

(* The row a gateway commit leaves: begun, if this transaction began it, and
   with these calls. *)
LEMMA CommitTask ==
  ASSUME RowsInv, NEW w \in Workers, wk[w].pc # "idle",
         NEW calls \in [Calls -> CallStatus], CommitBegin(w, calls)
  PROVE  \E row : /\ SameTask(w, row) /\ row.calls = calls /\ row.out = TaskOf(w).out
                  /\ TaskStep(w, row, <<>>) /\ <<>> \in TodoRows
                  /\ row.status = IF wk[w].pc = "begun" THEN "running" ELSE TaskOf(w).status
<1> DEFINE begun == IF wk[w].pc = "begun" THEN Started(w) ELSE TaskOf(w)
           row == [begun EXCEPT !.calls = calls]
<1>1. /\ SameTask(w, begun) /\ begun.out = TaskOf(w).out
      /\ begun.status = IF wk[w].pc = "begun" THEN "running" ELSE TaskOf(w).status
  BY StartedTask
<1>2. tasks' = [tasks EXCEPT ![wk[w].run][wk[w].task] = row]
  BY DEF CommitBegin
<1>3. SameTask(w, row) /\ row.calls = calls /\ row.out = begun.out /\ row.status = begun.status
  <2> HIDE DEF begun
  <2> QED BY <1>1, FieldUpdate
<1> HIDE DEF row, begun
<1>4. TaskStep(w, row, <<>>) /\ <<>> \in TodoRows
  BY <1>2, <1>3, NoNewRows
<1> QED BY <1>1, <1>3, <1>4

(* The row and the appended rows of a collection that ends. *)
LEMMA CollectTask ==
  ASSUME RowsInv, NEW w \in Workers, CollectDone(w)
  PROVE  LET last   == IF IsFollowUp(w) THEN ProbesPerRequest + 1 ELSE wk[w].idx
             before == IF wk[w].pc = "begun" THEN "running" ELSE TaskOf(w).status
             live   == wk[w].pc = "begun" \/ run[wk[w].run].status \in Claimable
             todo   == IF before \in {"running", "completed"} /\ live THEN <<Supervisor>> ELSE <<>> IN
         /\ wk[w].pc \in {"begun", "looping"} /\ wk' = [wk EXCEPT ![w].pc = "finish"]
         /\ todo \in TodoRows
         /\ \E row : /\ SameTask(w, row) /\ row.calls = Flushed(w, last) /\ row.out = TaskOf(w).out
                     /\ TaskStep(w, row, todo)
                     /\ row.status = IF before = "running" THEN "completed" ELSE before
<1> DEFINE last   == IF IsFollowUp(w) THEN ProbesPerRequest + 1 ELSE wk[w].idx
           before == IF wk[w].pc = "begun" THEN "running" ELSE TaskOf(w).status
           live   == wk[w].pc = "begun" \/ run[wk[w].run].status \in Claimable
           begun  == IF wk[w].pc = "begun" THEN Started(w) ELSE TaskOf(w)
           calls  == Flushed(w, last)
           called == [begun EXCEPT !.calls = calls]
           s      == IF before = "running" THEN "completed" ELSE before
           row    == [called EXCEPT !.status = s]
           todo   == IF before \in {"running", "completed"} /\ live THEN <<Supervisor>> ELSE <<>>
<1>1. /\ wk[w].pc \in {"begun", "looping"} /\ wk' = [wk EXCEPT ![w].pc = "finish"]
  BY DEF CollectDone, Executes
<1>2. /\ SameTask(w, begun) /\ begun.out = TaskOf(w).out /\ begun.status = before
  BY <1>1, StartedTask
<1>3. calls \in [Calls -> CallStatus]
  BY <1>1, FlushedCalls
<1>4. /\ SameTask(w, called) /\ called.calls = calls /\ called.out = begun.out
      /\ called.status = begun.status
  <2> HIDE DEF begun, calls
  <2> QED BY <1>2, <1>3, FieldUpdate
<1>5. s \in TaskStatus
  <2>1. TaskOf(w) \in Task
    BY <1>1, Held
  <2> QED BY <2>1 DEF Task, TaskStatus
<1>6. SameTask(w, row) /\ row.calls = called.calls /\ row.out = called.out /\ row.status = s
  <2> HIDE DEF called, s
  <2> QED BY <1>4, <1>5, FieldUpdate
<1>7. todo \in TodoRows
  <2>1. <<Supervisor>> \in TodoRows
    <3>1. "supervisor" \in Nodes /\ 0 \in Nat /\ 100 \in {80, 90, 100}
      BY DEF Nodes
    <3> QED BY <3>1, RowOf DEF OneRow, Supervisor
  <2>2. <<>> \in TodoRows
    BY EmptySeq DEF TodoRows
  <2> QED BY <2>1, <2>2
<1>8. TaskStep(w, row, todo)
  <2>1. tasks' = [tasks EXCEPT ![wk[w].run] =
           Create([@ EXCEPT ![wk[w].task] =
                     [begun EXCEPT !.calls = Flushed(w, last),
                                   !.status = IF @ = "running" THEN "completed" ELSE @]],
                  IF begun.status \in {"running", "completed"} /\ live THEN <<Supervisor>> ELSE <<>>)]
    BY DEF CollectDone
  <2>2. [begun EXCEPT !.calls = Flushed(w, last),
                      !.status = IF @ = "running" THEN "completed" ELSE @] = row
    <3>1. [begun EXCEPT !.calls = Flushed(w, last),
                        !.status = IF @ = "running" THEN "completed" ELSE @]
            = [called EXCEPT !.status = IF called.status = "running" THEN "completed" ELSE called.status]
      OBVIOUS
    <3> HIDE DEF called, begun, before
    <3> QED BY <1>2, <1>4, <3>1
  <2> HIDE DEF begun, row, live, before
  <2> QED BY <1>2, <2>1, <2>2 DEF TaskStep
<1> HIDE DEF row, called, begun, s, calls
<1>9. row.calls = Flushed(w, last) /\ row.out = TaskOf(w).out
  BY <1>2, <1>4, <1>6 DEF calls
<1> QED BY <1>1, <1>6, <1>7, <1>8, <1>9 DEF s

(* What a flush does to one call's row. *)
LEMMA FlushedCall ==
  ASSUME RowsInv, CallsInv, NEW w \in Workers, wk[w].pc \in {"begun", "looping"}, NEW i, NEW j \in Calls
  PROVE  LET before == TaskOf(w).calls[j]   after == Flushed(w, i)[j] IN
         \/ after = before /\ ~Owns(w, j)
         \/ before = "none" /\ after = "rejected" /\ j \in Passed(w, i)
         \/ before = "running" /\ after \in Results /\ Owns(w, j)
<1>1. Flushed(w, i)[j] = IF j \in Passed(w, i) THEN "rejected"
                         ELSE IF wk[w].pend[j] # "none" THEN wk[w].pend[j] ELSE TaskOf(w).calls[j]
  BY DEF Flushed
<1>2. CASE j \in Passed(w, i)
  BY <1>1, <1>2 DEF Passed
<1>3. CASE j \notin Passed(w, i) /\ wk[w].pend[j] # "none"
  <2>1. wk[w].pc = "looping"
    BY <1>3 DEF CallsInv, PendingEmpty, NoCalls
  <2>2. Owns(w, j)
    BY <1>3, <2>1 DEF Owns
  <2> QED BY <1>1, <1>3, <2>1, <2>2 DEF CallsInv, OwnedRunning
<1>4. CASE j \notin Passed(w, i) /\ wk[w].pend[j] = "none"
  BY <1>1, <1>4 DEF Owns
<1> QED BY <1>2, <1>3, <1>4

(* The worker has committed a call as running that the gateway turned down. *)
TurnedDown(w, row) ==
  /\ wk'[w].pc = "looping" /\ IsRequest(row)
  /\ \E i \in Calls : /\ wk'[w].pend = [NoCalls EXCEPT ![i] = "rejected"]
                    /\ TaskOf(w).calls[i] = "none" /\ row.calls[i] = "running"

(* A worker writes call rows of the task in hand: it keeps a row, takes a free
   one, or flushes one it owns, and goes on owning at most one it took. *)
LEMMA WrittenCalls ==
  ASSUME RowsInv, CallsInv, NEW w \in Workers, wk[w].pc # "idle",
         NEW row, SameTask(w, row), NEW todo \in TodoRows, TaskStep(w, row, todo),
         IsRequest(row) \/ row.calls = NoCalls,
         \A j \in Calls : \/ row.calls[j] = TaskOf(w).calls[j]
                          \/ TaskOf(w).calls[j] = "none"
                          \/ /\ Owns(w, j) /\ TaskOf(w).calls[j] = "running"
                             /\ row.calls[j] \in Results,
         \A v \in Workers : v # w => wk'[v] = wk[v],
         wk'[w].run = wk[w].run, wk'[w].task = wk[w].task,
         \/ OwnsNothing(wk'[w])
         \/ /\ wk'[w].pc = "probing" /\ wk'[w].pend = NoCalls
            /\ IsRequest(row) =>
                 TaskOf(w).calls[wk'[w].idx] = "none" /\ row.calls[wk'[w].idx] = "running"
         \/ TurnedDown(w, row)
  PROVE  CallsInv' /\ CallsMove
<1> DEFINE r == wk[w].run
           n == Len(tasks[r])
<1>1. /\ r \in Runs /\ n \in Nat /\ Len(todo) \in Nat
      /\ DOMAIN tasks[r] = 1 .. n /\ wk[w].task \in 1 .. n
      /\ \A q \in Runs : q # r => tasks'[q] = tasks[q]
      /\ DOMAIN tasks'[r] = 1 .. (n + Len(todo))
      /\ tasks'[r][wk[w].task] = row
      /\ \A t \in 1 .. n : t # wk[w].task => tasks'[r][t] = tasks[r][t]
      /\ \A i \in 1 .. Len(todo) : tasks'[r][n + i] = Fresh(todo[i], n)
  BY TaskStepRows, ZenonT(30)
<1> DEFINE Mine(q, t) == q = r /\ t = wk[w].task
<1>2. /\ tasks[r][wk[w].task] = TaskOf(w) /\ tasks'[r][wk[w].task] = row
      /\ \A q \in Runs : \A t \in DOMAIN tasks[q] : ~Mine(q, t) => tasks'[q][t] = tasks[q][t]
  <2>1. tasks[r][wk[w].task] = TaskOf(w)
    BY DEF TaskOf
  <2>2. ASSUME NEW q \in Runs, NEW t \in DOMAIN tasks[q], ~Mine(q, t)
        PROVE  tasks'[q][t] = tasks[q][t]
    <3>1. CASE q = r
      BY <1>1, <2>2, <3>1
    <3>2. CASE q # r
      BY <1>1, <3>2
    <3> QED BY <3>1, <3>2
  <2> QED BY <1>1, <2>1, <2>2
<1>0. ASSUME NEW t, t \in 1 .. (n + Len(todo)), t \notin 1 .. n
      PROVE  t - n \in 1 .. Len(todo) /\ n + (t - n) = t
  BY <1>0, <1>1
<1>3. CallsMove
  <2> SUFFICES ASSUME NEW q \in Runs, NEW t \in DOMAIN tasks[q], NEW i \in Calls
               PROVE  \/ tasks'[q][t].calls[i] = tasks[q][t].calls[i]
                      \/ tasks[q][t].calls[i] = "none"
                      \/ tasks[q][t].calls[i] = "running" /\ tasks'[q][t].calls[i] \in Results
    BY DEF CallsMove
  <2>1. CASE Mine(q, t)
    BY <1>2, <2>1
  <2>2. CASE ~Mine(q, t)
    BY <1>2, <2>2
  <2> QED BY <2>1, <2>2
<1>4. RequestsOnly'
  <2> SUFFICES ASSUME NEW q \in Runs, NEW t \in DOMAIN tasks'[q], ~IsRequest(tasks'[q][t])
               PROVE  tasks'[q][t].calls = NoCalls
    BY DEF RequestsOnly
  <2>1. CASE Mine(q, t)
    BY <1>2, <2>1
  <2>2. CASE ~Mine(q, t) /\ t \in DOMAIN tasks[q]
    BY <1>2, <2>2 DEF CallsInv, RequestsOnly
  <2>3. CASE t \notin DOMAIN tasks[q]
    <3>1. q = r /\ t \in 1 .. (n + Len(todo)) /\ t \notin 1 .. n
      BY <1>1, <2>3
    <3>2. t - n \in 1 .. Len(todo) /\ n + (t - n) = t
      BY <1>0, <3>1
    <3>3. tasks'[r][t] = Fresh(todo[t - n], n)
      BY <1>1, <3>2
    <3> QED BY <3>1, <3>3 DEF Fresh
  <2> QED BY <2>1, <2>2, <2>3
<1>5. PendingEmpty'
  BY DEF CallsInv, PendingEmpty, OwnsNothing, TurnedDown
(* Whoever else owns a call owned it before, and its row is as it was. *)
<1>6. ASSUME NEW v \in Workers, v # w, NEW j \in Calls, Owns(v, j)'
      PROVE  /\ Owns(v, j) /\ wk'[v] = wk[v] /\ wk[v].pc # "idle"
             /\ IsFollowUp(v)' /\ TaskOf(v)'.calls[j] = "running"
  <2>1. wk'[v] = wk[v] /\ wk[v].pc # "idle"
    BY <1>6 DEF Owns
  <2>2. wk[v].run \in Runs /\ wk[v].task \in DOMAIN tasks[wk[v].run]
    BY <2>1, Held
  <2>3. /\ TaskOf(v)'.node = TaskOf(v).node /\ TaskOf(v)'.round = TaskOf(v).round
    <3>1. TaskOf(v) = tasks[wk[v].run][wk[v].task] /\ TaskOf(v)' = tasks'[wk[v].run][wk[v].task]
      BY <2>1 DEF TaskOf
    <3>2. CASE Mine(wk[v].run, wk[v].task)
      BY <1>2, <3>1, <3>2 DEF SameTask
    <3>3. CASE ~Mine(wk[v].run, wk[v].task)
      BY <1>2, <2>2, <3>1, <3>3
    <3> QED BY <3>2, <3>3
  <2>4. Owns(v, j)
    BY <1>6, <2>1, <2>3 DEF Owns, IsFollowUp
  <2>5. IsFollowUp(v) /\ TaskOf(v).calls[j] = "running"
    BY <2>4 DEF CallsInv, OwnedRunning
  <2>6. CASE wk[v].run = r /\ wk[v].task = wk[w].task
    <3>1. ~Owns(w, j)
      BY <1>6, <2>4, <2>6 DEF CallsInv, OneOwner
    <3>2. TaskOf(v) = TaskOf(w) /\ TaskOf(v)' = row
      BY <1>1, <2>1, <2>6, ZenonT(30) DEF TaskOf
    <3> QED BY <2>1, <2>3, <2>4, <2>5, <3>1, <3>2 DEF IsFollowUp
  <2>7. CASE ~(wk[v].run = r /\ wk[v].task = wk[w].task)
    <3>1. TaskOf(v) = tasks[wk[v].run][wk[v].task] /\ TaskOf(v)' = tasks'[wk[v].run][wk[v].task]
      BY <2>1 DEF TaskOf
    <3>2. TaskOf(v)' = TaskOf(v)
      BY <1>2, <2>2, <2>7, <3>1
    <3> QED BY <2>1, <2>3, <2>4, <2>5, <3>2 DEF IsFollowUp
  <2> QED BY <2>6, <2>7
(* The worker itself owns at most the call it has just taken. *)
<1>7. ASSUME NEW j \in Calls, Owns(w, j)'
      PROVE  /\ IsFollowUp(w)' /\ (wk'[w].pc = "looping" => wk'[w].pend[j] \in Results)
             /\ TaskOf(w).calls[j] = "none" /\ TaskOf(w)'.calls[j] = "running"
  <2>0. TaskOf(w)' = row
    BY <1>1 DEF TaskOf
  <2>1. CASE wk'[w].pc = "probing"
    <3>1. wk'[w].idx = j /\ IsFollowUp(w)'
      BY <1>7, <2>1 DEF Owns
    <3>2. IsRequest(row)
      BY <2>0, <3>1 DEF IsFollowUp, IsRequest
    <3> QED BY <2>0, <2>1, <3>1, <3>2 DEF OwnsNothing, TurnedDown
  <2>2. CASE wk'[w].pc # "probing"
    <3>1. wk'[w].pc = "looping" /\ wk'[w].pend[j] # "none"
      BY <1>7, <2>2 DEF Owns
    <3>2. ~OwnsNothing(wk'[w])
      BY <3>1 DEF OwnsNothing, NoCalls
    <3>3. PICK i \in Calls : /\ wk'[w].pend = [NoCalls EXCEPT ![i] = "rejected"]
                            /\ TaskOf(w).calls[i] = "none" /\ row.calls[i] = "running"
      BY <2>2, <3>2 DEF TurnedDown
    <3>4. i = j /\ wk'[w].pend[j] = "rejected"
      BY <3>1, <3>3 DEF NoCalls
    <3>5. IsRequest(row)
      BY <2>2, <3>2 DEF TurnedDown
    <3> QED BY <2>0, <3>3, <3>4, <3>5 DEF IsFollowUp, IsRequest, Results
  <2> QED BY <2>1, <2>2
<1>8. OwnedRunning'
  <2> SUFFICES ASSUME NEW v \in Workers, NEW j \in Calls, Owns(v, j)'
               PROVE  /\ IsFollowUp(v)' /\ TaskOf(v)'.calls[j] = "running"
                      /\ wk'[v].pc = "looping" => wk'[v].pend[j] \in Results
    BY DEF OwnedRunning
  <2>1. CASE v = w
    BY <1>7, <2>1
  <2>2. CASE v # w
    BY <1>6, <2>2 DEF CallsInv, OwnedRunning
  <2> QED BY <2>1, <2>2
<1>9. OneOwner'
  <2> SUFFICES ASSUME NEW u \in Workers, NEW v \in Workers, NEW j \in Calls, Owns(u, j)', Owns(v, j)',
                      wk'[u].run = wk'[v].run, wk'[u].task = wk'[v].task
               PROVE  u = v
    BY DEF OneOwner
  <2>1. CASE u # w /\ v # w
    BY <1>6, <2>1 DEF CallsInv, OneOwner
  <2>2. ASSUME NEW x \in Workers, x # w, Owns(x, j)', Owns(w, j)',
               wk'[x].run = wk'[w].run, wk'[x].task = wk'[w].task
        PROVE  FALSE
    <3>1. Owns(x, j) /\ wk'[x] = wk[x]
      BY <1>6, <2>2
    <3>2. TaskOf(x).calls[j] = "running"
      BY <3>1 DEF CallsInv, OwnedRunning
    <3>3. TaskOf(x) = TaskOf(w)
      BY <2>2, <3>1 DEF TaskOf
    <3>4. TaskOf(w).calls[j] = "none"
      BY <1>7, <2>2
    <3> QED BY <3>2, <3>3, <3>4
  <2> QED BY <2>1, <2>2
<1> QED BY <1>3, <1>4, <1>5, <1>8, <1>9 DEF CallsInv

LEMMA FinishProbeCalls ==
  ASSUME RowsInv, CallsInv, NEW w \in Workers, FinishProbe(w)
  PROVE  CallsInv' /\ CallsMove
<1>1. /\ wk[w].pc = "probing" /\ UNCHANGED tasks /\ wk[w] \in Worker
      /\ wk \in [Workers -> Worker] /\ wk[w].pend = NoCalls
  BY Held DEF FinishProbe, RowsInv, TypeOK, CallsInv, PendingEmpty
<1>2. PICK result \in {"completed", "failed"} :
        wk' = [wk EXCEPT ![w].pc = "looping", ![w].idx = @ + 1,
                         ![w].pend[wk[w].idx] = IF IsFollowUp(w) THEN result ELSE @]
  BY DEF FinishProbe
<1>3. /\ wk'[w].pc = "looping" /\ wk'[w].run = wk[w].run /\ wk'[w].task = wk[w].task
      /\ \A j \in Calls : wk'[w].pend[j] = IF IsFollowUp(w) /\ j = wk[w].idx THEN result ELSE "none"
      /\ \A v \in Workers : v # w => wk'[v] = wk[v]
  <2>1. \A j \in Calls : wk[w].pend[j] = "none" /\ wk[w].pend \in [Calls -> CallStatus]
    BY <1>1 DEF NoCalls, CallStatus, Worker
  <2> QED BY <1>1, <1>2, <2>1 DEF Worker
<1>4. \A v \in Workers : TaskOf(v)' = TaskOf(v) /\ (IsFollowUp(v)' = IsFollowUp(v))
  <2> SUFFICES ASSUME NEW v \in Workers PROVE TaskOf(v)' = TaskOf(v) /\ (IsFollowUp(v)' = IsFollowUp(v))
    OBVIOUS
  <2>1. wk'[v].run = wk[v].run /\ wk'[v].task = wk[v].task
    BY <1>3
  <2> QED BY <1>1, <2>1 DEF TaskOf, IsFollowUp
<1>5. \A v \in Workers, j \in Calls : Owns(v, j)' => Owns(v, j)
  <2> SUFFICES ASSUME NEW v \in Workers, NEW j \in Calls, Owns(v, j)' PROVE Owns(v, j)
    OBVIOUS
  <2>1. CASE v = w
    BY <1>1, <1>3, <2>1 DEF Owns
  <2>2. CASE v # w
    BY <1>3, <1>4, <2>2 DEF Owns
  <2> QED BY <2>1, <2>2
<1>6. OwnedRunning'
  <2> SUFFICES ASSUME NEW v \in Workers, NEW j \in Calls, Owns(v, j)'
               PROVE  /\ IsFollowUp(v)' /\ TaskOf(v)'.calls[j] = "running"
                      /\ wk'[v].pc = "looping" => wk'[v].pend[j] \in Results
    BY DEF OwnedRunning
  <2>1. IsFollowUp(v)' /\ TaskOf(v)'.calls[j] = "running"
    BY <1>4, <1>5 DEF CallsInv, OwnedRunning
  <2>2. wk'[v].pc = "looping" => wk'[v].pend[j] \in Results
    <3>1. CASE v = w
      BY <1>3, <3>1 DEF Owns, Results
    <3>2. CASE v # w
      BY <1>3, <1>5, <3>2 DEF CallsInv, OwnedRunning
    <3> QED BY <3>1, <3>2
  <2> QED BY <2>1, <2>2
<1>7. OneOwner'
  BY <1>3, <1>5 DEF CallsInv, OneOwner
<1>8. PendingEmpty'
  BY <1>3 DEF CallsInv, PendingEmpty
<1>9. RequestsOnly' /\ CallsMove
  BY <1>1 DEF CallsInv, RequestsOnly, CallsMove
<1> QED BY <1>6, <1>7, <1>8, <1>9 DEF CallsInv

LEMMA ProbeStartCalls ==
  ASSUME RowsInv, CallsInv, NEW w \in Workers, CommitsCall(w)
  PROVE  CallsInv' /\ CallsMove
<1>0. PICK i \in Calls, pc \in {"probing", "looping"}, k \in {0, 1}, pend \in [Calls -> CallStatus] :
        CommitsAt(w, i, pc, k, pend)
  BY CallCommit
<1>1. /\ AtNewCall(w, i) /\ CommitBegin(w, [Flushed(w, i) EXCEPT ![i] = "running"])
      /\ GoesTo(w, pc, i + k, pend)
      /\ \/ pc = "probing" /\ k = 0 /\ pend = NoCalls
         \/ pc = "looping" /\ pend = [NoCalls EXCEPT ![i] = "rejected"]
  BY <1>0 DEF CommitsAt
<1> DEFINE calls == [Flushed(w, i) EXCEPT ![i] = "running"]
<1>2. /\ wk[w].pc \in {"begun", "looping"} /\ IsFollowUp(w) /\ TaskOf(w).calls[i] = "none"
      /\ wk \in [Workers -> Worker]
  BY <1>1 DEF AtNewCall, AtRequests, Executes, RowsInv, TypeOK
<1>3. Flushed(w, i) \in [Calls -> CallStatus]
  BY <1>2, FlushedCalls
<1>4. calls \in [Calls -> CallStatus] /\ calls[i] = "running"
      /\ \A j \in Calls : j # i => calls[j] = Flushed(w, i)[j]
  BY <1>3 DEF CallStatus
<1> HIDE DEF calls
<1>5. PICK row : /\ SameTask(w, row) /\ row.calls = calls
                 /\ TaskStep(w, row, <<>>) /\ <<>> \in TodoRows
  BY <1>1, <1>2, <1>4, CommitTask DEF calls
<1>6. IsRequest(row)
  BY <1>2, <1>5 DEF IsRequest, IsFollowUp, SameTask
<1>7. ASSUME NEW j \in Calls
      PROVE  \/ row.calls[j] = TaskOf(w).calls[j]
             \/ TaskOf(w).calls[j] = "none"
             \/ /\ Owns(w, j) /\ TaskOf(w).calls[j] = "running"
                /\ row.calls[j] \in Results
  <2>1. CASE j = i
    BY <1>2, <2>1
  <2>2. CASE j # i
    <3>1. row.calls[j] = Flushed(w, i)[j]
      BY <1>4, <1>5, <2>2
    <3> QED BY <1>2, <3>1, FlushedCall
  <2> QED BY <2>1, <2>2
<1>8. /\ wk'[w].pc = pc /\ wk'[w].pend = pend /\ wk'[w].idx = i + k
      /\ wk'[w].run = wk[w].run /\ wk'[w].task = wk[w].task
      /\ \A v \in Workers : v # w => wk'[v] = wk[v]
  BY <1>1, <1>2 DEF GoesTo, Worker
<1>9. TaskOf(w).calls[i] = "none" /\ row.calls[i] = "running" /\ i + 0 = i
  BY <1>2, <1>4, <1>5 DEF Calls
<1>10. CASE pc = "probing"
  BY <1>1, <1>2, <1>5, <1>6, <1>7, <1>8, <1>9, <1>10, WrittenCalls
<1>11. CASE pc = "looping"
  <2>1. TurnedDown(w, row)
    BY <1>1, <1>6, <1>8, <1>9, <1>11 DEF TurnedDown
  <2> QED BY <1>2, <1>5, <1>6, <1>7, <1>8, <2>1, WrittenCalls
<1> QED BY <1>10, <1>11

LEMMA InitialProbeCalls ==
  ASSUME RowsInv, CallsInv, NEW w \in Workers, StartInitialProbe(w) \/ RejectInitialProbe(w)
  PROVE  CallsInv' /\ CallsMove
<1>1. /\ wk[w].pc = "begun" /\ ~IsFollowUp(w) /\ CommitBegin(w, NoCalls)
      /\ \E i : \E pc \in {"probing", "looping"} : wk' = [wk EXCEPT ![w].pc = pc, ![w].idx = i]
      /\ wk \in [Workers -> Worker]
  BY DEF StartInitialProbe, RejectInitialProbe, Executes, RowsInv, TypeOK
<1>2. NoCalls \in [Calls -> CallStatus]
  BY DEF NoCalls, CallStatus
<1>3. PICK row : /\ SameTask(w, row) /\ row.calls = NoCalls
                 /\ TaskStep(w, row, <<>>) /\ <<>> \in TodoRows
  BY <1>1, <1>2, CommitTask
<1>4. TaskOf(w).calls = NoCalls
  <2>1. wk[w].run \in Runs /\ wk[w].task \in DOMAIN tasks[wk[w].run]
    BY <1>1, Held
  <2> QED BY <1>1, <2>1 DEF CallsInv, RequestsOnly, IsFollowUp, IsRequest, TaskOf
<1>5. ~IsRequest(row)
  BY <1>1, <1>3 DEF IsRequest, IsFollowUp, SameTask
<1>6. /\ wk'[w].pc \in {"probing", "looping"} /\ wk'[w].pend = NoCalls
      /\ wk'[w].run = wk[w].run /\ wk'[w].task = wk[w].task
      /\ \A v \in Workers : v # w => wk'[v] = wk[v]
  BY <1>1 DEF Worker, CallsInv, PendingEmpty
<1>7. \A j \in Calls : row.calls[j] = TaskOf(w).calls[j]
  BY <1>3, <1>4
<1>8. wk'[w].pc = "probing" \/ OwnsNothing(wk'[w])
  BY <1>6 DEF OwnsNothing
<1> QED BY <1>1, <1>3, <1>5, <1>6, <1>7, <1>8, WrittenCalls

LEMMA RefusedCalls ==
  ASSUME RowsInv, CallsInv, NEW w \in Workers, ProbeRefused(w)
  PROVE  CallsInv' /\ CallsMove
<1>1. CallsKept
  BY SameRowsKeepCalls DEF ProbeRefused
<1>2. PICK i : wk' = [wk EXCEPT ![w].pc = "looping", ![w].idx = i + 1, ![w].pend = NoCalls]
  BY DEF ProbeRefused
<1>3. \A v \in Workers : wk'[v] = wk[v] \/ OwnsNothing(wk'[v])
  BY <1>2 DEF OwnsNothing, Worker, RowsInv, TypeOK
<1> QED BY <1>1, <1>3, KeptCalls

LEMMA CollectDoneCalls ==
  ASSUME RowsInv, CallsInv, NEW w \in Workers, CollectDone(w)
  PROVE  CallsInv' /\ CallsMove
<1> DEFINE last == IF IsFollowUp(w) THEN ProbesPerRequest + 1 ELSE wk[w].idx
<1>1. /\ wk[w].pc \in {"begun", "looping"} /\ wk' = [wk EXCEPT ![w].pc = "finish"]
      /\ \E todo \in TodoRows : \E row : /\ SameTask(w, row) /\ TaskStep(w, row, todo)
                                         /\ row.calls = Flushed(w, last)
  BY CollectTask
<1>2. PICK todo \in TodoRows :
        \E row : SameTask(w, row) /\ TaskStep(w, row, todo) /\ row.calls = Flushed(w, last)
  BY <1>1
<1>2a. PICK row : SameTask(w, row) /\ TaskStep(w, row, todo) /\ row.calls = Flushed(w, last)
  BY <1>2
<1>3. wk[w] \in Worker /\ TaskOf(w) \in Task /\ wk \in [Workers -> Worker]
      /\ wk[w].run \in Runs /\ wk[w].task \in DOMAIN tasks[wk[w].run]
  BY <1>1, Held DEF RowsInv, TypeOK
<1>4. IsRequest(row) \/ row.calls = NoCalls
  <2> SUFFICES ASSUME ~IsRequest(row) PROVE row.calls = NoCalls
    OBVIOUS
  <2>1. ~IsFollowUp(w)
    BY <1>2a DEF IsRequest, IsFollowUp, SameTask
  <2>2. TaskOf(w).calls = NoCalls
    BY <1>3, <2>1 DEF CallsInv, RequestsOnly, IsFollowUp, IsRequest, TaskOf
  <2>3. Passed(w, last) = {}
    <3>1. wk[w].idx \in Nat /\ last = wk[w].idx
      BY <1>3, <2>1 DEF Worker
    <3>2. wk[w].idx .. (wk[w].idx - 1) = {}
      BY <3>1
    <3> HIDE DEF last
    <3> QED BY <3>1, <3>2 DEF Passed
  <2>4. \A j \in Calls : ~Owns(w, j)
    BY <2>1 DEF CallsInv, OwnedRunning
  <2>5. \A j \in Calls : Flushed(w, last)[j] = TaskOf(w).calls[j]
    <3> HIDE DEF last
    <3> QED BY <1>1, <2>3, <2>4, FlushedCall
  <2>6. Flushed(w, last) \in [Calls -> CallStatus] /\ TaskOf(w).calls \in [Calls -> CallStatus]
    <3> HIDE DEF last
    <3> QED BY <1>1, <1>3, FlushedCalls DEF Task
  <2> HIDE DEF last
  <2> QED BY <1>2a, <2>2, <2>5, <2>6
<1>5. ASSUME NEW j \in Calls
      PROVE  \/ row.calls[j] = TaskOf(w).calls[j]
             \/ TaskOf(w).calls[j] = "none"
             \/ /\ Owns(w, j) /\ TaskOf(w).calls[j] = "running"
                /\ row.calls[j] \in Results
  <2> HIDE DEF last
  <2> QED BY <1>1, <1>2a, FlushedCall
<1>6. /\ OwnsNothing(wk'[w]) /\ wk'[w].run = wk[w].run /\ wk'[w].task = wk[w].task
      /\ \A v \in Workers : v # w => wk'[v] = wk[v]
  BY <1>1, <1>3 DEF Worker, OwnsNothing
<1> HIDE DEF last
<1> QED BY <1>1, <1>2a, <1>4, <1>5, <1>6, WrittenCalls

LEMMA CallsStep ==
  ASSUME RowsInv, CallsInv, [Next]_vars
  PROVE  CallsInv' /\ CallsMove
<1>1. ASSUME NEW r \in Runs, Enqueue(r) \/ ResumeHuman(r) \/ LeaseExpire(r) \/ Elapse(r)
      PROVE  CallsInv' /\ CallsMove
  BY <1>1, ApiCalls
<1>2. ASSUME NEW w \in Workers, Work(w)
      PROVE  CallsInv' /\ CallsMove
  <2>1. CASE Claim(w) \/ Reread(w)
    BY <2>1, ClaimCalls
  <2>2. CASE BeginRefused(w) \/ Release(w) \/ ExhaustEscapes(w)
    BY <2>2, SetDownCalls
  <2>3. CASE Normalize(w) \/ Supervise(w) \/ AgentNode(w)
    <3>1. PICK out \in SUBSET Flags, todo \in TodoRows, status \in RunStatus \ {"absent", "waiting_human"} :
            Complete(w, out, todo, status)
      BY <2>3, NodeCompletes
    <3>2. wk[w].pc = "begun" /\ wk' = [wk EXCEPT ![w].pc = "finish"]
      BY <2>3, <3>1, NodeCompletes DEF Complete
    <3>3. PICK row : SameTask(w, row) /\ TaskStep(w, row, todo) /\ row.calls = TaskOf(w).calls
      BY <3>1, <3>2, CompleteTask
    <3> QED BY <3>2, <3>3, FinishCalls
  <2>4. CASE Collection(w)
    <3>1. CASE WaitHuman(w)
      BY <3>1, WaitHumanTask, FinishCalls
    <3>2. CASE Commits(w) \/ ProbeRefused(w) \/ FinishProbe(w) \/ CollectDone(w)
      BY <3>2, ProbeStartCalls, RefusedCalls, InitialProbeCalls, FinishProbeCalls, CollectDoneCalls
         DEF Commits
    <3> QED BY <2>4, <3>1, <3>2 DEF Collection, Commits, CommitsCall
  <2>5. CASE Exhaust(w) \/ FailTask(w)
    BY <2>5, HandlerTask, FinishCalls
  <2> QED BY <1>2, <2>1, <2>2, <2>3, <2>4, <2>5 DEF Work
<1>3. ASSUME NEW w \in Workers, Crash(w) \/ RenewalBlocks(w)
      PROVE  CallsInv' /\ CallsMove
  BY <1>3, SetDownCalls
<1>4. CASE UNCHANGED <<tasks, wk>>
  BY <1>4, SameRowsKeepCalls, KeptCalls
<1>5. CASE OtherProbe \/ PlanPipelineMove \/ UNCHANGED vars
  BY <1>4, <1>5 DEF OtherProbe, PlanPipelineMove, vars
<1> QED BY <1>1, <1>2, <1>3, <1>5 DEF Next

(* Only the two openings of the gateway make a worker hold the device. *)
LEMMA SessionStep ==
  ASSUME [Next]_vars, NEW w \in Workers, probe # w, probe' = w
  PROVE  StartProbe(w) \/ StartInitialProbe(w)
<1>0. w \notin {"free", "orphan", "other"}
  BY ConstantsAssumption
<1>1. CASE \E r \in Runs : Enqueue(r) \/ ResumeHuman(r) \/ LeaseExpire(r) \/ Elapse(r)
  BY <1>1 DEF Enqueue, ResumeHuman, LeaseExpire, Elapse
<1>2. ASSUME NEW v \in Workers, Work(v)
      PROVE  StartProbe(w) \/ StartInitialProbe(w)
  <2>1. CASE Claim(v) \/ Reread(v) \/ BeginRefused(v) \/ Release(v)
    BY <2>1 DEF Claim, Reread, BeginRefused, Release
  <2>2. CASE Normalize(v) \/ Supervise(v)
    BY <2>2 DEF Normalize, Supervise
  <2>3. CASE AgentNode(v)
    BY <2>3 DEF AgentNode, Agent, Triage, Historical, Diagnostic, Critic, PlanCandidate, SafetyReview
  <2>4. CASE WaitHuman(v) \/ RejectProbe(v) \/ ProbeRefused(v) \/ RejectInitialProbe(v) \/ CollectDone(v)
    BY <2>4 DEF WaitHuman, RejectProbe, ProbeRefused, RejectInitialProbe, CollectDone
  <2>5. CASE StartProbe(v) \/ StartInitialProbe(v)
    <3>1. probe' = v
      BY <2>5 DEF StartProbe, StartInitialProbe
    <3> QED BY <2>5, <3>1
  <2>6. CASE FinishProbe(v)
    BY <1>0, <2>6 DEF FinishProbe
  <2>7. CASE Exhaust(v) \/ ExhaustEscapes(v) \/ FailTask(v)
    BY <2>7 DEF Exhaust, ExhaustEscapes, FailTask
  <2> QED BY <1>2, <2>1, <2>2, <2>3, <2>4, <2>5, <2>6, <2>7 DEF Work, Collection
<1>3. CASE \E v \in Workers : Crash(v) \/ RenewalBlocks(v)
  BY <1>0, <1>3 DEF Crash, RenewalBlocks
<1>4. CASE OtherProbe \/ PlanPipelineMove \/ UNCHANGED vars
  BY <1>0, <1>4 DEF OtherProbe, PlanPipelineMove, vars
<1> QED BY <1>1, <1>2, <1>3, <1>4 DEF Next

LEMMA CallsInvInit ==
  ASSUME Init
  PROVE  CallsInv
<1>1. \A w \in Workers : wk[w].pc = "idle" /\ wk[w].pend = NoCalls
  BY DEF Init, IdleWorker
<1>2. \A r \in Runs : DOMAIN tasks[r] = {}
  BY DEF Init
<1> QED BY <1>1, <1>2 DEF CallsInv, RequestsOnly, PendingEmpty, OwnedRunning, OneOwner, Owns

LEMMA CallsInvStep ==
  ASSUME RowsInv, CallsInv, [Next]_vars
  PROVE  CallsInv'
  BY CallsStep

(* No device is ever probed twice for one call, and a call's row only moves
   forward: whatever the number of workers on a task, of retries, takeovers,
   stalled leases and crashes. *)
THEOREM CallsAreProbedOnce == Spec => CallsNeverRepeat
<1> DEFINE Session == \A w \in Workers : probe # w /\ probe' = w /\ IsFollowUp(w) =>
                        TaskOf(w).calls[wk'[w].idx] = "none"
<1>2. RowsInv /\ CallsInv /\ [Next]_vars => CallsInv' /\ CallsMove
  BY CallsStep
<1>3. RowsInv /\ [Next]_vars => Session
  <2> SUFFICES ASSUME RowsInv, [Next]_vars, NEW w \in Workers, probe # w, probe' = w, IsFollowUp(w)
               PROVE  TaskOf(w).calls[wk'[w].idx] = "none"
    OBVIOUS
  <2>1. StartProbe(w)
    BY SessionStep DEF StartInitialProbe
  <2>2. PICK i \in Calls : /\ AtNewCall(w, i)
                           /\ wk' = [wk EXCEPT ![w].pc = "probing", ![w].idx = i, ![w].pend = NoCalls]
    BY <2>1 DEF StartProbe
  <2>3. wk'[w].idx = i
    BY <2>2 DEF RowsInv, TypeOK, Worker
  <2> QED BY <2>2, <2>3 DEF AtNewCall
<1>4. RowsInv /\ CallsInv /\ [Next]_vars =>
        [/\ \A w \in Workers : probe # w /\ probe' = w /\ IsFollowUp(w) =>
              TaskOf(w).calls[wk'[w].idx] = "none"
         /\ \A r \in Runs : \A t \in DOMAIN tasks[r] : \A i \in Calls :
              LET before == tasks[r][t].calls[i]   after == tasks'[r][t].calls[i] IN
              \/ after = before
              \/ before = "none"
              \/ before = "running" /\ after \in {"completed", "failed", "rejected"}]_vars
  BY <1>2, <1>3 DEF CallsMove, Results
<1> QED BY <1>2, <1>4, CallsInvInit, RowsInvInit, RowsInvStep, PTL DEF Spec, CallsNeverRepeat

-----------------------------------------------------------------------------
(* The lease and the human gate.                                           *)

(* The steps of a worker on the run it holds, except for giving it up. *)
Acts(w) ==
  \/ Reread(w) \/ Normalize(w) \/ Supervise(w) \/ AgentNode(w) \/ Collection(w)
  \/ Exhaust(w) \/ FailTask(w) \/ RenewalBlocks(w)

Stops(w) == BeginRefused(w) \/ ExhaustEscapes(w) \/ Crash(w)

WorksOn(w, r) == wk[w].pc # "idle" /\ wk[w].run = r

(* What a step of a worker touches: itself and the run it holds. *)
LEMMA ActingStep ==
  ASSUME RowsInv, NEW w \in Workers, Acts(w)
  PROVE  LET r == wk[w].run IN
         /\ wk[w].pc \in {"claimed", "begun", "looping", "probing"} /\ r \in Runs
         /\ wk'[w].pc # "idle" /\ wk'[w].run = r /\ wk'[w].task = wk[w].task
         /\ \A v \in Workers : v # w => wk'[v] = wk[v]
         /\ \A q \in Runs : q # r => run'[q] = run[q] /\ tasks'[q] = tasks[q]
         /\ run'[r].lease = run[r].lease /\ run'[r].cred = run[r].cred
         /\ run'[r].status = "waiting_human" => run[r].status = "waiting_human" \/ WaitHuman(w)
         /\ env'["stall"] = env["stall"]
<1> DEFINE r == wk[w].run
<1>1. wk[w].pc \in {"claimed", "begun", "looping", "probing"}
  <2>1. CASE Normalize(w) \/ Supervise(w) \/ AgentNode(w)
    BY <2>1, NodeCompletes
  <2>2. CASE Collection(w)
    BY <2>2 DEF Collection, WaitHuman, StartProbe, RejectProbe, ProbeRefused, StartInitialProbe,
                RejectInitialProbe, FinishProbe, CollectDone, AtNewCall, AtRequests, Executes
  <2>3. CASE Exhaust(w) \/ FailTask(w)
    BY <2>3, HandlerTask
  <2>4. CASE Reread(w) \/ RenewalBlocks(w)
    BY <2>4 DEF Reread, RenewalBlocks, Executes
  <2> QED BY <2>1, <2>2, <2>3, <2>4 DEF Acts
<1>2. /\ r \in Runs /\ wk \in [Workers -> Worker] /\ run \in [Runs -> RunRecord]
      /\ tasks \in [Runs -> Seq(Task)] /\ env \in [EnvKinds -> Nat] /\ run[r] \in RunRecord
  BY <1>1, Held DEF RowsInv, TypeOK
<1> DEFINE Moved == /\ wk'[w].pc # "idle" /\ wk'[w].run = r /\ wk'[w].task = wk[w].task
                    /\ \A v \in Workers : v # w => wk'[v] = wk[v]
           Recorded == /\ \A q \in Runs : q # r => run'[q] = run[q]
                       /\ run'[r].lease = run[r].lease /\ run'[r].cred = run[r].cred
           Gated == run'[r].status = "waiting_human" => run[r].status = "waiting_human" \/ WaitHuman(w)
           Rows == \A q \in Runs : q # r => tasks'[q] = tasks[q]
           Calm == env'["stall"] = env["stall"]
<1>3. CASE Normalize(w) \/ Supervise(w) \/ AgentNode(w)
  <2>1. PICK out \in SUBSET Flags, todo \in TodoRows, status \in RunStatus \ {"absent", "waiting_human"} :
          Complete(w, out, todo, status) /\ UNCHANGED env
    BY <1>3, NodeCompletes
  <2>2. Moved /\ Rows /\ Calm
    BY <1>2, <2>1 DEF Complete, Worker
  <2>3. PICK s \in {status, Begun(w)} : run' = [run EXCEPT ![r].status = s, ![r].started = TRUE]
    BY <2>1 DEF Complete
  <2>4. Begun(w) = "waiting_human" => run[r].status = "waiting_human"
    BY DEF Begun
  <2>5. Recorded /\ run'[r].status = s
    BY <1>2, <2>3 DEF RunRecord
  <2> QED BY <1>1, <1>2, <2>2, <2>3, <2>4, <2>5
<1>4. CASE WaitHuman(w)
  <2>1. Moved /\ Rows /\ Calm
    BY <1>2, <1>4 DEF WaitHuman, Worker
  <2>2. Recorded
    BY <1>2, <1>4 DEF WaitHuman, RunRecord
  <2> QED BY <1>1, <1>2, <1>4, <2>1, <2>2
<1>5. CASE Commits(w)
  <2>1. \E calls : CommitBegin(w, calls)
    BY <1>5, GatewayCommit
  <2>2. Rows
    BY <1>2, <2>1 DEF CommitBegin
  <2>3. run' = run \/ run' = [run EXCEPT ![r].status = Begun(w), ![r].started = TRUE]
    BY <2>1 DEF CommitBegin
  <2>4. Recorded /\ (run'[r].status = run[r].status \/ run'[r].status = Begun(w))
    BY <1>2, <2>3, SMTT(30) DEF RunRecord
  <2>5. Gated
    BY <2>4 DEF Begun
  <2>6. Calm
    BY <1>5 DEF Commits, CommitsCall, StartProbe, RejectProbe, StartInitialProbe, RejectInitialProbe
  <2>8. Moved
    BY <1>5, GatewayCommit, GatewayWorker
  <2> QED BY <1>1, <1>2, <2>2, <2>4, <2>5, <2>6, <2>8
<1>6. CASE ProbeRefused(w) \/ FinishProbe(w)
  <2>1. Rows /\ Calm /\ Recorded /\ Gated
    BY <1>6 DEF ProbeRefused, FinishProbe
  <2>2. Moved
    <3>1. CASE ProbeRefused(w)
      BY <1>2, <3>1 DEF ProbeRefused, Worker
    <3>2. CASE FinishProbe(w)
      BY <1>2, <3>2 DEF FinishProbe, Worker
    <3> QED BY <1>6, <3>1, <3>2
  <2> QED BY <1>1, <1>2, <2>1, <2>2
<1>7. CASE CollectDone(w)
  <2>1. Rows /\ Calm /\ Moved
    BY <1>2, <1>7 DEF CollectDone, Worker
  <2>2. run' = run \/ run' = [run EXCEPT ![r].status = Begun(w), ![r].started = TRUE]
    BY <1>7 DEF CollectDone
  <2>3. Recorded /\ (run'[r].status = run[r].status \/ run'[r].status = Begun(w))
    BY <1>2, <2>2, SMTT(30) DEF RunRecord
  <2> QED BY <1>1, <1>2, <2>1, <2>3 DEF Begun
<1>8. CASE Exhaust(w) \/ FailTask(w)
  <2>1. \E s : run' = [run EXCEPT ![r].status = s] /\ s \in {"budget_exhausted", "failed", run[r].status}
    BY <1>8 DEF Exhaust, FailTask
  <2>2. Recorded /\ Gated
    BY <1>2, <2>1 DEF RunRecord
  <2>3. Rows /\ Moved
    BY <1>2, <1>8 DEF Exhaust, FailTask, Worker
  <2>4. Calm
    BY <1>2, <1>8 DEF Exhaust, FailTask, Happens, EnvKinds
  <2> QED BY <1>1, <1>2, <2>2, <2>3, <2>4
<1>9. CASE Reread(w) \/ RenewalBlocks(w)
  <2>1. Rows /\ Recorded /\ Gated
    BY <1>9 DEF Reread, RenewalBlocks
  <2>2. Calm
    BY <1>2, <1>9 DEF Reread, RenewalBlocks, Happens, EnvKinds
  <2>3. Moved
    <3>1. CASE Reread(w)
      BY <1>2, <3>1 DEF Reread, Worker
    <3>2. CASE RenewalBlocks(w)
      BY <1>2, <3>2 DEF RenewalBlocks, Worker
    <3> QED BY <1>9, <3>1, <3>2
  <2> QED BY <1>1, <1>2, <2>1, <2>2, <2>3
<1> QED BY <1>3, <1>4, <1>5, <1>6, <1>7, <1>8, <1>9 DEF Acts, Collection, Commits, CommitsCall

(* Stopping is to forget the run; only the device's row may change hands. *)
LEMMA StoppingStep ==
  ASSUME RowsInv, NEW w \in Workers, Stops(w)
  PROVE  /\ wk' = [wk EXCEPT ![w] = IdleWorker] /\ wk'[w].pc = "idle"
         /\ \A v \in Workers : v # w => wk'[v] = wk[v]
         /\ UNCHANGED <<case, plan, run, tasks, used>> /\ env'["stall"] = env["stall"]
<1>1. wk' = [wk EXCEPT ![w] = IdleWorker] /\ UNCHANGED <<case, plan, run, tasks, used>>
  BY DEF Stops, BeginRefused, ExhaustEscapes, Crash
<1>2. wk \in [Workers -> Worker] /\ env \in [EnvKinds -> Nat]
  BY DEF RowsInv, TypeOK
<1>3. env'["stall"] = env["stall"]
  BY <1>2 DEF Stops, BeginRefused, ExhaustEscapes, Crash, Happens, EnvKinds
<1> QED BY <1>1, <1>2, <1>3, IdleIsWorker

(* A step is one of these. *)
LEMMA StepCases ==
  ASSUME [Next]_vars
  PROVE  \/ \E r \in Runs : Enqueue(r) \/ ResumeHuman(r) \/ LeaseExpire(r) \/ Elapse(r)
         \/ \E w \in Workers : Claim(w) \/ Release(w) \/ Acts(w) \/ Stops(w)
         \/ UNCHANGED <<run, tasks, wk, used>> /\ (OtherProbe \/ PlanPipelineMove \/ UNCHANGED env)
<1>1. CASE \E w \in Workers : Work(w) \/ Crash(w) \/ RenewalBlocks(w)
  BY <1>1 DEF Work, Acts, Stops
<1>2. CASE OtherProbe \/ PlanPipelineMove \/ UNCHANGED vars
  BY <1>2 DEF OtherProbe, PlanPipelineMove, vars
<1> QED BY <1>1, <1>2 DEF Next

(* Every run has the credential when none is enqueued without. *)
CredKnown ==
  FALSE \notin CredStart => \A r \in Runs : run[r].status # "absent" => run[r].cred

(* The runs that never pass the human gate: ResumeHuman gives the lease up
   under the worker that has just parked the run, so afterwards two workers may
   hold it. *)
NeverParked(r) == ~run[r].cred \/ FALSE \notin CredStart

(* While no live worker has lost its lease, a run has at most one worker, and
   the lease is its own. *)
LeaseHeld ==
  env["stall"] = 0 => \A r \in Runs : NeverParked(r) =>
    /\ \A w, v \in Workers : WorksOn(w, r) /\ WorksOn(v, r) => w = v
    /\ \A w \in Workers : WorksOn(w, r) =>
         IF wk[w].pc = "hung" THEN run[r].lease # "free" ELSE run[r].lease = "held"

(* A run at the human gate has no credential, its worker is on its way out, and
   its task is there to be resumed. *)
GateHeld ==
  \A r \in Runs : run[r].status = "waiting_human" =>
    /\ ~run[r].cred
    /\ env["stall"] = 0 =>
         /\ \A w \in Workers : WorksOn(w, r) => wk[w].pc = "finish"
         /\ \E t \in DOMAIN tasks[r] : tasks[r][t].status = "waiting_human"

LeaseInv == CredKnown /\ LeaseHeld /\ GateHeld

LEMMA NobodyOnAbsent ==
  ASSUME RowsInv, NEW r \in Runs, run[r].status = "absent"
  PROVE  \A w \in Workers : ~WorksOn(w, r)
<1>1. DOMAIN tasks[r] = {}
  BY DEF RowsInv, AbsentEmpty
<1> QED BY <1>1 DEF RowsInv, HoldsRow, WorksOn

LEMMA ActingLease ==
  ASSUME RowsInv, LeaseInv, NEW w \in Workers, Acts(w)
  PROVE  LeaseInv'
<1> DEFINE r == wk[w].run
<1>1. /\ wk[w].pc \in {"claimed", "begun", "looping", "probing"} /\ r \in Runs
      /\ wk'[w].pc # "idle" /\ wk'[w].run = r /\ wk'[w].task = wk[w].task
      /\ \A v \in Workers : v # w => wk'[v] = wk[v]
      /\ \A q \in Runs : q # r => run'[q] = run[q] /\ tasks'[q] = tasks[q]
      /\ run'[r].lease = run[r].lease /\ run'[r].cred = run[r].cred
      /\ run'[r].status = "waiting_human" => run[r].status = "waiting_human" \/ WaitHuman(w)
      /\ env'["stall"] = env["stall"]
  BY ActingStep
<1>2. \A v \in Workers, q \in Runs : WorksOn(v, q)' = WorksOn(v, q)
  BY <1>1 DEF WorksOn
<1>3. \A q \in Runs : /\ run'[q].lease = run[q].lease /\ run'[q].cred = run[q].cred
                      /\ NeverParked(q)' = NeverParked(q)
  BY <1>1 DEF NeverParked
<1>4. run[r].status # "absent"
  BY <1>1, Held
<1>5. CredKnown'
  BY <1>1, <1>3, <1>4 DEF LeaseInv, CredKnown
<1>6. LeaseHeld'
  <2> SUFFICES ASSUME env["stall"] = 0, NEW q \in Runs, NeverParked(q)
               PROVE  /\ \A u, v \in Workers : WorksOn(u, q) /\ WorksOn(v, q) => u = v
                      /\ \A v \in Workers : WorksOn(v, q) =>
                           IF wk'[v].pc = "hung" THEN run[q].lease # "free" ELSE run[q].lease = "held"
    BY <1>1, <1>2, <1>3 DEF LeaseHeld
  <2>1. \A u, v \in Workers : WorksOn(u, q) /\ WorksOn(v, q) => u = v
    BY DEF LeaseInv, LeaseHeld
  <2>2. ASSUME NEW v \in Workers, WorksOn(v, q)
        PROVE  IF wk'[v].pc = "hung" THEN run[q].lease # "free" ELSE run[q].lease = "held"
    <3>1. IF wk[v].pc = "hung" THEN run[q].lease # "free" ELSE run[q].lease = "held"
      BY <2>2 DEF LeaseInv, LeaseHeld
    <3>2. v # w => wk'[v].pc = wk[v].pc
      BY <1>1
    <3>3. wk[w].pc # "hung"
      BY <1>1
    <3> QED BY <3>1, <3>2, <3>3
  <2> QED BY <2>1, <2>2
<1>7. GateHeld'
  <2> SUFFICES ASSUME NEW q \in Runs, run'[q].status = "waiting_human"
               PROVE  /\ ~run'[q].cred
                      /\ env["stall"] = 0 =>
                           /\ \A v \in Workers : WorksOn(v, q) => wk'[v].pc = "finish"
                           /\ \E t \in DOMAIN tasks'[q] : tasks'[q][t].status = "waiting_human"
    BY <1>1, <1>2 DEF GateHeld
  <2>1. CASE q # r
    <3>1. \A v \in Workers : WorksOn(v, q) => wk'[v] = wk[v]
      BY <1>1, <2>1 DEF WorksOn
    <3> QED BY <1>1, <2>1, <3>1 DEF LeaseInv, GateHeld
  <2>2. CASE q = r /\ WaitHuman(w)
    <3>1. ~run[r].cred /\ wk' = [wk EXCEPT ![w].pc = "finish"] /\ wk[w].pc = "begun"
      BY <2>2 DEF WaitHuman, Executes
    <3>2. wk'[w].pc = "finish"
      BY <3>1 DEF RowsInv, TypeOK
    <3>3. env["stall"] = 0 => \A v \in Workers : WorksOn(v, r) => v = w
      BY <1>1, <3>1 DEF LeaseInv, LeaseHeld, NeverParked, WorksOn
    <3>4. PICK row : SameTask(w, row) /\ TaskStep(w, row, <<>>) /\ <<>> \in TodoRows
                     /\ row.status = "waiting_human"
      BY <2>2, WaitHumanTask
    <3>5. wk[w].task \in DOMAIN tasks'[r] /\ tasks'[r][wk[w].task].status = "waiting_human"
      <4>1. LET n == Len(tasks[r]) IN
            /\ n \in Nat /\ Len(<<>>) \in Nat /\ wk[w].task \in 1 .. n
            /\ DOMAIN tasks'[r] = 1 .. (n + Len(<<>>))
            /\ tasks'[r][wk[w].task] = row
        BY <1>1, <3>4, TaskStepRows
      <4> QED BY <3>4, <4>1
    <3> QED BY <1>1, <2>2, <3>1, <3>2, <3>3, <3>5
  <2>3. CASE q = r /\ ~WaitHuman(w)
    <3>1. run[r].status = "waiting_human"
      BY <1>1, <2>3
    <3>2. ~run[r].cred
      BY <1>1, <3>1 DEF LeaseInv, GateHeld
    <3>3. env["stall"] # 0
      BY <1>1, <3>1 DEF LeaseInv, GateHeld, WorksOn
    <3> QED BY <1>1, <2>3, <3>2, <3>3
  <2> QED BY <2>1, <2>2, <2>3
<1> QED BY <1>5, <1>6, <1>7 DEF LeaseInv

LEMMA StoppingLease ==
  ASSUME RowsInv, LeaseInv, NEW w \in Workers, Stops(w)
  PROVE  LeaseInv'
<1>1. /\ wk'[w].pc = "idle" /\ \A v \in Workers : v # w => wk'[v] = wk[v]
      /\ UNCHANGED <<run, tasks>> /\ env'["stall"] = env["stall"]
  BY StoppingStep
<1>2. \A v \in Workers, q \in Runs : WorksOn(v, q)' => WorksOn(v, q) /\ wk'[v] = wk[v]
  BY <1>1 DEF WorksOn
<1>3. CredKnown'
  BY <1>1 DEF LeaseInv, CredKnown
<1>4. LeaseHeld'
  BY <1>1, <1>2 DEF LeaseInv, LeaseHeld, NeverParked
<1>5. GateHeld'
  BY <1>1, <1>2 DEF LeaseInv, GateHeld
<1> QED BY <1>3, <1>4, <1>5 DEF LeaseInv

(* A run with a live worker is not there to be claimed. *)
LEMMA ClaimedAlone ==
  ASSUME RowsInv, LeaseInv, env["stall"] = 0, NEW r \in Runs, NeverParked(r), CanClaim(r)
  PROVE  \A v \in Workers : ~WorksOn(v, r)
<1> SUFFICES ASSUME NEW v \in Workers, WorksOn(v, r) PROVE FALSE
  OBVIOUS
<1>1. wk[v].pc # "hung"
  BY DEF CanClaim, Hung, WorksOn
<1> QED BY <1>1 DEF LeaseInv, LeaseHeld, CanClaim

(* What a poll does to runs and workers. *)
LEMMA ClaimStep ==
  ASSUME RowsInv, NEW w \in Workers, Claim(w)
  PROVE  \E r \in Runs :
           /\ wk[w].pc = "idle" /\ CanClaim(r)
           /\ tasks' = [tasks EXCEPT ![r] = Recovered(r)]
           /\ \A v \in Workers : v # w => wk'[v] = wk[v]
           /\ \A q \in Runs : q # r => run'[q] = run[q] /\ tasks'[q] = tasks[q]
           /\ run'[r].status = run[r].status /\ run'[r].cred = run[r].cred
           /\ run'[r].started = run[r].started
           /\ UNCHANGED <<used, env>>
           /\ \/ /\ wk'[w].pc = "claimed" /\ wk'[w].run = r /\ run'[r].lease = "held"
                 /\ wk'[w].task \in Picks(Recovered(r))
              \/ UNCHANGED wk /\ run'[r].lease = "free" /\ Picks(Recovered(r)) = {}
<1>1. PICK r \in Runs :
        /\ wk[w].pc = "idle"
        /\ CanClaim(r)
        /\ tasks' = [tasks EXCEPT ![r] = Recovered(r)]
        /\ \/ \E t \in Picks(Recovered(r)) :
                /\ run' = [run EXCEPT ![r].lease = "held"]
                /\ wk' = [wk EXCEPT ![w].pc = "claimed", ![w].run = r, ![w].task = t]
           \/ /\ Picks(Recovered(r)) = {}
              /\ run' = [run EXCEPT ![r].lease = "free"]
              /\ UNCHANGED wk
  BY DEF Claim
<1>2. wk \in [Workers -> Worker] /\ run \in [Runs -> RunRecord] /\ tasks \in [Runs -> Seq(Task)]
  BY DEF RowsInv, TypeOK
<1>3. \A q \in Runs : q # r => run'[q] = run[q] /\ tasks'[q] = tasks[q]
  BY <1>1, <1>2
<1>4. PICK l \in {"held", "free"} : run' = [run EXCEPT ![r].lease = l]
  BY <1>1
<1>5. /\ run'[r].status = run[r].status /\ run'[r].cred = run[r].cred
      /\ run'[r].started = run[r].started /\ run'[r].lease = l
  BY <1>2, <1>4 DEF RunRecord
<1>6. CASE UNCHANGED wk
  <2>1. wk[w].pc # "claimed"
    BY <1>1
  <2>2. ~\E t : wk' = [wk EXCEPT ![w].pc = "claimed", ![w].run = r, ![w].task = t]
    BY <1>2, <1>6, <2>1 DEF Worker
  <2>3. run' = [run EXCEPT ![r].lease = "free"] /\ Picks(Recovered(r)) = {}
    BY <1>1, <2>2
  <2>4. run'[r].lease = "free"
    BY <1>2, <2>3 DEF RunRecord
  <2> QED BY <1>1, <1>3, <1>5, <1>6, <2>3, <2>4 DEF Claim
<1>7. ASSUME NEW t \in Picks(Recovered(r)), run' = [run EXCEPT ![r].lease = "held"],
             wk' = [wk EXCEPT ![w].pc = "claimed", ![w].run = r, ![w].task = t]
      PROVE  /\ \A v \in Workers : v # w => wk'[v] = wk[v]
             /\ wk'[w].pc = "claimed" /\ wk'[w].run = r /\ wk'[w].task = t
             /\ run'[r].lease = "held"
  BY <1>2, <1>7 DEF Worker, RunRecord
<1> QED BY <1>1, <1>3, <1>5, <1>6, <1>7 DEF Claim

LEMMA ClaimLease ==
  ASSUME RowsInv, LeaseInv, NEW w \in Workers, Claim(w)
  PROVE  LeaseInv'
<1>1. PICK r \in Runs :
        /\ wk[w].pc = "idle" /\ CanClaim(r)
        /\ \A v \in Workers : v # w => wk'[v] = wk[v]
        /\ \A q \in Runs : q # r => run'[q] = run[q] /\ tasks'[q] = tasks[q]
        /\ run'[r].status = run[r].status /\ run'[r].cred = run[r].cred
        /\ UNCHANGED env
        /\ \/ wk'[w].pc = "claimed" /\ wk'[w].run = r /\ run'[r].lease = "held"
           \/ UNCHANGED wk /\ run'[r].lease = "free"
  BY ClaimStep
<1>2. CredKnown'
  BY <1>1 DEF LeaseInv, CredKnown
<1>3. run[r].status # "waiting_human"
  BY <1>1 DEF CanClaim, Claimable
<1>4. \A v \in Workers, q \in Runs : q # r => (WorksOn(v, q)' => WorksOn(v, q) /\ wk'[v] = wk[v])
  BY <1>1 DEF WorksOn
<1>5. GateHeld'
  <2> SUFFICES ASSUME NEW q \in Runs, run'[q].status = "waiting_human"
               PROVE  /\ ~run'[q].cred
                      /\ env["stall"] = 0 =>
                           /\ \A v \in Workers : WorksOn(v, q)' => wk'[v].pc = "finish"
                           /\ \E t \in DOMAIN tasks'[q] : tasks'[q][t].status = "waiting_human"
    BY <1>1 DEF GateHeld
  <2>1. q # r
    BY <1>1, <1>3
  <2> QED BY <1>1, <1>4, <2>1 DEF LeaseInv, GateHeld
<1>6. LeaseHeld'
  <2> SUFFICES ASSUME env["stall"] = 0, NEW q \in Runs, NeverParked(q)'
               PROVE  /\ \A u, v \in Workers : WorksOn(u, q)' /\ WorksOn(v, q)' => u = v
                      /\ \A v \in Workers : WorksOn(v, q)' =>
                           IF wk'[v].pc = "hung" THEN run'[q].lease # "free" ELSE run'[q].lease = "held"
    BY <1>1 DEF LeaseHeld
  <2>1. CASE q # r
    <3>1. NeverParked(q) /\ run'[q] = run[q]
      BY <1>1, <2>1 DEF NeverParked
    <3>2. /\ \A u, v \in Workers : WorksOn(u, q) /\ WorksOn(v, q) => u = v
          /\ \A v \in Workers : WorksOn(v, q) =>
               IF wk[v].pc = "hung" THEN run[q].lease # "free" ELSE run[q].lease = "held"
      BY <3>1 DEF LeaseInv, LeaseHeld
    <3> QED BY <1>4, <2>1, <3>1, <3>2
  <2>2. CASE q = r
    <3>1. \A v \in Workers : ~WorksOn(v, r)
      BY <1>1, <2>2, ClaimedAlone DEF NeverParked
    <3>2. \A v \in Workers : WorksOn(v, r)' => v = w /\ wk'[w].pc = "claimed" /\ run'[r].lease = "held"
      BY <1>1, <3>1 DEF WorksOn
    <3> QED BY <2>2, <3>2
  <2> QED BY <2>1, <2>2
<1> QED BY <1>2, <1>5, <1>6 DEF LeaseInv

LEMMA ReleaseStep ==
  ASSUME RowsInv, NEW w \in Workers, Release(w)
  PROVE  LET r == wk[w].run IN
         /\ wk[w].pc = "finish" /\ r \in Runs /\ wk'[w].pc = "idle" /\ wk' = [wk EXCEPT ![w] = IdleWorker]
         /\ \A v \in Workers : v # w => wk'[v] = wk[v]
         /\ \A q \in Runs : q # r => run'[q] = run[q]
         /\ run'[r].status = run[r].status /\ run'[r].cred = run[r].cred
         /\ run'[r].started = run[r].started /\ run'[r].lease = "free"
         /\ UNCHANGED <<tasks, used, env>>
<1>1. /\ wk[w].pc = "finish" /\ run' = [run EXCEPT ![wk[w].run].lease = "free"]
      /\ wk' = [wk EXCEPT ![w] = IdleWorker] /\ UNCHANGED <<tasks, used, env>>
  BY DEF Release
<1>2. wk \in [Workers -> Worker] /\ run \in [Runs -> RunRecord] /\ wk[w].run \in Runs
  BY <1>1, Held DEF RowsInv, TypeOK
<1> QED BY <1>1, <1>2, IdleIsWorker DEF RunRecord

LEMMA ReleaseLease ==
  ASSUME RowsInv, LeaseInv, NEW w \in Workers, Release(w)
  PROVE  LeaseInv'
<1> DEFINE r == wk[w].run
<1>1. /\ wk[w].pc = "finish" /\ r \in Runs /\ wk'[w].pc = "idle"
      /\ \A v \in Workers : v # w => wk'[v] = wk[v]
      /\ \A q \in Runs : q # r => run'[q] = run[q]
      /\ run'[r].status = run[r].status /\ run'[r].cred = run[r].cred
      /\ UNCHANGED <<tasks, env>>
  BY ReleaseStep
<1>2. \A v \in Workers, q \in Runs : WorksOn(v, q)' => WorksOn(v, q) /\ wk'[v] = wk[v] /\ v # w
  BY <1>1 DEF WorksOn
<1>3. CredKnown'
  BY <1>1 DEF LeaseInv, CredKnown
<1>4. GateHeld'
  BY <1>1, <1>2 DEF LeaseInv, GateHeld
<1>5. LeaseHeld'
  <2> SUFFICES ASSUME env["stall"] = 0, NEW q \in Runs, NeverParked(q)'
               PROVE  /\ \A u, v \in Workers : WorksOn(u, q)' /\ WorksOn(v, q)' => u = v
                      /\ \A v \in Workers : WorksOn(v, q)' =>
                           IF wk'[v].pc = "hung" THEN run'[q].lease # "free" ELSE run'[q].lease = "held"
    BY <1>1 DEF LeaseHeld
  <2>1. NeverParked(q)
    BY <1>1 DEF NeverParked
  <2>2. CASE q # r
    BY <1>1, <1>2, <2>1, <2>2 DEF LeaseInv, LeaseHeld
  <2>3. CASE q = r
    <3>1. WorksOn(w, q)
      BY <1>1, <2>3 DEF WorksOn
    <3>2. \A v \in Workers : WorksOn(v, q) => v = w
      BY <2>1, <3>1 DEF LeaseInv, LeaseHeld
    <3>3. \A v \in Workers : ~WorksOn(v, q)'
      BY <1>2, <3>2
    <3> QED BY <3>3
  <2> QED BY <2>2, <2>3
<1> QED BY <1>3, <1>4, <1>5 DEF LeaseInv

LEMMA ApiStep ==
  ASSUME RowsInv, NEW r \in Runs, Enqueue(r) \/ ResumeHuman(r) \/ LeaseExpire(r) \/ Elapse(r)
  PROVE  /\ UNCHANGED wk
         /\ \A v \in Workers, q \in Runs : WorksOn(v, q)' = WorksOn(v, q)
  BY DEF Enqueue, ResumeHuman, LeaseExpire, Elapse, WorksOn

LEMMA EnqueueLease ==
  ASSUME RowsInv, LeaseInv, NEW r \in Runs, Enqueue(r)
  PROVE  LeaseInv'
<1>1. PICK cred \in CredStart :
        run' = [q \in Runs |->
                  IF q = r THEN [run[r] EXCEPT !.status = "queued", !.cred = cred]
                  ELSE IF q \in Superseded THEN [run[q] EXCEPT !.status = "cancelled"] ELSE run[q]]
  BY DEF Enqueue
<1>2. run[r].status = "absent" /\ UNCHANGED <<wk, env>> /\ run \in [Runs -> RunRecord]
  BY DEF Enqueue, RowsInv, TypeOK
<1>3. run'[r].status = "queued" /\ run'[r].cred = cred
  BY <1>1, <1>2 DEF RunRecord
<1>4. \A q \in Runs : q # r =>
        /\ run'[q].cred = run[q].cred /\ run'[q].lease = run[q].lease
        /\ run'[q].status = IF q \in Superseded THEN "cancelled" ELSE run[q].status
  BY <1>1, <1>2 DEF RunRecord
<1>5. \A v \in Workers, q \in Runs : WorksOn(v, q)' = WorksOn(v, q)
  BY ApiStep
<1>6. \A v \in Workers : ~WorksOn(v, r)
  BY <1>2, NobodyOnAbsent
<1>7. cred \in BOOLEAN
  BY ConstantsAssumption
<1>8. CredKnown'
  <2> SUFFICES ASSUME FALSE \notin CredStart, NEW q \in Runs, run'[q].status # "absent"
               PROVE  run'[q].cred
    BY DEF CredKnown
  <2>1. CASE q = r
    BY <1>3, <1>7, <2>1
  <2>2. CASE q # r
    <3>1. run[q].status # "absent"
      BY <1>4, <2>2 DEF Superseded, ActiveRun, Claimable
    <3> QED BY <1>4, <2>2, <3>1 DEF LeaseInv, CredKnown
  <2> QED BY <2>1, <2>2
<1>9. LeaseHeld'
  <2> SUFFICES ASSUME env["stall"] = 0, NEW q \in Runs, NeverParked(q)'
               PROVE  /\ \A u, v \in Workers : WorksOn(u, q) /\ WorksOn(v, q) => u = v
                      /\ \A v \in Workers : WorksOn(v, q) =>
                           IF wk[v].pc = "hung" THEN run'[q].lease # "free" ELSE run'[q].lease = "held"
    BY <1>2, <1>5 DEF LeaseHeld
  <2>1. CASE q = r
    BY <1>6, <2>1
  <2>2. CASE q # r
    BY <1>4, <2>2 DEF LeaseInv, LeaseHeld, NeverParked
  <2> QED BY <2>1, <2>2
<1>10. GateHeld'
  <2> SUFFICES ASSUME NEW q \in Runs, run'[q].status = "waiting_human"
               PROVE  /\ ~run'[q].cred
                      /\ env["stall"] = 0 =>
                           /\ \A v \in Workers : WorksOn(v, q) => wk[v].pc = "finish"
                           /\ \E t \in DOMAIN tasks'[q] : tasks'[q][t].status = "waiting_human"
    BY <1>2, <1>5 DEF GateHeld
  <2>1. q # r /\ q \notin Superseded /\ run[q].status = "waiting_human"
    BY <1>3, <1>4
  <2>2. FALSE
    BY <2>1 DEF Superseded, ActiveRun
  <2> QED BY <2>2
<1> QED BY <1>8, <1>9, <1>10 DEF LeaseInv

LEMMA ResumeLease ==
  ASSUME RowsInv, LeaseInv, NEW r \in Runs, ResumeHuman(r)
  PROVE  LeaseInv'
<1>1. /\ run[r].status = "waiting_human" /\ UNCHANGED <<wk, env>>
      /\ run' = [run EXCEPT ![r].status = "queued", ![r].cred = TRUE, ![r].lease = "free"]
      /\ run \in [Runs -> RunRecord] /\ tasks' = [tasks EXCEPT ![r] = Unblocked(r)]
      /\ tasks \in [Runs -> Seq(Task)]
  BY DEF ResumeHuman, Resumed, RowsInv, TypeOK
<1>2. /\ run'[r].status = "queued" /\ run'[r].cred
      /\ \A q \in Runs : q # r => run'[q] = run[q] /\ tasks'[q] = tasks[q]
  BY <1>1 DEF RunRecord
<1>3. \A v \in Workers, q \in Runs : WorksOn(v, q)' = WorksOn(v, q)
  BY ApiStep
<1>4. ~run[r].cred /\ FALSE \in CredStart
  BY <1>1 DEF LeaseInv, GateHeld, CredKnown
<1>5. CredKnown'
  BY <1>4 DEF CredKnown
<1>6. LeaseHeld'
  <2> SUFFICES ASSUME env["stall"] = 0, NEW q \in Runs, NeverParked(q)'
               PROVE  /\ \A u, v \in Workers : WorksOn(u, q) /\ WorksOn(v, q) => u = v
                      /\ \A v \in Workers : WorksOn(v, q) =>
                           IF wk[v].pc = "hung" THEN run'[q].lease # "free" ELSE run'[q].lease = "held"
    BY <1>1, <1>3 DEF LeaseHeld
  <2>1. q # r
    BY <1>2, <1>4 DEF NeverParked
  <2> QED BY <1>2, <2>1 DEF LeaseInv, LeaseHeld, NeverParked
<1>7. GateHeld'
  <2> SUFFICES ASSUME NEW q \in Runs, run'[q].status = "waiting_human"
               PROVE  /\ ~run'[q].cred
                      /\ env["stall"] = 0 =>
                           /\ \A v \in Workers : WorksOn(v, q) => wk[v].pc = "finish"
                           /\ \E t \in DOMAIN tasks'[q] : tasks'[q][t].status = "waiting_human"
    BY <1>1, <1>3 DEF GateHeld
  <2>1. q # r
    BY <1>2
  <2> QED BY <1>2, <2>1 DEF LeaseInv, GateHeld
<1> QED BY <1>5, <1>6, <1>7 DEF LeaseInv

LEMMA TimeLease ==
  ASSUME RowsInv, LeaseInv, NEW r \in Runs, LeaseExpire(r) \/ Elapse(r)
  PROVE  LeaseInv'
<1>1. /\ UNCHANGED <<wk, tasks>> /\ env["stall"] \in Nat /\ env \in [EnvKinds -> Nat]
      /\ run \in [Runs -> RunRecord]
  BY DEF LeaseExpire, Elapse, RowsInv, TypeOK, EnvKinds
<1>2. /\ \A q \in Runs : run'[q].status = run[q].status /\ run'[q].cred = run[q].cred
      /\ \A q \in Runs : q # r => run'[q] = run[q]
      /\ env'["stall"] = 0 =>
           /\ env["stall"] = 0
           /\ run'[r].lease = run[r].lease \/ (Renewing(r) = {} /\ run'[r].lease = "expired")
  <2>1. CASE Elapse(r)
    <3>1. run' = [run EXCEPT ![r].over = TRUE] /\ Happens("elapse")
      BY <2>1 DEF Elapse
    <3>2. env'["stall"] = env["stall"]
      BY <1>1, <3>1 DEF Happens, EnvKinds
    <3> QED BY <1>1, <3>1, <3>2 DEF RunRecord
  <2>2. CASE LeaseExpire(r)
    <3>1. run' = [run EXCEPT ![r].lease = "expired"]
      BY <2>2 DEF LeaseExpire
    <3>2. env'["stall"] = 0 => env["stall"] = 0 /\ Renewing(r) = {}
      BY <1>1, <2>2 DEF LeaseExpire, Happens, EnvKinds
    <3> QED BY <1>1, <3>1, <3>2 DEF RunRecord
  <2> QED BY <2>1, <2>2
<1>3. \A v \in Workers, q \in Runs : WorksOn(v, q)' = WorksOn(v, q)
  BY ApiStep
<1>4. CredKnown' /\ GateHeld'
  <2>1. CredKnown'
    BY <1>2 DEF LeaseInv, CredKnown
  <2>2. ASSUME NEW q \in Runs, run'[q].status = "waiting_human"
        PROVE  /\ ~run'[q].cred
               /\ env'["stall"] = 0 =>
                    /\ \A v \in Workers : WorksOn(v, q)' => wk'[v].pc = "finish"
                    /\ \E t \in DOMAIN tasks'[q] : tasks'[q][t].status = "waiting_human"
    <3>1. /\ ~run[q].cred
          /\ env["stall"] = 0 =>
               /\ \A v \in Workers : WorksOn(v, q) => wk[v].pc = "finish"
               /\ \E t \in DOMAIN tasks[q] : tasks[q][t].status = "waiting_human"
      BY <1>2, <2>2 DEF LeaseInv, GateHeld
    <3> QED BY <1>1, <1>2, <1>3, <3>1
  <2>3. GateHeld'
    BY <2>2 DEF GateHeld
  <2> QED BY <2>1, <2>3
<1>5. LeaseHeld'
  <2> SUFFICES ASSUME env'["stall"] = 0, NEW q \in Runs, NeverParked(q)
               PROVE  /\ \A u, v \in Workers : WorksOn(u, q) /\ WorksOn(v, q) => u = v
                      /\ \A v \in Workers : WorksOn(v, q) =>
                           IF wk[v].pc = "hung" THEN run'[q].lease # "free" ELSE run'[q].lease = "held"
    BY <1>1, <1>2, <1>3 DEF LeaseHeld, NeverParked
  <2>1. /\ \A u, v \in Workers : WorksOn(u, q) /\ WorksOn(v, q) => u = v
        /\ \A v \in Workers : WorksOn(v, q) =>
             IF wk[v].pc = "hung" THEN run[q].lease # "free" ELSE run[q].lease = "held"
    BY <1>2 DEF LeaseInv, LeaseHeld
  <2>2. CASE run'[q].lease = run[q].lease
    BY <2>1, <2>2
  <2>3. CASE q = r /\ Renewing(r) = {} /\ run'[r].lease = "expired"
    <3>1. \A v \in Workers : WorksOn(v, r) => wk[v].pc = "hung"
      BY <2>3 DEF Renewing, Working, Hung, WorksOn
    <3> QED BY <2>1, <2>3, <3>1
  <2> QED BY <1>2, <2>2, <2>3
<1> QED BY <1>4, <1>5 DEF LeaseInv

LEMMA LeaseInvStep ==
  ASSUME RowsInv, LeaseInv, [Next]_vars
  PROVE  LeaseInv'
<1>1. CASE \E r \in Runs : Enqueue(r) \/ ResumeHuman(r) \/ LeaseExpire(r) \/ Elapse(r)
  BY <1>1, EnqueueLease, ResumeLease, TimeLease
<1>2. CASE \E w \in Workers : Claim(w) \/ Release(w) \/ Acts(w) \/ Stops(w)
  BY <1>2, ClaimLease, ReleaseLease, ActingLease, StoppingLease
<1>3. CASE UNCHANGED <<run, tasks, wk, used>> /\ (OtherProbe \/ PlanPipelineMove \/ UNCHANGED env)
  <2>1. env \in [EnvKinds -> Nat]
    BY DEF RowsInv, TypeOK
  <2>2. env'["stall"] = env["stall"]
    BY <1>3, <2>1 DEF OtherProbe, PlanPipelineMove, Happens, EnvKinds
  <2>3. \A v \in Workers, q \in Runs : WorksOn(v, q)' = WorksOn(v, q)
    BY <1>3 DEF WorksOn
  <2>4. \A q \in Runs : NeverParked(q)' = NeverParked(q)
    BY <1>3 DEF NeverParked
  <2>5. CredKnown'
    BY <1>3 DEF LeaseInv, CredKnown
  <2>6. LeaseHeld'
    BY <1>3, <2>2, <2>3, <2>4 DEF LeaseInv, LeaseHeld
  <2>7. GateHeld'
    BY <1>3, <2>2, <2>3 DEF LeaseInv, GateHeld
  <2> QED BY <2>5, <2>6, <2>7 DEF LeaseInv
<1> QED BY <1>1, <1>2, <1>3, StepCases

LEMMA LeaseInvInit ==
  ASSUME Init
  PROVE  LeaseInv
<1>1. \A w \in Workers : wk[w].pc = "idle"
  BY DEF Init, IdleWorker
<1>2. \A r \in Runs : run[r].status = "absent"
  BY DEF Init
<1> QED BY <1>1, <1>2 DEF LeaseInv, CredKnown, LeaseHeld, GateHeld, WorksOn

(* The lease is a lock: until a live worker loses it (a stall), no two
   workers execute a task of one run, whatever crashes, hangs and takeovers
   there are.  (Runs enqueued without a credential are left out: resuming one
   gives up the lease of whoever holds it.) *)
THEOREM LeaseExcludes ==
  Spec => [](env["stall"] = 0 /\ FALSE \notin CredStart => ExclusiveWorkers)
<1>1. RowsInv /\ LeaseInv => (env["stall"] = 0 /\ FALSE \notin CredStart => ExclusiveWorkers)
  <2> SUFFICES ASSUME RowsInv, LeaseInv, env["stall"] = 0, FALSE \notin CredStart
               PROVE  ExclusiveWorkers
    OBVIOUS
  <2> SUFFICES ASSUME NEW w \in Workers, NEW v \in Workers,
                      Executing(w), Executing(v), wk[w].run = wk[v].run
               PROVE  w = v
    BY DEF ExclusiveWorkers
  <2>1. wk[w].run \in Runs /\ WorksOn(w, wk[w].run) /\ WorksOn(v, wk[w].run)
    BY Held DEF Executing, WorksOn
  <2> QED BY <2>1 DEF LeaseInv, LeaseHeld, NeverParked
<1> QED BY <1>1, RowsInvInit, RowsInvStep, LeaseInvInit, LeaseInvStep, PTL DEF Spec

(* A run at the human gate can be resumed: its waiting task is there, until a
   stalled worker comes back to write over it. *)
THEOREM GateOpens == Spec => [](env["stall"] = 0 => WaitingHumanResumable)
<1>1. LeaseInv => (env["stall"] = 0 => WaitingHumanResumable)
  BY DEF LeaseInv, GateHeld, WaitingHumanResumable
<1> QED BY <1>1, RowsInvInit, RowsInvStep, LeaseInvInit, LeaseInvStep, PTL DEF Spec

-----------------------------------------------------------------------------
(* Runs that go on.                                                        *)

(* No live worker has lost its lease, and no run ever parks. *)
Calm == env["stall"] = 0 /\ FALSE \notin CredStart

(* The row a worker has in hand is not done: a run that workers look for has
   not had it cancelled. *)
RowAtHand ==
  \A w \in Workers : wk[w].pc \notin {"idle", "finish"} =>
    /\ TaskOf(w).status \in {"ready", "running", "cancelled"}
    /\ wk[w].pc \notin {"probing", "looping"} => TaskOf(w).status # "running"
    /\ run[wk[w].run].status \in Claimable => TaskOf(w).status # "cancelled"

NoneParked == \A r \in Runs : \A t \in DOMAIN tasks[r] : tasks[r][t].status # "waiting_human"

(* A running task is in the hands of the worker probing for it, or nobody
   works on its run and a lease is left to expire. *)
RunningHeld ==
  \A r \in Runs : \A t \in DOMAIN tasks[r] : tasks[r][t].status = "running" =>
    /\ run[r].started
    /\ \/ \E w \in Workers : WorksOn(w, r) /\ wk[w].task = t /\ wk[w].pc \in {"probing", "looping"}
       \/ run[r].lease # "free" /\ \A w \in Workers : ~WorksOn(w, r)

(* There is a task to go on with. *)
GoesOn ==
  \A r \in Runs : run[r].status \in Claimable =>
    \E t \in DOMAIN tasks[r] : tasks[r][t].status \in {"ready", "running"}

Attended == Calm => RowAtHand /\ NoneParked /\ RunningHeld /\ GoesOn

(* While somebody works on a run, only the task in hand can be running. *)
LEMMA OwnRunning ==
  ASSUME RowsInv, LeaseInv, Attended, Calm, NEW w \in Workers, NEW r \in Runs, WorksOn(w, r),
         NEW t \in DOMAIN tasks[r], tasks[r][t].status = "running"
  PROVE  t = wk[w].task /\ wk[w].pc \in {"probing", "looping"}
<1>1. \E v \in Workers : WorksOn(v, r) /\ wk[v].task = t /\ wk[v].pc \in {"probing", "looping"}
  BY DEF Attended, RunningHeld
<1>2. \A v \in Workers : WorksOn(v, r) => v = w
  BY DEF LeaseInv, LeaseHeld, Calm, NeverParked
<1> QED BY <1>1, <1>2

(* What a decision leaves to do: a task is scheduled, or the run is over, or the
   supervisor waits for an agent's. *)
LEMMA DecisionGoesOn ==
  ASSUME NEW r \in Runs, NEW fresh \in BOOLEAN
  PROVE  LET d == Decide(r, fresh) IN
         \/ Len(NextTasks(r, d)) > 0
         \/ RunStatusAfter(d) \in {"completed", "failed"}
         \/ AgentsActive(r)
<1> DEFINE d == Decide(r, fresh)
<1>1. CASE d = "wait_agents"
  BY <1>1 DEF Decide
<1>2. CASE d \in {"escalate", "observe_only_stop"}
  <2>1. RunStatusAfter(d) \in {"completed", "failed"}
    <3> HIDE DEF d
    <3> QED BY <1>2 DEF RunStatusAfter
  <2> QED BY <2>1
<1>3. CASE d \in {"collect_initial", "run_diagnostics", "collect_requested", "rerun_diagnostics",
                  "run_critic", "plan", "safety_review"}
  <2>1. \A a : Len(<<a>>) = 1
    OBVIOUS
  <2>2. \A a, b : Len(<<a, b>>) = 2
    OBVIOUS
  <2>3. Len(NextTasks(r, d)) > 0
    <3> HIDE DEF d
    <3> QED BY <1>3, <2>1, <2>2 DEF NextTasks, NextRound
  <2> QED BY <2>3
<1>4. d \in {"wait_agents", "escalate", "observe_only_stop", "collect_initial", "run_diagnostics",
             "collect_requested", "rerun_diagnostics", "run_critic", "plan", "safety_review"}
  BY DEF Decide
<1> QED BY <1>1, <1>2, <1>3, <1>4

(* What a worker's step does to the rows of its run, and leaves to do. *)
LEMMA ActingRows ==
  ASSUME RowsInv, LeaseInv, Attended, Calm, NEW w \in Workers, Acts(w)
  PROVE  LET r == wk[w].run IN
         /\ run[r].started => run'[r].started
         /\ \/ /\ UNCHANGED <<run, tasks>>
               /\ \/ wk[w].pc = "claimed" /\ wk'[w].pc = "begun"
                  \/ wk[w].pc = "begun" /\ wk'[w].pc \in {"hung", "looping"}
                  \/ wk[w].pc \in {"probing", "looping"} /\ wk'[w].pc = "looping"
            \/ \E row, todo :
               /\ SameTask(w, row) /\ todo \in TodoRows /\ TaskStep(w, row, todo)
               /\ row.status # "waiting_human"
               /\ \/ /\ wk'[w].pc \in {"probing", "looping"} /\ wk[w].pc = "begun"
                     /\ row.status = "running" /\ run'[r].started
                  \/ /\ wk'[w].pc \in {"probing", "looping"} /\ wk[w].pc = "looping"
                     /\ row.status = TaskOf(w).status /\ run' = run
                  \/ /\ wk'[w].pc = "finish" /\ row.status # "running"
                     /\ run'[r].status \in Claimable =>
                          \/ row.status = "ready"
                          \/ Len(todo) > 0
                          \/ \E t \in DOMAIN tasks[r] : t # wk[w].task /\ tasks[r][t].status = "ready"
<1> DEFINE r == wk[w].run
           More(row, todo) == run'[r].status \in Claimable =>
              \/ row.status = "ready"
              \/ Len(todo) > 0
              \/ \E t \in DOMAIN tasks[r] : t # wk[w].task /\ tasks[r][t].status = "ready"
<1>1. /\ wk[w].pc \in {"claimed", "begun", "looping", "probing"} /\ r \in Runs
      /\ wk[w].task \in DOMAIN tasks[r]
      /\ run \in [Runs -> RunRecord] /\ run[r] \in RunRecord /\ wk \in [Workers -> Worker]
      /\ wk[w] \in Worker /\ env \in [EnvKinds -> Nat]
  BY ActingStep, Held DEF RowsInv, TypeOK
<1>2. TaskOf(w).status \in {"ready", "running", "cancelled"} /\ WorksOn(w, r)
  BY <1>1 DEF Attended, RowAtHand, WorksOn
<1>3. Len(<<Supervisor>>) > 0 /\ Len(<<Todo("triage", 0, 100), Supervisor>>) > 0
  <2>1. \A a : Len(<<a>>) = 1
    OBVIOUS
  <2>2. \A a, b : Len(<<a, b>>) = 2
    OBVIOUS
  <2> QED BY <2>1, <2>2
<1>4. ASSUME NEW out \in SUBSET Flags, NEW todo \in TodoRows, NEW status \in RunStatus,
             wk[w].pc = "begun", Complete(w, out, todo, status),
             run'[r].status \in Claimable =>
               Len(todo) > 0 \/ \E t \in DOMAIN tasks[r] : t # wk[w].task /\ tasks[r][t].status = "ready"
      PROVE  /\ run'[r].started
             /\ \E row : /\ SameTask(w, row) /\ TaskStep(w, row, todo)
                         /\ row.status = "completed" /\ wk'[w].pc = "finish" /\ More(row, todo)
  <2>1. PICK row : SameTask(w, row) /\ TaskStep(w, row, todo) /\ row.status = "completed"
    BY <1>1, <1>4, CompleteTask
  <2>2. PICK s : run' = [run EXCEPT ![r].status = s, ![r].started = TRUE]
    BY <1>4 DEF Complete
  <2>3. run'[r].started
    BY <1>1, <2>2 DEF RunRecord
  <2>4. wk'[w].pc = "finish"
    BY <1>1, <1>4 DEF Complete, Worker
  <2> QED BY <1>4, <2>1, <2>3, <2>4
<1>5. CASE Normalize(w) \/ AgentNode(w)
  <2>1. PICK out \in SUBSET Flags, todo \in TodoRows, status \in RunStatus :
          Complete(w, out, todo, status) /\ Len(todo) > 0 /\ wk[w].pc = "begun"
    <3>1. "running" \in RunStatus /\ {} \in SUBSET Flags
      BY DEF RunStatus, ActiveRun, Claimable
    <3>2. \A n \in Nodes : OneRow(n, 0, 100) \in TodoRows
      <4>1. 0 \in Nat /\ 100 \in {80, 90, 100}
        OBVIOUS
      <4> QED BY <4>1, RowOf
    <3>3. "triage" \in Nodes /\ "supervisor" \in Nodes /\ 100 \in {80, 90, 100}
      BY DEF Nodes
    <3>4. <<Supervisor>> \in TodoRows
      BY <3>2, <3>3 DEF OneRow, Supervisor
    <3>5. <<Todo("triage", 0, 100), Supervisor>> \in TodoRows
      <4>1. TwoRows("triage", 100, "supervisor", 100) \in TodoRows
        BY <3>3, RowsOf
      <4> QED BY <4>1 DEF TwoRows, Supervisor
    <3>6. CASE Normalize(w)
      BY <1>3, <3>1, <3>5, <3>6 DEF Normalize, Executes
    <3>7. CASE AgentNode(w)
      <4>1. \E node, out : out \in SUBSET Flags /\ Agent(w, node, out)
        BY <3>7 DEF AgentNode, Triage, Historical, Diagnostic, Critic, PlanCandidate, SafetyReview,
                    Outcomes, Flags
      <4> QED BY <1>3, <3>1, <3>4, <4>1 DEF Agent, Executes
    <3> QED BY <1>5, <3>6, <3>7
  <2> QED BY <1>4, <2>1
<1>6. CASE Supervise(w)
  <2>1. wk[w].pc = "begun" /\ TaskOf(w).node = "supervisor" /\ RowsOK(tasks[r])
    BY <1>1, <1>6, Held DEF Supervise, Executes
  <2>2. PICK fresh \in BOOLEAN :
          Complete(w, {}, NextTasks(r, Decide(r, fresh)), RunStatusAfter(Decide(r, fresh)))
    BY <1>6 DEF Supervise
  <2> DEFINE d == Decide(r, fresh)
             todo == NextTasks(r, d)
             status == RunStatusAfter(d)
  <2>3. todo \in TodoRows
    BY <1>1, <2>1, DecisionsScheduleRows
  <2>4. status \in RunStatus
    BY DEF RunStatusAfter, RunStatus, ActiveRun, Claimable
  <2>5. \/ Len(todo) > 0
        \/ status \in {"completed", "failed"}
        \/ AgentsActive(r)
    BY <1>1, DecisionGoesOn
  <2> HIDE DEF d, todo, status
  <2>6. Complete(w, {}, todo, status)
    BY <2>2 DEF d, todo, status
  <2>7. ASSUME AgentsActive(r)
        PROVE  \E t \in DOMAIN tasks[r] : t # wk[w].task /\ tasks[r][t].status = "ready"
    <3>1. PICK t \in DOMAIN tasks[r] : tasks[r][t].node # "supervisor" /\ tasks[r][t].status \in ActiveTask
      BY <2>7 DEF AgentsActive
    <3>2. t # wk[w].task
      BY <2>1, <3>1 DEF TaskOf
    <3>3. tasks[r][t].status # "running"
      BY <1>1, <1>2, <3>2, OwnRunning
    <3>4. tasks[r][t].status # "waiting_human"
      BY <1>1 DEF Attended, NoneParked
    <3> QED BY <3>1, <3>2, <3>3, <3>4 DEF ActiveTask
  <2>8. status \in {"completed", "failed"} => run'[r].status \notin Claimable
    <3>1. status # "running" => run' = [run EXCEPT ![r].status = status, ![r].started = TRUE]
      BY <2>6 DEF Complete
    <3>2. status # "running" => run'[r].status = status
      BY <1>1, <3>1 DEF RunRecord
    <3> QED BY <3>2 DEF Claimable
  <2>9. run'[r].status \in Claimable =>
          Len(todo) > 0 \/ \E t \in DOMAIN tasks[r] : t # wk[w].task /\ tasks[r][t].status = "ready"
    BY <2>5, <2>7, <2>8
  <2>10. {} \in SUBSET Flags
    OBVIOUS
  <2>11. /\ run'[r].started
         /\ \E row : /\ SameTask(w, row) /\ TaskStep(w, row, todo)
                     /\ row.status = "completed" /\ wk'[w].pc = "finish" /\ More(row, todo)
    BY <1>4, <2>1, <2>3, <2>4, <2>6, <2>9, <2>10
  <2> QED BY <2>3, <2>11
<1>7. CASE WaitHuman(w)
  <2>1. ~run[r].cred /\ run[r].status # "absent"
    BY <1>1, <1>7, Held DEF WaitHuman
  <2> QED BY <1>1, <2>1 DEF LeaseInv, CredKnown, Calm
<1>8. CASE Commits(w)
  <2>1. PICK calls \in [Calls -> CallStatus] :
          CommitBegin(w, calls) /\ wk[w].pc \in {"begun", "looping"}
    BY <1>8, GatewayCommit
  <2>2. PICK row : /\ SameTask(w, row) /\ TaskStep(w, row, <<>>) /\ <<>> \in TodoRows
                   /\ row.status = IF wk[w].pc = "begun" THEN "running" ELSE TaskOf(w).status
    BY <1>1, <2>1, CommitTask
  <2>3. run' = IF wk[w].pc = "begun"
               THEN [run EXCEPT ![r].status = Begun(w), ![r].started = TRUE] ELSE run
    BY <2>1 DEF CommitBegin
  <2>4. /\ run[r].started => run'[r].started
        /\ wk[w].pc = "begun" => run'[r].started
        /\ wk[w].pc = "looping" => run' = run
    BY <1>1, <2>3 DEF RunRecord
  <2>5. wk'[w].pc \in {"probing", "looping"}
    BY <1>8, GatewayWorker
  <2> QED BY <1>2, <2>1, <2>2, <2>4, <2>5
<1>9. CASE Reread(w) \/ RenewalBlocks(w)
  BY <1>1, <1>9 DEF Reread, RenewalBlocks, Executes, Worker
<1>10. CASE ProbeRefused(w)
  BY <1>1, <1>10 DEF ProbeRefused, AtNewCall, AtRequests, Executes, Worker
<1>11. CASE FinishProbe(w)
  BY <1>1, <1>11 DEF FinishProbe, Worker
<1>12. CASE CollectDone(w)
  <2> DEFINE before == IF wk[w].pc = "begun" THEN "running" ELSE TaskOf(w).status
             live == wk[w].pc = "begun" \/ run[r].status \in Claimable
             todo == IF before \in {"running", "completed"} /\ live THEN <<Supervisor>> ELSE <<>>
  <2>1. /\ wk[w].pc \in {"begun", "looping"} /\ wk' = [wk EXCEPT ![w].pc = "finish"]
        /\ todo \in TodoRows
        /\ \E row : /\ SameTask(w, row) /\ TaskStep(w, row, todo)
                    /\ row.status = IF before = "running" THEN "completed" ELSE before
    BY <1>12, CollectTask
  <2>2. PICK row : /\ SameTask(w, row) /\ TaskStep(w, row, todo)
                   /\ row.status = IF before = "running" THEN "completed" ELSE before
    BY <2>1
  <2>3. run' = IF wk[w].pc = "begun"
               THEN [run EXCEPT ![r].status = Begun(w), ![r].started = TRUE] ELSE run
    BY <1>12 DEF CollectDone
  <2>4. /\ run[r].started => run'[r].started
        /\ wk[w].pc = "looping" => run' = run
    BY <1>1, <2>1, <2>3 DEF RunRecord
  <2>5. run[r].status \in Claimable => TaskOf(w).status # "cancelled"
    BY <1>1, <2>1 DEF Attended, RowAtHand
  <2>6. wk'[w].pc = "finish"
    BY <1>1, <2>1 DEF Worker
  <2>7. row.status \notin {"running", "waiting_human"}
    BY <1>2, <2>2
  <2>8. run'[r].status \in Claimable => row.status = "ready" \/ Len(todo) > 0
    <3>1. CASE before = "running" /\ live
      BY <1>3, <3>1
    <3>2. CASE before = "running" /\ ~live
      BY <2>1, <2>4, <3>2
    <3>3. CASE before # "running"
      <4>1. wk[w].pc = "looping" /\ before = TaskOf(w).status
        BY <2>1, <3>3
      <4> QED BY <1>2, <2>2, <2>4, <2>5, <3>3, <4>1
    <3> QED BY <3>1, <3>2, <3>3
  <2> HIDE DEF todo, before, live
  <2> QED BY <2>1, <2>2, <2>4, <2>6, <2>7, <2>8
<1>13. CASE Exhaust(w) \/ FailTask(w)
  <2>1. PICK row : /\ SameTask(w, row) /\ TaskStep(w, row, <<>>) /\ <<>> \in TodoRows
                   /\ \/ row.status = "failed" /\ run'[r].status \in {"failed", "budget_exhausted"}
                      \/ row.status = "ready" /\ run' = run
    BY <1>13, HandlerTask
  <2>2. wk'[w].pc = "finish"
    BY <1>1, <1>13, HandlerTask DEF Worker
  <2>3. \E s : run' = [run EXCEPT ![r].status = s]
    BY <1>13 DEF Exhaust, FailTask
  <2>4. run[r].started => run'[r].started
    BY <1>1, <2>3 DEF RunRecord
  <2>5. row.status = "failed" => run'[r].status \notin Claimable
    BY <2>1 DEF Claimable
  <2> QED BY <2>1, <2>2, <2>4, <2>5
<1> QED BY <1>5, <1>6, <1>7, <1>8, <1>9, <1>10, <1>11, <1>12, <1>13 DEF Acts, Collection, Commits, CommitsCall

LEMMA Beyond ==
  ASSUME NEW n \in Nat, NEW k \in Nat, NEW t \in 1 .. (n + k), t \notin 1 .. n
  PROVE  t - n \in 1 .. k /\ n + (t - n) = t
  OBVIOUS

(* A step of a worker on the run it holds. *)
LEMMA ActingAttended ==
  ASSUME RowsInv, LeaseInv, Attended, NEW w \in Workers, Acts(w)
  PROVE  Attended'
<1> DEFINE r == wk[w].run
<1>1. /\ wk[w].pc \in {"claimed", "begun", "looping", "probing"} /\ r \in Runs
      /\ wk'[w].pc # "idle" /\ wk'[w].run = r /\ wk'[w].task = wk[w].task
      /\ \A v \in Workers : v # w => wk'[v] = wk[v]
      /\ \A q \in Runs : q # r => run'[q] = run[q] /\ tasks'[q] = tasks[q]
      /\ run'[r].lease = run[r].lease
      /\ env'["stall"] = env["stall"]
      /\ wk[w].task \in DOMAIN tasks[r]
  BY ActingStep, Held
<1> SUFFICES ASSUME Calm PROVE RowAtHand' /\ NoneParked' /\ RunningHeld' /\ GoesOn'
  BY <1>1 DEF Attended, Calm
<1>2. RowAtHand /\ NoneParked /\ RunningHeld /\ GoesOn
  BY DEF Attended
<1>3. \A v \in Workers, q \in Runs : WorksOn(v, q)' = WorksOn(v, q)
  BY <1>1 DEF WorksOn
<1>4. WorksOn(w, r) /\ \A v \in Workers : WorksOn(v, r) => v = w
  BY <1>1 DEF LeaseInv, LeaseHeld, Calm, NeverParked, WorksOn
<1>5. \A t \in DOMAIN tasks[r] : tasks[r][t].status = "running" =>
        t = wk[w].task /\ wk[w].pc \in {"probing", "looping"}
  BY <1>1, <1>4, OwnRunning
<1>6. run[r].started => run'[r].started
  BY ActingRows
(* The other workers and the other runs are as they were. *)
<1>7. ASSUME NEW v \in Workers, v # w, wk'[v].pc \notin {"idle", "finish"}
      PROVE  /\ TaskOf(v)' = TaskOf(v) /\ wk'[v] = wk[v] /\ wk[v].run \in Runs /\ wk[v].run # r
  <2>1. wk'[v] = wk[v] /\ wk[v].run \in Runs
    BY <1>1, <1>7, Held
  <2>2. wk[v].run # r
    BY <1>4, <1>7, <2>1 DEF WorksOn
  <2> QED BY <1>1, <2>1, <2>2 DEF TaskOf
<1>8. ASSUME wk'[w].pc \notin {"idle", "finish"} =>
               /\ TaskOf(w)'.status \in {"ready", "running", "cancelled"}
               /\ wk'[w].pc \notin {"probing", "looping"} => TaskOf(w)'.status # "running"
               /\ run'[r].status \in Claimable => TaskOf(w)'.status # "cancelled",
             \A t \in DOMAIN tasks'[r] :
               /\ tasks'[r][t].status # "waiting_human"
               /\ tasks'[r][t].status = "running" =>
                    run'[r].started /\ t = wk[w].task /\ wk'[w].pc \in {"probing", "looping"},
             run'[r].status \in Claimable =>
               \E t \in DOMAIN tasks'[r] : tasks'[r][t].status \in {"ready", "running"}
      PROVE  RowAtHand' /\ NoneParked' /\ RunningHeld' /\ GoesOn'
  <2>1. RowAtHand'
    <3> SUFFICES ASSUME NEW v \in Workers, wk'[v].pc \notin {"idle", "finish"}
                 PROVE  /\ TaskOf(v)'.status \in {"ready", "running", "cancelled"}
                        /\ wk'[v].pc \notin {"probing", "looping"} => TaskOf(v)'.status # "running"
                        /\ run'[wk'[v].run].status \in Claimable => TaskOf(v)'.status # "cancelled"
      BY DEF RowAtHand
    <3>1. CASE v = w
      BY <1>1, <1>8, <3>1
    <3>2. CASE v # w
      BY <1>1, <1>2, <1>7, <3>2 DEF RowAtHand
    <3> QED BY <3>1, <3>2
  <2>2. NoneParked'
    BY <1>1, <1>2, <1>8 DEF NoneParked
  <2>3. RunningHeld'
    <3> SUFFICES ASSUME NEW q \in Runs, NEW t \in DOMAIN tasks'[q], tasks'[q][t].status = "running"
                 PROVE  /\ run'[q].started
                        /\ \/ \E v \in Workers : /\ WorksOn(v, q)' /\ wk'[v].task = t
                                                 /\ wk'[v].pc \in {"probing", "looping"}
                           \/ run'[q].lease # "free" /\ \A v \in Workers : ~WorksOn(v, q)'
      BY DEF RunningHeld
    <3>1. CASE q = r
      BY <1>1, <1>3, <1>4, <1>8, <3>1
    <3>2. CASE q # r
      <4>1. /\ run[q].started
            /\ \/ \E v \in Workers : /\ WorksOn(v, q) /\ wk[v].task = t
                                     /\ wk[v].pc \in {"probing", "looping"}
               \/ run[q].lease # "free" /\ \A v \in Workers : ~WorksOn(v, q)
        BY <1>1, <1>2, <3>2 DEF RunningHeld
      <4>2. \A v \in Workers : WorksOn(v, q) => v # w
        BY <3>2 DEF WorksOn
      <4> QED BY <1>1, <1>3, <3>2, <4>1, <4>2
    <3> QED BY <3>1, <3>2
  <2>4. GoesOn'
    <3> SUFFICES ASSUME NEW q \in Runs, run'[q].status \in Claimable
                 PROVE  \E t \in DOMAIN tasks'[q] : tasks'[q][t].status \in {"ready", "running"}
      BY DEF GoesOn
    <3>1. CASE q = r
      BY <1>8, <3>1
    <3>2. CASE q # r
      BY <1>1, <1>2, <3>2 DEF GoesOn
    <3> QED BY <3>1, <3>2
  <2> QED BY <2>1, <2>2, <2>3, <2>4
<1>9. CASE /\ UNCHANGED <<run, tasks>>
           /\ \/ wk[w].pc = "claimed" /\ wk'[w].pc = "begun"
              \/ wk[w].pc = "begun" /\ wk'[w].pc \in {"hung", "looping"}
              \/ wk[w].pc \in {"probing", "looping"} /\ wk'[w].pc = "looping"
  <2>1. TaskOf(w)' = TaskOf(w)
    BY <1>1, <1>9 DEF TaskOf
  <2>2. /\ TaskOf(w).status \in {"ready", "running", "cancelled"}
        /\ wk[w].pc \notin {"probing", "looping"} => TaskOf(w).status # "running"
        /\ run[r].status \in Claimable => TaskOf(w).status # "cancelled"
    BY <1>1, <1>2 DEF RowAtHand
  <2>3. wk'[w].pc \notin {"probing", "looping"} => wk[w].pc \notin {"probing", "looping"}
    BY <1>9
  <2>4. wk[w].pc \in {"probing", "looping"} => wk'[w].pc \in {"probing", "looping"}
    BY <1>9
  <2>5. \A t \in DOMAIN tasks[r] :
          /\ tasks[r][t].status # "waiting_human"
          /\ tasks[r][t].status = "running" => run[r].started
    BY <1>1, <1>2 DEF NoneParked, RunningHeld
  <2>6. run[r].status \in Claimable =>
          \E t \in DOMAIN tasks[r] : tasks[r][t].status \in {"ready", "running"}
    BY <1>1, <1>2 DEF GoesOn
  <2> QED BY <1>5, <1>8, <1>9, <2>1, <2>2, <2>3, <2>4, <2>5, <2>6
<1>10. ASSUME NEW row, NEW todo, SameTask(w, row), todo \in TodoRows, TaskStep(w, row, todo),
              row.status # "waiting_human",
              \/ /\ wk'[w].pc \in {"probing", "looping"} /\ wk[w].pc = "begun"
                 /\ row.status = "running" /\ run'[r].started
              \/ /\ wk'[w].pc \in {"probing", "looping"} /\ wk[w].pc = "looping"
                 /\ row.status = TaskOf(w).status /\ run' = run
              \/ /\ wk'[w].pc = "finish" /\ row.status # "running"
                 /\ run'[r].status \in Claimable =>
                      \/ row.status = "ready"
                      \/ Len(todo) > 0
                      \/ \E t \in DOMAIN tasks[r] : t # wk[w].task /\ tasks[r][t].status = "ready"
       PROVE  RowAtHand' /\ NoneParked' /\ RunningHeld' /\ GoesOn'
  <2> DEFINE n == Len(tasks[r])
             me == wk[w].task
  <2>1. /\ n \in Nat /\ Len(todo) \in Nat /\ DOMAIN tasks[r] = 1 .. n /\ me \in 1 .. n
        /\ DOMAIN tasks'[r] = 1 .. (n + Len(todo))
        /\ tasks'[r][me] = row
        /\ \A t \in 1 .. n : t # me => tasks'[r][t] = tasks[r][t]
        /\ \A i \in 1 .. Len(todo) : tasks'[r][n + i] = Fresh(todo[i], n)
    BY <1>1, <1>10, TaskStepRows
  <2>2. TaskOf(w)' = row /\ TaskOf(w) = tasks[r][me]
    BY <1>1, <2>1 DEF TaskOf
  <2>3. ASSUME NEW t \in DOMAIN tasks'[r], t \notin 1 .. n
        PROVE  tasks'[r][t].status = "ready"
    <3>0. t \in 1 .. (n + Len(todo)) /\ n \in Nat /\ Len(todo) \in Nat
      BY <2>1
    <3>1. t - n \in 1 .. Len(todo) /\ n + (t - n) = t
      BY <2>3, <3>0, Beyond
    <3>2. tasks'[r][t] = Fresh(todo[t - n], n)
      BY <2>1, <3>1
    <3> QED BY <3>2 DEF Fresh
  <2>4. /\ TaskOf(w).status \in {"ready", "running", "cancelled"}
        /\ wk[w].pc \notin {"probing", "looping"} => TaskOf(w).status # "running"
        /\ run[r].status \in Claimable => TaskOf(w).status # "cancelled"
    BY <1>1, <1>2 DEF RowAtHand
  <2>5. row.status = "running" => run'[r].started /\ wk'[w].pc \in {"probing", "looping"}
    <3>1. TaskOf(w).status = "running" => run[r].started
      BY <1>1, <1>2, <2>2 DEF RunningHeld
    <3> QED BY <1>6, <1>10, <3>1
  <2>6. ASSUME NEW t \in DOMAIN tasks'[r]
        PROVE  /\ tasks'[r][t].status # "waiting_human"
               /\ tasks'[r][t].status = "running" =>
                    run'[r].started /\ t = wk[w].task /\ wk'[w].pc \in {"probing", "looping"}
    <3>1. CASE t = me
      BY <1>10, <2>1, <2>5, <3>1
    <3>2. CASE t \in 1 .. n /\ t # me
      <4>1. tasks'[r][t] = tasks[r][t] /\ t \in DOMAIN tasks[r]
        BY <2>1, <3>2
      <4>2. tasks[r][t].status # "waiting_human"
        BY <1>1, <1>2, <4>1 DEF NoneParked
      <4> QED BY <1>5, <3>2, <4>1, <4>2
    <3>3. CASE t \notin 1 .. n
      BY <2>3, <3>3
    <3> QED BY <3>1, <3>2, <3>3
  <2>7. wk'[w].pc \notin {"idle", "finish"} =>
          /\ TaskOf(w)'.status \in {"ready", "running", "cancelled"}
          /\ wk'[w].pc \notin {"probing", "looping"} => TaskOf(w)'.status # "running"
          /\ run'[r].status \in Claimable => TaskOf(w)'.status # "cancelled"
    BY <1>10, <2>2, <2>4
  <2>8. ASSUME run'[r].status \in Claimable
        PROVE  \E t \in DOMAIN tasks'[r] : tasks'[r][t].status \in {"ready", "running"}
    <3>1. me \in DOMAIN tasks'[r]
      BY <2>1
    <3>2. CASE row.status \in {"ready", "running"}
      BY <2>1, <3>1, <3>2
    <3>3. CASE Len(todo) > 0
      <4>1. n + 1 \in 1 .. (n + Len(todo)) /\ n + 1 \notin 1 .. n
        BY <2>1, <3>3
      <4>2. n + 1 \in DOMAIN tasks'[r]
        BY <2>1, <4>1
      <4> QED BY <2>3, <4>1, <4>2
    <3>4. ASSUME NEW t \in DOMAIN tasks[r], t # me, tasks[r][t].status = "ready"
          PROVE  \E s \in DOMAIN tasks'[r] : tasks'[r][s].status \in {"ready", "running"}
      <4>1. t \in DOMAIN tasks'[r] /\ tasks'[r][t] = tasks[r][t]
        BY <2>1, <3>4
      <4> QED BY <3>4, <4>1
    <3>5. row.status \in {"ready", "running"} \/ Len(todo) > 0
          \/ \E t \in DOMAIN tasks[r] : t # me /\ tasks[r][t].status = "ready"
      BY <1>10, <2>4, <2>8
    <3> QED BY <3>2, <3>3, <3>4, <3>5
  <2> QED BY <1>8, <2>6, <2>7, <2>8
<1> QED BY <1>9, <1>10, ActingRows

(* Nobody is left on the run that the poll looks at, so its running tasks are
   those of a dead worker and are ready again. *)
LEMMA ClaimAttended ==
  ASSUME RowsInv, LeaseInv, Attended, NEW w \in Workers, Claim(w)
  PROVE  Attended'
<1>1. PICK r \in Runs :
        /\ wk[w].pc = "idle" /\ CanClaim(r)
        /\ tasks' = [tasks EXCEPT ![r] = Recovered(r)]
        /\ \A v \in Workers : v # w => wk'[v] = wk[v]
        /\ \A q \in Runs : q # r => run'[q] = run[q] /\ tasks'[q] = tasks[q]
        /\ run'[r].status = run[r].status /\ run'[r].started = run[r].started
        /\ UNCHANGED env
        /\ \/ /\ wk'[w].pc = "claimed" /\ wk'[w].run = r /\ run'[r].lease = "held"
              /\ wk'[w].task \in Picks(Recovered(r))
           \/ UNCHANGED wk /\ run'[r].lease = "free"
  BY ClaimStep
<1> SUFFICES ASSUME Calm PROVE RowAtHand' /\ NoneParked' /\ RunningHeld' /\ GoesOn'
  BY <1>1 DEF Attended, Calm
<1>2. RowAtHand /\ NoneParked /\ RunningHeld /\ GoesOn
  BY DEF Attended
<1>3. \A v \in Workers : ~WorksOn(v, r)
  BY <1>1, ClaimedAlone DEF Calm, NeverParked
<1>4. /\ tasks'[r] = Recovered(r) /\ DOMAIN Recovered(r) = DOMAIN tasks[r]
      /\ \A t \in DOMAIN tasks[r] :
           Recovered(r)[t].status =
             IF run[r].lease = "expired" /\ run[r].started /\ tasks[r][t].status = "running"
             THEN "ready" ELSE tasks[r][t].status
  BY <1>1, RecoveredRows DEF RowsInv, TypeOK
<1>5. \A t \in DOMAIN tasks[r] : tasks[r][t].status = "running" =>
        run[r].lease = "expired" /\ run[r].started
  <2>1. run[r].lease \in {"free", "held", "expired"} /\ run[r].lease # "held"
    BY <1>1 DEF RowsInv, TypeOK, RunRecord, CanClaim
  <2> QED BY <1>2, <1>3, <2>1 DEF RunningHeld
<1>6. \A t \in DOMAIN tasks[r] :
        tasks'[r][t].status = IF tasks[r][t].status = "running" THEN "ready" ELSE tasks[r][t].status
  BY <1>4, <1>5
<1>7. DOMAIN tasks'[r] = DOMAIN tasks[r]
  BY <1>4
<1>8. ASSUME NEW v \in Workers, wk'[v].pc \notin {"idle", "finish"}, wk'[v] = wk[v]
      PROVE  TaskOf(v)' = TaskOf(v) /\ wk[v].run \in Runs /\ wk[v].run # r
  <2>1. wk[v].run \in Runs
    BY <1>8, Held
  <2>2. wk[v].run # r
    BY <1>3, <1>8 DEF WorksOn
  <2> QED BY <1>1, <1>8, <2>1, <2>2 DEF TaskOf
<1>9. RowAtHand'
  <2> SUFFICES ASSUME NEW v \in Workers, wk'[v].pc \notin {"idle", "finish"}
               PROVE  /\ TaskOf(v)'.status \in {"ready", "running", "cancelled"}
                      /\ wk'[v].pc \notin {"probing", "looping"} => TaskOf(v)'.status # "running"
                      /\ run'[wk'[v].run].status \in Claimable => TaskOf(v)'.status # "cancelled"
    BY DEF RowAtHand
  <2>1. CASE wk'[v] = wk[v]
    BY <1>1, <1>2, <1>8, <2>1 DEF RowAtHand
  <2>2. CASE wk'[v] # wk[v]
    <3>1. v = w /\ wk'[w].pc = "claimed" /\ wk'[w].run = r /\ wk'[w].task \in Picks(Recovered(r))
      BY <1>1, <2>2
    <3>2. TaskOf(v)' = Recovered(r)[wk'[w].task] /\ Recovered(r)[wk'[w].task].status = "ready"
      BY <1>4, <3>1 DEF TaskOf, Picks
    <3> QED BY <3>2
  <2> QED BY <2>1, <2>2
<1>10. NoneParked'
  <2> SUFFICES ASSUME NEW q \in Runs, NEW t \in DOMAIN tasks'[q] PROVE tasks'[q][t].status # "waiting_human"
    BY DEF NoneParked
  <2>1. CASE q = r
    BY <1>2, <1>6, <1>7, <2>1 DEF NoneParked
  <2>2. CASE q # r
    BY <1>1, <1>2, <2>2 DEF NoneParked
  <2> QED BY <2>1, <2>2
<1>11. RunningHeld'
  <2> SUFFICES ASSUME NEW q \in Runs, NEW t \in DOMAIN tasks'[q], tasks'[q][t].status = "running"
               PROVE  /\ run'[q].started
                      /\ \/ \E v \in Workers : /\ WorksOn(v, q)' /\ wk'[v].task = t
                                               /\ wk'[v].pc \in {"probing", "looping"}
                         \/ run'[q].lease # "free" /\ \A v \in Workers : ~WorksOn(v, q)'
    BY DEF RunningHeld
  <2>1. q # r
    BY <1>6, <1>7
  <2>2. /\ run[q].started
        /\ \/ \E v \in Workers : /\ WorksOn(v, q) /\ wk[v].task = t
                                 /\ wk[v].pc \in {"probing", "looping"}
           \/ run[q].lease # "free" /\ \A v \in Workers : ~WorksOn(v, q)
    BY <1>1, <1>2, <2>1 DEF RunningHeld
  <2>3. \A v \in Workers : (WorksOn(v, q)' = WorksOn(v, q)) /\ (WorksOn(v, q) => wk'[v] = wk[v])
    BY <1>1, <2>1 DEF WorksOn
  <2> QED BY <1>1, <2>1, <2>2, <2>3
<1>12. GoesOn'
  <2> SUFFICES ASSUME NEW q \in Runs, run'[q].status \in Claimable
               PROVE  \E t \in DOMAIN tasks'[q] : tasks'[q][t].status \in {"ready", "running"}
    BY DEF GoesOn
  <2>1. PICK t \in DOMAIN tasks[q] : tasks[q][t].status \in {"ready", "running"}
    BY <1>1, <1>2 DEF GoesOn
  <2>2. CASE q = r
    BY <1>6, <1>7, <2>1, <2>2
  <2>3. CASE q # r
    BY <1>1, <2>1, <2>3
  <2> QED BY <2>2, <2>3
<1> QED BY <1>9, <1>10, <1>11, <1>12

(* Leaving a run, in order or not. *)
LEMMA LeavingAttended ==
  ASSUME RowsInv, LeaseInv, Attended, NEW w \in Workers, Release(w) \/ Stops(w)
  PROVE  Attended'
<1> DEFINE r == wk[w].run
<1>1. /\ wk'[w].pc = "idle" /\ \A v \in Workers : v # w => wk'[v] = wk[v]
      /\ UNCHANGED tasks /\ env'["stall"] = env["stall"]
      /\ wk[w].pc # "idle"
      /\ \A q \in Runs : run'[q].status = run[q].status /\ run'[q].started = run[q].started
      /\ \A q \in Runs : run'[q].lease # run[q].lease => q = r /\ wk[w].pc = "finish"
  <2>1. CASE Release(w)
    BY <2>1, ReleaseStep
  <2>2. CASE Stops(w)
    <3>1. wk[w].pc # "idle"
      BY <2>2 DEF Stops, BeginRefused, ExhaustEscapes, OverBudget, AtNewCall, AtRequests, Executes, Crash
    <3> QED BY <2>2, <3>1, StoppingStep
  <2> QED BY <2>1, <2>2
<1> SUFFICES ASSUME Calm PROVE RowAtHand' /\ NoneParked' /\ RunningHeld' /\ GoesOn'
  BY <1>1 DEF Attended, Calm
<1>2. RowAtHand /\ NoneParked /\ RunningHeld /\ GoesOn
  BY DEF Attended
<1>3. r \in Runs /\ WorksOn(w, r)
  BY <1>1, Held DEF WorksOn
<1>4. RowAtHand'
  <2> SUFFICES ASSUME NEW v \in Workers, wk'[v].pc \notin {"idle", "finish"}
               PROVE  /\ TaskOf(v)'.status \in {"ready", "running", "cancelled"}
                      /\ wk'[v].pc \notin {"probing", "looping"} => TaskOf(v)'.status # "running"
                      /\ run'[wk'[v].run].status \in Claimable => TaskOf(v)'.status # "cancelled"
    BY DEF RowAtHand
  <2>1. wk'[v] = wk[v] /\ wk[v].run \in Runs
    BY <1>1, Held
  <2>2. TaskOf(v)' = TaskOf(v)
    BY <1>1, <2>1 DEF TaskOf
  <2> QED BY <1>1, <1>2, <2>1, <2>2 DEF RowAtHand
<1>5. NoneParked'
  BY <1>1, <1>2 DEF NoneParked
<1>6. RunningHeld'
  <2> SUFFICES ASSUME NEW q \in Runs, NEW t \in DOMAIN tasks[q], tasks[q][t].status = "running"
               PROVE  /\ run'[q].started
                      /\ \/ \E v \in Workers : /\ WorksOn(v, q)' /\ wk'[v].task = t
                                               /\ wk'[v].pc \in {"probing", "looping"}
                         \/ run'[q].lease # "free" /\ \A v \in Workers : ~WorksOn(v, q)'
    BY <1>1 DEF RunningHeld
  <2>1. /\ run[q].started
        /\ \/ \E v \in Workers : /\ WorksOn(v, q) /\ wk[v].task = t
                                 /\ wk[v].pc \in {"probing", "looping"}
           \/ run[q].lease # "free" /\ \A v \in Workers : ~WorksOn(v, q)
    BY <1>2 DEF RunningHeld
  <2>2. CASE q = r
    <3>1. t = wk[w].task /\ wk[w].pc \in {"probing", "looping"}
      BY <1>3, <2>2, OwnRunning
    <3>2. \A v \in Workers : WorksOn(v, q) => v = w
      BY <1>3, <2>2 DEF LeaseInv, LeaseHeld, Calm, NeverParked
    <3>3. \A v \in Workers : ~WorksOn(v, q)'
      BY <1>1, <3>2 DEF WorksOn
    <3>4. run[q].lease = "held"
      BY <1>3, <2>2, <3>1 DEF LeaseInv, LeaseHeld, Calm, NeverParked
    <3> QED BY <1>1, <2>1, <3>1, <3>3, <3>4
  <2>3. CASE q # r
    <3>1. \A v \in Workers : (WorksOn(v, q)' = WorksOn(v, q)) /\ (WorksOn(v, q) => wk'[v] = wk[v])
      BY <1>1, <2>3 DEF WorksOn
    <3> QED BY <1>1, <2>1, <2>3, <3>1
  <2> QED BY <2>2, <2>3
<1>7. GoesOn'
  BY <1>1, <1>2 DEF GoesOn
<1> QED BY <1>4, <1>5, <1>6, <1>7

(* A new run has its first task; a superseded one is out of the workers' sight
   with everything it had open. *)
LEMMA EnqueueAttended ==
  ASSUME RowsInv, LeaseInv, Attended, NEW r \in Runs, Enqueue(r)
  PROVE  Attended'
<1>1. PICK cred \in CredStart :
        run' = [q \in Runs |->
                  IF q = r THEN [run[r] EXCEPT !.status = "queued", !.cred = cred]
                  ELSE IF q \in Superseded THEN [run[q] EXCEPT !.status = "cancelled"] ELSE run[q]]
  BY DEF Enqueue
<1>2. run[r].status = "absent" /\ UNCHANGED <<wk, env>> /\ run \in [Runs -> RunRecord]
  BY DEF Enqueue, RowsInv, TypeOK
<1>3. \A q \in Runs : q # r =>
        /\ run'[q].lease = run[q].lease /\ run'[q].started = run[q].started
        /\ run'[q].status = IF q \in Superseded THEN "cancelled" ELSE run[q].status
  BY <1>1, <1>2 DEF RunRecord
<1>4. /\ DOMAIN tasks'[r] = {1} /\ tasks'[r][1].status = "ready"
      /\ \A q \in Runs : q # r =>
           /\ DOMAIN tasks'[q] = DOMAIN tasks[q]
           /\ \A t \in DOMAIN tasks[q] :
                tasks'[q][t].status = IF q \in Superseded /\ tasks[q][t].status \in ActiveTask
                                      THEN "cancelled" ELSE tasks[q][t].status
  BY EnqueuedRows DEF Fresh
<1>5. \A v \in Workers, q \in Runs : WorksOn(v, q)' = WorksOn(v, q)
  BY ApiStep
<1>6. \A v \in Workers : ~WorksOn(v, r)
  BY <1>2, NobodyOnAbsent
<1> SUFFICES ASSUME Calm PROVE RowAtHand' /\ NoneParked' /\ RunningHeld' /\ GoesOn'
  BY <1>2 DEF Attended, Calm
<1>7. RowAtHand /\ NoneParked /\ RunningHeld /\ GoesOn
  BY DEF Attended
<1>8. \A q \in Runs : q \in Superseded => run'[q].status \notin Claimable
  BY <1>2, <1>3 DEF Superseded, ActiveRun, Claimable
<1>9. RowAtHand'
  <2> SUFFICES ASSUME NEW v \in Workers, wk[v].pc \notin {"idle", "finish"}
               PROVE  /\ TaskOf(v)'.status \in {"ready", "running", "cancelled"}
                      /\ wk[v].pc \notin {"probing", "looping"} => TaskOf(v)'.status # "running"
                      /\ run'[wk[v].run].status \in Claimable => TaskOf(v)'.status # "cancelled"
    BY <1>2 DEF RowAtHand
  <2> DEFINE q == wk[v].run
             t == wk[v].task
  <2>1. q \in Runs /\ t \in DOMAIN tasks[q] /\ q # r
    BY <1>6, Held DEF WorksOn
  <2>2. TaskOf(v)' = tasks'[q][t] /\ TaskOf(v) = tasks[q][t]
    BY <1>2 DEF TaskOf
  <2>3. /\ tasks[q][t].status \in {"ready", "running", "cancelled"}
        /\ wk[v].pc \notin {"probing", "looping"} => tasks[q][t].status # "running"
        /\ run[q].status \in Claimable => tasks[q][t].status # "cancelled"
    BY <1>7, <2>2 DEF RowAtHand
  <2>4. tasks'[q][t].status = IF q \in Superseded /\ tasks[q][t].status \in ActiveTask
                              THEN "cancelled" ELSE tasks[q][t].status
    BY <1>4, <2>1
  <2>5. CASE q \in Superseded
    BY <1>8, <2>1, <2>2, <2>3, <2>4, <2>5
  <2>6. CASE q \notin Superseded
    BY <1>3, <2>1, <2>2, <2>3, <2>4, <2>6
  <2> QED BY <2>5, <2>6
<1>10. NoneParked'
  <2> SUFFICES ASSUME NEW q \in Runs, NEW t \in DOMAIN tasks'[q] PROVE tasks'[q][t].status # "waiting_human"
    BY DEF NoneParked
  <2>1. CASE q = r
    BY <1>4, <2>1
  <2>2. CASE q # r
    BY <1>4, <1>7, <2>2 DEF NoneParked
  <2> QED BY <2>1, <2>2
<1>11. RunningHeld'
  <2> SUFFICES ASSUME NEW q \in Runs, NEW t \in DOMAIN tasks'[q], tasks'[q][t].status = "running"
               PROVE  /\ run'[q].started
                      /\ \/ \E v \in Workers : /\ WorksOn(v, q) /\ wk[v].task = t
                                               /\ wk[v].pc \in {"probing", "looping"}
                         \/ run'[q].lease # "free" /\ \A v \in Workers : ~WorksOn(v, q)
    BY <1>2, <1>5 DEF RunningHeld
  <2>1. q # r
    BY <1>4
  <2>2. t \in DOMAIN tasks[q] /\ tasks[q][t].status = "running"
    BY <1>4, <2>1
  <2> QED BY <1>3, <1>7, <2>1, <2>2 DEF RunningHeld
<1>12. GoesOn'
  <2> SUFFICES ASSUME NEW q \in Runs, run'[q].status \in Claimable
               PROVE  \E t \in DOMAIN tasks'[q] : tasks'[q][t].status \in {"ready", "running"}
    BY DEF GoesOn
  <2>1. CASE q = r
    BY <1>4, <2>1
  <2>2. CASE q # r
    <3>1. q \notin Superseded /\ run[q].status \in Claimable
      BY <1>3, <1>8, <2>2
    <3> QED BY <1>4, <1>7, <2>2, <3>1 DEF GoesOn
  <2> QED BY <2>1, <2>2
<1> QED BY <1>9, <1>10, <1>11, <1>12

LEMMA TimeAttended ==
  ASSUME RowsInv, LeaseInv, Attended, NEW r \in Runs, ResumeHuman(r) \/ LeaseExpire(r) \/ Elapse(r)
  PROVE  Attended'
<1>1. CASE ResumeHuman(r)
  <2>1. UNCHANGED env /\ ~run[r].cred /\ run[r].status # "absent"
    BY <1>1 DEF ResumeHuman, LeaseInv, GateHeld
  <2>2. ~Calm'
    BY <2>1 DEF LeaseInv, CredKnown, Calm
  <2> QED BY <2>2 DEF Attended
<1>2. CASE LeaseExpire(r) \/ Elapse(r)
  <2>1. UNCHANGED <<wk, tasks>> /\ run \in [Runs -> RunRecord] /\ env \in [EnvKinds -> Nat]
    BY <1>2 DEF LeaseExpire, Elapse, RowsInv, TypeOK
  <2>2. /\ \A q \in Runs : run'[q].status = run[q].status /\ run'[q].started = run[q].started
        /\ \A q \in Runs : run'[q].lease = run[q].lease \/ run'[q].lease = "expired"
    BY <1>2, <2>1 DEF LeaseExpire, Elapse, RunRecord
  <2>3. env'["stall"] = 0 => env["stall"] = 0
    BY <1>2, <2>1 DEF LeaseExpire, Elapse, Happens, EnvKinds
  <2> SUFFICES ASSUME Calm PROVE RowAtHand' /\ NoneParked' /\ RunningHeld' /\ GoesOn'
    BY <2>3 DEF Attended, Calm
  <2>4. RowAtHand /\ NoneParked /\ RunningHeld /\ GoesOn
    BY DEF Attended
  <2>5. \A v \in Workers, q \in Runs : WorksOn(v, q)' = WorksOn(v, q)
    BY <2>1 DEF WorksOn
  <2>6. RowAtHand'
    <3>1. \A v \in Workers : wk[v].pc # "idle" => wk[v].run \in Runs
      BY Held
    <3> QED BY <2>1, <2>2, <2>4, <3>1 DEF RowAtHand, TaskOf
  <2>7. RunningHeld'
    BY <2>1, <2>2, <2>4, <2>5 DEF RunningHeld
  <2> QED BY <2>1, <2>2, <2>4, <2>6, <2>7 DEF NoneParked, GoesOn
<1> QED BY <1>1, <1>2

LEMMA AttendedStep ==
  ASSUME RowsInv, LeaseInv, Attended, [Next]_vars
  PROVE  Attended'
<1>1. CASE \E r \in Runs : Enqueue(r) \/ ResumeHuman(r) \/ LeaseExpire(r) \/ Elapse(r)
  BY <1>1, EnqueueAttended, TimeAttended
<1>2. CASE \E w \in Workers : Claim(w) \/ Release(w) \/ Acts(w) \/ Stops(w)
  BY <1>2, ClaimAttended, LeavingAttended, ActingAttended
<1>3. CASE UNCHANGED <<run, tasks, wk, used>> /\ (OtherProbe \/ PlanPipelineMove \/ UNCHANGED env)
  <2>1. env \in [EnvKinds -> Nat]
    BY DEF RowsInv, TypeOK
  <2>2. env'["stall"] = env["stall"]
    BY <1>3, <2>1 DEF OtherProbe, PlanPipelineMove, Happens, EnvKinds
  <2> QED BY <1>3, <2>2 DEF Attended, Calm, RowAtHand, NoneParked, RunningHeld, GoesOn, TaskOf, WorksOn
<1> QED BY <1>1, <1>2, <1>3, StepCases

LEMMA AttendedInit ==
  ASSUME Init
  PROVE  Attended
<1>1. \A w \in Workers : wk[w].pc = "idle"
  BY DEF Init, IdleWorker
<1>2. \A r \in Runs : run[r].status = "absent" /\ DOMAIN tasks[r] = {}
  BY DEF Init
<1> QED BY <1>1, <1>2 DEF Attended, RowAtHand, NoneParked, RunningHeld, GoesOn, Claimable

(* No run that the workers look for is ever left without a task to go on with:
   whatever crashes, retries, takeovers, hangs and superseding runs there are,
   until a live worker loses its lease. *)
THEOREM RunsGoOn == Spec => [](env["stall"] = 0 /\ FALSE \notin CredStart => NoStrandedRun)
<1>1. Attended => (env["stall"] = 0 /\ FALSE \notin CredStart => NoStrandedRun)
  <2> SUFFICES ASSUME Attended, env["stall"] = 0, FALSE \notin CredStart,
                      NEW r \in Runs, run[r].status \in Claimable
               PROVE  \E t \in DOMAIN tasks[r] :
                        \/ tasks[r][t].status = "ready"
                        \/ /\ tasks[r][t].status = "running"
                           /\ \/ Working(r) # {}
                              \/ run[r].lease # "free" /\ run[r].started
    BY DEF NoStrandedRun
  <2>1. PICK t \in DOMAIN tasks[r] : tasks[r][t].status \in {"ready", "running"}
    BY DEF Attended, Calm, GoesOn
  <2>2. CASE tasks[r][t].status = "running"
    <3>1. /\ run[r].started
          /\ (\E w \in Workers : WorksOn(w, r)) \/ run[r].lease # "free"
      BY <2>2 DEF Attended, Calm, RunningHeld
    <3>2. (\E w \in Workers : WorksOn(w, r)) => Working(r) # {}
      BY DEF Working, WorksOn
    <3> QED BY <2>2, <3>1, <3>2
  <2> QED BY <2>1, <2>2
<1> QED BY <1>1, RowsInvInit, RowsInvStep, LeaseInvInit, LeaseInvStep, AttendedInit, AttendedStep,
           PTL DEF Spec

-----------------------------------------------------------------------------
(* The ledger: the used counters of a run hold what its rows show was done. *)

(* What the budget counts, by run. *)
CompletedRows(r, nodes) ==
  {t \in DOMAIN tasks[r] : tasks[r][t].node \in nodes /\ tasks[r][t].status = "completed"}
FollowUpRows(r) == {t \in DOMAIN tasks[r] : IsRequest(tasks[r][t])}
CallRows(r) == {c \in (DOMAIN tasks[r]) \X Calls : tasks[r][c[1]].calls[c[2]] # "none"}

AgentNodes == {"triage", "historical", "diagnostic", "critic", "plan_candidate", "safety_review"}
Analysts   == {"diagnostic", "critic"}

ReplansPaid == \A r \in Runs : used[r]["replan_count"] = Cardinality(FollowUpRows(r))
CallsPaid   == \A r \in Runs : used[r]["probe_calls"] = Cardinality(CallRows(r))
AgentsPaid  ==
  Calm => \A r \in Runs :
    /\ used[r]["agent_runs"] = Cardinality(CompletedRows(r, AgentNodes))
    /\ used[r]["llm_calls"] = Cardinality(CompletedRows(r, Analysts))

(* Only evidence collection talks to the gateway, and its loop starts at the
   first request. *)
Collecting ==
  \A w \in Workers :
    /\ wk[w].pc \in {"probing", "looping"} => TaskOf(w).node = "evidence_collection"
    /\ wk[w].idx >= 1

LEMMA CountedFinite ==
  ASSUME RowsInv, NEW r \in Runs
  PROVE  /\ \A nodes : IsFiniteSet(CompletedRows(r, nodes))
         /\ IsFiniteSet(FollowUpRows(r)) /\ IsFiniteSet(CallRows(r)) /\ IsFiniteSet(Calls)
<1>1. DOMAIN tasks[r] = 1 .. Len(tasks[r]) /\ Len(tasks[r]) \in Nat
  BY LenProperties DEF RowsInv, AllRowsOK, RowsOK
<1>2. IsFiniteSet(DOMAIN tasks[r]) /\ IsFiniteSet(Calls)
  BY <1>1, FS_Interval, ConstantsAssumption DEF Calls
<1>3. IsFiniteSet((DOMAIN tasks[r]) \X Calls)
  BY <1>2, FS_Product
<1>4. IsFiniteSet(CallRows(r)) /\ IsFiniteSet(FollowUpRows(r))
  BY <1>2, <1>3, FS_Subset DEF CallRows, FollowUpRows
<1>5. \A nodes : IsFiniteSet(CompletedRows(r, nodes))
  BY <1>2, FS_Subset DEF CompletedRows
<1> QED BY <1>2, <1>4, <1>5

(* Rows that differ in nothing the budget counts. *)
CountsAlike(before, after) ==
  /\ after.node = before.node /\ after.round = before.round /\ after.calls = before.calls
  /\ (after.status = "completed") <=> (before.status = "completed")

LEMMA AlikeCounted ==
  ASSUME NEW r \in Runs, DOMAIN tasks'[r] = DOMAIN tasks[r],
         \A t \in DOMAIN tasks[r] : CountsAlike(tasks[r][t], tasks'[r][t])
  PROVE  /\ \A nodes : CompletedRows(r, nodes)' = CompletedRows(r, nodes)
         /\ FollowUpRows(r)' = FollowUpRows(r) /\ CallRows(r)' = CallRows(r)
<1>1. \A nodes : CompletedRows(r, nodes)' = CompletedRows(r, nodes)
  BY DEF CompletedRows, CountsAlike
<1>2. FollowUpRows(r)' = FollowUpRows(r)
  BY DEF FollowUpRows, CountsAlike, IsRequest
<1>3. CallRows(r)' = CallRows(r)
  <2>1. \A c \in (DOMAIN tasks[r]) \X Calls : c[1] \in DOMAIN tasks[r]
    OBVIOUS
  <2> QED BY <2>1 DEF CallRows, CountsAlike
<1> QED BY <1>1, <1>2, <1>3

(* What the step of one task adds to what is counted. *)
LEMMA TaskStepCounted ==
  ASSUME RowsInv, NEW w \in Workers, wk[w].pc # "idle",
         NEW row, SameTask(w, row), NEW todo \in TodoRows, TaskStep(w, row, todo)
  PROVE  LET r == wk[w].run   me == wk[w].task   n == Len(tasks[r]) IN
         /\ r \in Runs
         /\ \A q \in Runs : q # r =>
              /\ \A nodes : CompletedRows(q, nodes)' = CompletedRows(q, nodes)
              /\ FollowUpRows(q)' = FollowUpRows(q) /\ CallRows(q)' = CallRows(q)
         /\ (\A i \in DOMAIN todo : ~IsRequest(todo[i])) =>
              \A q \in Runs : q = r => FollowUpRows(q)' = FollowUpRows(q)
         /\ (Len(todo) = 1 /\ IsRequest(todo[1])) =>
              \A q \in Runs : q = r =>
                n + 1 \notin FollowUpRows(q) /\ FollowUpRows(q)' = FollowUpRows(q) \cup {n + 1}
         /\ \A nodes, q : q = r =>
              CompletedRows(q, nodes)' =
                 (CompletedRows(q, nodes) \ {me})
                   \cup (IF row.node \in nodes /\ row.status = "completed" THEN {me} ELSE {})
         /\ (\A j \in Calls : TaskOf(w).calls[j] # "none" => row.calls[j] # "none") =>
              \A q \in Runs : q = r =>
                CallRows(q)' = CallRows(q) \cup
                  ({me} \X {j \in Calls : TaskOf(w).calls[j] = "none" /\ row.calls[j] # "none"})
<1> DEFINE r == wk[w].run
           me == wk[w].task
           n == Len(tasks[r])
           k == Len(todo)
           old == tasks[r]
           new == tasks'[r]
<1>1. /\ r \in Runs /\ n \in Nat /\ k \in Nat
      /\ DOMAIN old = 1 .. n /\ me \in 1 .. n /\ DOMAIN todo = 1 .. k
      /\ \A q \in Runs : q # r => tasks'[q] = tasks[q]
      /\ DOMAIN new = 1 .. (n + k)
      /\ new[me] = row
      /\ \A t \in 1 .. n : t # me => new[t] = old[t]
      /\ \A i \in 1 .. k : new[n + i] = Fresh(todo[i], n)
  BY TaskStepRows
<1>2. old[me] = TaskOf(w) /\ row.node = old[me].node /\ row.round = old[me].round
  BY DEF SameTask, TaskOf
<1>3. ASSUME NEW q \in Runs, q # r
      PROVE  /\ \A nodes : CompletedRows(q, nodes)' = CompletedRows(q, nodes)
             /\ FollowUpRows(q)' = FollowUpRows(q) /\ CallRows(q)' = CallRows(q)
  <2>1. tasks'[q] = tasks[q]
    BY <1>1, <1>3
  <2> QED BY <2>1, AlikeCounted DEF CountsAlike
<1> HIDE DEF k
<1>4. \A t \in 1 .. (n + k) : t \in 1 .. n \/ \E i \in 1 .. k : t = n + i
  <2> SUFFICES ASSUME NEW t \in 1 .. (n + k), t \notin 1 .. n
               PROVE  \E i \in 1 .. k : t = n + i
    OBVIOUS
  <2>1. t - n \in 1 .. k /\ n + (t - n) = t
    BY <1>1, Beyond
  <2> QED BY <2>1
<1>5. 1 .. n \subseteq 1 .. (n + k) /\ \A i \in 1 .. k : n + i \in 1 .. (n + k) /\ n + i \notin 1 .. n
  BY <1>1
<1> HIDE DEF n, r, me, old, new
<1>6. /\ \A nodes, q : q = r => CompletedRows(q, nodes) = {t \in 1 .. n : old[t].node \in nodes /\ old[t].status = "completed"}
      /\ \A nodes, q : q = r => CompletedRows(q, nodes)' = {t \in 1 .. (n + k) : new[t].node \in nodes /\ new[t].status = "completed"}
      /\ \A q \in Runs : q = r => FollowUpRows(q) = {t \in 1 .. n : IsRequest(old[t])}
      /\ \A q \in Runs : q = r => FollowUpRows(q)' = {t \in 1 .. (n + k) : IsRequest(new[t])}
      /\ \A q \in Runs : q = r => CallRows(q) = {c \in (1 .. n) \X Calls : old[c[1]].calls[c[2]] # "none"}
      /\ \A q \in Runs : q = r => CallRows(q)' = {c \in (1 .. (n + k)) \X Calls : new[c[1]].calls[c[2]] # "none"}
  BY <1>1 DEF CompletedRows, FollowUpRows, CallRows, old, new
<1>7. ASSUME NEW i \in 1 .. k
      PROVE  /\ new[n + i].status = "ready" /\ new[n + i].calls = NoCalls
             /\ IsRequest(new[n + i]) = IsRequest(todo[i])
  <2>1. new[n + i] = Fresh(todo[i], n)
    BY <1>1
  <2>2. /\ Fresh(todo[i], n).status = "ready" /\ Fresh(todo[i], n).calls = NoCalls
        /\ Fresh(todo[i], n).node = todo[i].node /\ Fresh(todo[i], n).round = todo[i].round
    BY DEF Fresh
  <2> QED BY <2>1, <2>2 DEF IsRequest
<1>8. \A t \in 1 .. n : IsRequest(new[t]) = IsRequest(old[t])
  <2> SUFFICES ASSUME NEW t \in 1 .. n PROVE IsRequest(new[t]) = IsRequest(old[t])
    OBVIOUS
  <2>1. CASE t = me
    BY <1>1, <1>2, <2>1 DEF IsRequest
  <2>2. CASE t # me
    BY <1>1, <2>2
  <2> QED BY <2>1, <2>2
<1>9. ASSUME \A i \in DOMAIN todo : ~IsRequest(todo[i]), NEW q \in Runs, q = r
      PROVE  FollowUpRows(q)' = FollowUpRows(q)
  <2>1. \A t \in 1 .. (n + k) : IsRequest(new[t]) => t \in 1 .. n
    BY <1>1, <1>4, <1>7, <1>9, ZenonT(30)
  <2> QED BY <1>5, <1>6, <1>8, <1>9, <2>1
<1>10. ASSUME k = 1, IsRequest(todo[1]), NEW q \in Runs, q = r
       PROVE  n + 1 \notin FollowUpRows(q) /\ FollowUpRows(q)' = FollowUpRows(q) \cup {n + 1}
  <2>1. 1 \in 1 .. k /\ \A i \in 1 .. k : i = 1
    BY <1>10
  <2>2. IsRequest(new[n + 1]) /\ n + 1 \in 1 .. (n + k) /\ n + 1 \notin 1 .. n
    BY <1>5, <1>7, <1>10, <2>1
  <2>3. \A t \in 1 .. (n + k) : t \in 1 .. n \/ t = n + 1
    BY <1>4, <2>1
  <2> QED BY <1>5, <1>6, <1>8, <1>10, <2>2, <2>3
<1>11. ASSUME NEW nodes, NEW q, q = r
       PROVE  CompletedRows(q, nodes)' =
                 (CompletedRows(q, nodes) \ {me})
                   \cup (IF row.node \in nodes /\ row.status = "completed" THEN {me} ELSE {})
  <2>1. \A t \in 1 .. (n + k) : new[t].status = "completed" => t \in 1 .. n
    BY <1>4, <1>7
  <2> QED BY <1>1, <1>5, <1>6, <1>11, <2>1, SMTT(30)
<1>12. ASSUME \A j \in Calls : TaskOf(w).calls[j] # "none" => row.calls[j] # "none",
              NEW q \in Runs, q = r
       PROVE  CallRows(q)' = CallRows(q) \cup
                  ({me} \X {j \in Calls : TaskOf(w).calls[j] = "none" /\ row.calls[j] # "none"})
  <2> DEFINE More == {me} \X {j \in Calls : TaskOf(w).calls[j] = "none" /\ row.calls[j] # "none"}
  <2>1. ASSUME NEW t \in 1 .. (n + k), NEW j \in Calls, new[t].calls[j] # "none"
        PROVE  t \in 1 .. n /\ (<<t, j>> \in More \/ old[t].calls[j] # "none")
    <3>1. t \in 1 .. n
      BY <1>4, <1>7, <2>1 DEF NoCalls
    <3>2. CASE t = me
      BY <1>1, <1>2, <2>1, <3>2
    <3>3. CASE t # me
      BY <1>1, <2>1, <3>1, <3>3
    <3> QED BY <3>1, <3>2, <3>3
  <2>2. ASSUME NEW t \in 1 .. n, NEW j \in Calls, <<t, j>> \in More \/ old[t].calls[j] # "none"
        PROVE  t \in 1 .. (n + k) /\ new[t].calls[j] # "none"
    <3>1. CASE t = me
      BY <1>1, <1>2, <1>5, <1>12, <2>2, <3>1
    <3>2. CASE t # me
      BY <1>1, <1>5, <2>2, <3>2
    <3> QED BY <3>1, <3>2
  <2>3. \A c \in More : c[1] \in 1 .. n /\ c[2] \in Calls /\ c = <<c[1], c[2]>>
    BY <1>1
  <2> DEFINE Before == {c \in (1 .. n) \X Calls : old[c[1]].calls[c[2]] # "none"}
             After == {c \in (1 .. (n + k)) \X Calls : new[c[1]].calls[c[2]] # "none"}
  <2> HIDE DEF More
  <2>4. After \subseteq Before \cup More
    <3> SUFFICES ASSUME NEW c \in After PROVE c \in Before \cup More
      OBVIOUS
    <3>1. c[1] \in 1 .. (n + k) /\ c[2] \in Calls /\ c = <<c[1], c[2]>> /\ new[c[1]].calls[c[2]] # "none"
      OBVIOUS
    <3>2. c[1] \in 1 .. n /\ (<<c[1], c[2]>> \in More \/ old[c[1]].calls[c[2]] # "none")
      BY <2>1, <3>1
    <3>3. c \in (1 .. n) \X Calls
      BY <3>1, <3>2
    <3> QED BY <3>1, <3>2, <3>3
  <2>5. Before \cup More \subseteq After
    <3> SUFFICES ASSUME NEW c \in Before \cup More PROVE c \in After
      OBVIOUS
    <3>1. c[1] \in 1 .. n /\ c[2] \in Calls /\ c = <<c[1], c[2]>>
      BY <2>3
    <3>2. <<c[1], c[2]>> \in More \/ old[c[1]].calls[c[2]] # "none"
      BY <3>1
    <3>3. c[1] \in 1 .. (n + k) /\ new[c[1]].calls[c[2]] # "none"
      BY <2>2, <3>1, <3>2
    <3> QED BY <3>1, <3>3
  <2>6. After = Before \cup More
    BY <2>4, <2>5
  <2> QED BY <1>6, <1>12, <2>6 DEF More
<1> QED BY <1>1, <1>3, <1>9, <1>10, <1>11, <1>12 DEF k, n, r, me

(* A worker's step charges its run, and no other. *)
Adds(w, k, n) ==
  \A q \in Runs : used'[q][k] = IF q = wk[w].run THEN used[q][k] + n ELSE used[q][k]

LEMMA Charging ==
  ASSUME RowsInv, NEW w \in Workers, wk[w].run \in Runs, NEW k \in Resources
  PROVE  /\ UNCHANGED used => Adds(w, k, 0)
         /\ \A S : used' = Charged(wk[w].run, S) => Adds(w, k, IF k \in S THEN 1 ELSE 0)
         /\ \A n, m : used' = [used EXCEPT ![wk[w].run]["probe_calls"] = n] /\ k = "probe_calls"
                      /\ m \in Nat /\ n = used[wk[w].run]["probe_calls"] + m => Adds(w, k, m)
         /\ \A n : used' = [used EXCEPT ![wk[w].run]["probe_calls"] = n] /\ k # "probe_calls" =>
                      Adds(w, k, 0)
<1>1. used \in [Runs -> [Resources -> Nat]]
  BY DEF RowsInv, TypeOK
<1>2. \A q \in Runs : used[q][k] \in Nat
  BY <1>1
<1>3. UNCHANGED used => Adds(w, k, 0)
  BY <1>2 DEF Adds
<1>4. ASSUME NEW S, used' = Charged(wk[w].run, S)
      PROVE  Adds(w, k, IF k \in S THEN 1 ELSE 0)
  <2>1. used' = [used EXCEPT ![wk[w].run] =
                   [j \in Resources |-> IF j \in S THEN used[wk[w].run][j] + 1 ELSE used[wk[w].run][j]]]
    BY <1>4 DEF Charged
  <2>2. /\ used'[wk[w].run][k] = IF k \in S THEN used[wk[w].run][k] + 1 ELSE used[wk[w].run][k]
        /\ \A q \in Runs : q # wk[w].run => used'[q] = used[q]
    BY <1>1, <2>1
  <2> QED BY <1>2, <2>2 DEF Adds
<1>5. \A n, m : used' = [used EXCEPT ![wk[w].run]["probe_calls"] = n] /\ k = "probe_calls"
                /\ m \in Nat /\ n = used[wk[w].run]["probe_calls"] + m => Adds(w, k, m)
  BY <1>1 DEF Adds
<1>6. \A n : used' = [used EXCEPT ![wk[w].run]["probe_calls"] = n] /\ k # "probe_calls" => Adds(w, k, 0)
  BY <1>1, <1>2 DEF Adds
<1> QED BY <1>3, <1>4, <1>5, <1>6

(* What a worker's step pays for. *)
Replanned(w, todo) ==
  \/ (\A i \in DOMAIN todo : ~IsRequest(todo[i])) /\ Adds(w, "replan_count", 0)
  \/ Len(todo) = 1 /\ IsRequest(todo[1]) /\ Adds(w, "replan_count", 1)

NewCalls(w, row) == {j \in Calls : TaskOf(w).calls[j] = "none" /\ row.calls[j] # "none"}

Called(w, row) ==
  /\ \A j \in Calls : TaskOf(w).calls[j] # "none" => row.calls[j] # "none"
  /\ Adds(w, "probe_calls", Cardinality(NewCalls(w, row)))

AgentRan(w, row) ==
  \/ /\ row.status = "completed" /\ row.node \in AgentNodes /\ wk[w].pc = "begun"
     /\ Adds(w, "agent_runs", 1)
     /\ Adds(w, "llm_calls", IF row.node \in Analysts THEN 1 ELSE 0)
  \/ /\ row.status # "completed" \/ row.node \notin AgentNodes
     /\ wk[w].pc \in {"begun", "looping"}
     /\ Adds(w, "agent_runs", 0) /\ Adds(w, "llm_calls", 0)

LEMMA SameCallsAdded ==
  ASSUME RowsInv, NEW w \in Workers, wk[w].run \in Runs, NEW row, row.calls = TaskOf(w).calls,
         Adds(w, "probe_calls", 0)
  PROVE  Called(w, row)
<1>1. NewCalls(w, row) = {}
  BY DEF NewCalls
<1> QED BY <1>1, FS_EmptySet DEF Called

(* The calls that a loop passes over or starts. *)
LEMMA PassedCalls ==
  ASSUME RowsInv, CallsInv, Collecting, NEW w \in Workers, wk[w].pc \in {"begun", "looping"},
         NEW i \in Nat, i <= ProbesPerRequest + 1
  PROVE  /\ Passed(w, i) \subseteq Calls /\ IsFiniteSet(Passed(w, i)) /\ i \notin Passed(w, i)
         /\ Passed(w, i) = {j \in Calls : TaskOf(w).calls[j] = "none" /\ Flushed(w, i)[j] # "none"}
         /\ \A j \in Calls : TaskOf(w).calls[j] # "none" => Flushed(w, i)[j] # "none"
         /\ ProbeCharge(w, i) = used[wk[w].run]["probe_calls"] + Cardinality(Passed(w, i))
<1>1. wk[w].idx \in Nat /\ wk[w].idx >= 1
  BY Held DEF Collecting, Worker
<1>2. /\ \A j \in wk[w].idx .. (i - 1) : j \in Calls /\ j # i
      /\ IsFiniteSet(wk[w].idx .. (i - 1))
  <2>1. IsFiniteSet(wk[w].idx .. (i - 1))
    BY <1>1, FS_Interval, SMTT(30)
  <2>2. \A j \in wk[w].idx .. (i - 1) : j \in Calls /\ j # i
    BY <1>1, ConstantsAssumption DEF Calls
  <2> QED BY <2>1, <2>2
<1>3. Passed(w, i) \subseteq Calls /\ IsFiniteSet(Passed(w, i)) /\ i \notin Passed(w, i)
  BY <1>2, FS_Subset DEF Passed
<1>4. \A j \in Calls : \/ Flushed(w, i)[j] = TaskOf(w).calls[j] /\ ~Owns(w, j)
                       \/ TaskOf(w).calls[j] = "none" /\ Flushed(w, i)[j] = "rejected" /\ j \in Passed(w, i)
                       \/ TaskOf(w).calls[j] = "running" /\ Flushed(w, i)[j] \in Results
  BY FlushedCall
<1>5. \A j \in Passed(w, i) : TaskOf(w).calls[j] = "none" /\ Flushed(w, i)[j] = "rejected"
  BY <1>3 DEF Passed, Flushed
<1> QED BY <1>3, <1>4, <1>5 DEF ProbeCharge, Results

LEMMA NoRequests ==
  /\ \A i \in DOMAIN <<>> : ~IsRequest(<<>>[i])
  /\ \A i \in DOMAIN <<Supervisor>> : ~IsRequest(<<Supervisor>>[i])
  /\ LET todo == <<Todo("triage", 0, 100), Supervisor>> IN \A i \in DOMAIN todo : ~IsRequest(todo[i])
  BY DEF IsRequest, Supervisor, Todo

(* A follow-up task is scheduled by the one decision that is charged for. *)
LEMMA DecisionReplans ==
  ASSUME RowsInv, NEW w \in Workers, wk[w].pc = "begun", NEW fresh \in BOOLEAN,
         used' = Charged(wk[w].run, ReplanCharge(Decide(wk[w].run, fresh)))
  PROVE  LET r == wk[w].run IN Replanned(w, NextTasks(r, Decide(r, fresh)))
<1> DEFINE r == wk[w].run
           d == Decide(r, fresh)
           todo == NextTasks(r, d)
<1>1. r \in Runs /\ RowsOK(tasks[r])
  BY Held
<1>2. "replan_count" \in Resources
  BY DEF Resources
<1>3. CASE d = "collect_requested"
  <2>1. Done(r, "diagnostic") # {}
    BY <1>3 DEF Decide
  <2>2. /\ Len(tasks[r]) \in Nat /\ DOMAIN tasks[r] = 1 .. Len(tasks[r])
        /\ \A t \in 1 .. Len(tasks[r]) : tasks[r][t].round \in Nat /\ tasks[r][t].round <= t
    BY <1>1, RowRounds
  <2>3. Latest(r) \in 1 .. Len(tasks[r])
    BY <1>1, <2>1, <2>2, LatestExists DEF Done
  <2>4. LatestRound(r) \in Nat /\ LatestRound(r) + 1 > 0
    BY <2>2, <2>3 DEF LatestRound
  <2>5. todo = <<Todo("evidence_collection", LatestRound(r) + 1, 80)>>
    BY <1>3 DEF NextTasks
  <2> HIDE DEF todo, d
  <2>6. Len(todo) = 1 /\ todo[1] = Todo("evidence_collection", LatestRound(r) + 1, 80)
    BY <2>5
  <2>7. IsRequest(todo[1])
    BY <2>4, <2>6 DEF IsRequest, Todo
  <2>8. "replan_count" \in ReplanCharge(d)
    BY <1>3 DEF ReplanCharge
  <2>9. Adds(w, "replan_count", 1)
    BY <1>1, <1>2, <2>8, Charging DEF d
  <2>10. Replanned(w, todo)
    BY <2>6, <2>7, <2>9 DEF Replanned
  <2> QED BY <2>10 DEF todo, d
<1>4. CASE d # "collect_requested"
  <2>1. \A i \in DOMAIN todo : ~IsRequest(todo[i])
    <3> HIDE DEF d
    <3>1. CASE d = "collect_initial"
      <4>1. todo = <<Todo("evidence_collection", 0, 100)>>
        BY <3>1 DEF NextTasks
      <4> HIDE DEF todo
      <4> QED BY <4>1 DEF IsRequest, Todo
    <3>2. CASE d = "run_diagnostics"
      <4>1. todo = <<Todo("historical", 0, 90), Todo("diagnostic", 0, 100)>>
        BY <3>2 DEF NextTasks
      <4> HIDE DEF todo
      <4> QED BY <4>1 DEF IsRequest, Todo
    <3>3. CASE d \in {"rerun_diagnostics", "run_critic", "plan", "safety_review"}
      <4>1. PICK n \in Nodes \ {"evidence_collection"} : \E k : todo = OneRow(n, k, 100)
        <5>1. CASE d = "rerun_diagnostics"
          <6>1. todo = OneRow("diagnostic", LatestRound(r) + 1, 100)
            BY <5>1 DEF NextTasks, NextRound, OneRow
          <6> HIDE DEF todo
          <6> QED BY <6>1 DEF Nodes
        <5>2. CASE d = "run_critic"
          <6>1. todo = OneRow("critic", LatestRound(r), 100)
            BY <5>2 DEF NextTasks, OneRow
          <6> HIDE DEF todo
          <6> QED BY <6>1 DEF Nodes
        <5>3. CASE d = "plan"
          <6>1. todo = OneRow("plan_candidate", 0, 100)
            BY <5>3 DEF NextTasks, OneRow
          <6> HIDE DEF todo
          <6> QED BY <6>1 DEF Nodes
        <5>4. CASE d = "safety_review"
          <6>1. todo = OneRow("safety_review", 0, 100)
            BY <5>4 DEF NextTasks, OneRow
          <6> HIDE DEF todo
          <6> QED BY <6>1 DEF Nodes
        <5> QED BY <3>3, <5>1, <5>2, <5>3, <5>4
      <4>2. PICK k : todo = OneRow(n, k, 100)
        BY <4>1
      <4> HIDE DEF todo
      <4> QED BY <4>2 DEF IsRequest, Todo, OneRow
    <3>4. CASE d \notin {"collect_requested", "rerun_diagnostics", "run_critic", "collect_initial",
                         "plan", "safety_review", "run_diagnostics"}
      <4>1. todo = <<>>
        BY <3>4 DEF NextTasks
      <4> HIDE DEF todo
      <4> QED BY <4>1
    <3> QED BY <1>4, <3>1, <3>2, <3>3, <3>4
  <2> HIDE DEF todo, d
  <2>2. "replan_count" \notin ReplanCharge(d)
    BY <1>4 DEF ReplanCharge
  <2>3. Adds(w, "replan_count", 0)
    BY <1>1, <1>2, <2>2, Charging DEF d
  <2>4. Replanned(w, todo)
    BY <2>1, <2>3 DEF Replanned
  <2> QED BY <2>4 DEF todo, d
<1> QED BY <1>3, <1>4

(* What a step of a worker pays for: nothing where it writes no row, and else
   what the row it leaves and the rows it appends show. *)
LEMMA CompletesPaid ==
  ASSUME RowsInv, NEW w \in Workers, wk[w].pc = "begun",
         NEW todo \in TodoRows, NEW row, SameTask(w, row), TaskStep(w, row, todo),
         row.status = "completed", row.calls = TaskOf(w).calls,
         \A i \in DOMAIN todo : ~IsRequest(todo[i]),
         \/ UNCHANGED used /\ TaskOf(w).node \notin AgentNodes
         \/ used' = Charged(wk[w].run, AgentCharge(TaskOf(w).node)) /\ TaskOf(w).node \in AgentNodes
  PROVE  Replanned(w, todo) /\ Called(w, row) /\ AgentRan(w, row)
<1>1. wk[w].run \in Runs /\ row.node = TaskOf(w).node
  BY Held DEF SameTask
<1>2. "replan_count" \in Resources /\ "probe_calls" \in Resources /\ "agent_runs" \in Resources /\ "llm_calls" \in Resources
  BY DEF Resources
<1>3. CASE UNCHANGED used /\ TaskOf(w).node \notin AgentNodes
  <2>1. \A k \in Resources : Adds(w, k, 0)
    BY <1>1, <1>3, Charging
  <2>2. Called(w, row)
    BY <1>1, <1>2, <2>1, SameCallsAdded
  <2>3. row.node \notin AgentNodes
    BY <1>1, <1>3
  <2> QED BY <1>2, <1>3, <2>1, <2>2, <2>3 DEF Replanned, AgentRan
<1>4. CASE used' = Charged(wk[w].run, AgentCharge(TaskOf(w).node)) /\ TaskOf(w).node \in AgentNodes
  <2> DEFINE S == AgentCharge(TaskOf(w).node)
  <2>1. /\ "replan_count" \notin S /\ "probe_calls" \notin S /\ "agent_runs" \in S
        /\ "llm_calls" \in S <=> TaskOf(w).node \in Analysts
    BY DEF AgentCharge, Analysts
  <2> HIDE DEF S
  <2>2. \A k \in Resources : Adds(w, k, IF k \in S THEN 1 ELSE 0)
    BY <1>1, <1>4, Charging DEF S
  <2>3. /\ Adds(w, "replan_count", 0) /\ Adds(w, "probe_calls", 0) /\ Adds(w, "agent_runs", 1)
        /\ Adds(w, "llm_calls", IF row.node \in Analysts THEN 1 ELSE 0)
    <3>1. Adds(w, "replan_count", 0)
      BY <1>2, <2>1, <2>2
    <3>2. Adds(w, "probe_calls", 0)
      BY <1>2, <2>1, <2>2
    <3>3. Adds(w, "agent_runs", 1)
      BY <1>2, <2>1, <2>2
    <3>4. CASE row.node \in Analysts
      BY <1>1, <1>2, <2>1, <2>2, <3>1, <3>2, <3>3, <3>4
    <3>5. CASE row.node \notin Analysts
      BY <1>1, <1>2, <2>1, <2>2, <3>1, <3>2, <3>3, <3>5
    <3> QED BY <3>4, <3>5
  <2>4. Called(w, row)
    BY <1>1, <2>3, SameCallsAdded
  <2>5. row.node \in AgentNodes
    BY <1>1, <1>4
  <2> QED BY <1>4, <2>3, <2>4, <2>5 DEF Replanned, AgentRan
<1> QED BY <1>3, <1>4

Pays(w) == \E row : \E todo \in TodoRows :
  /\ SameTask(w, row) /\ TaskStep(w, row, todo)
  /\ Replanned(w, todo) /\ Called(w, row) /\ AgentRan(w, row)

LEMMA NodePays ==
  ASSUME RowsInv, NEW w \in Workers, Normalize(w) \/ AgentNode(w)
  PROVE  Pays(w)
<1>1. CASE Normalize(w)
  <2> DEFINE todo == <<Todo("triage", 0, 100), Supervisor>>
  <2>1. wk[w].pc = "begun" /\ TaskOf(w).node = "normalize" /\ UNCHANGED used
        /\ Complete(w, {}, todo, "running")
    BY <1>1 DEF Normalize, Executes
  <2>2. todo \in TodoRows
    <3>1. "triage" \in Nodes /\ "supervisor" \in Nodes /\ 100 \in {80, 90, 100}
      BY DEF Nodes
    <3>2. TwoRows("triage", 100, "supervisor", 100) \in TodoRows
      BY <3>1, RowsOf
    <3> QED BY <3>2 DEF TwoRows, Supervisor
  <2>3. \A i \in DOMAIN todo : ~IsRequest(todo[i])
    BY NoRequests
  <2> HIDE DEF todo
  <2>4. {} \in SUBSET Flags
    OBVIOUS
  <2>5. PICK row : /\ SameTask(w, row) /\ TaskStep(w, row, todo)
                   /\ row.status = "completed" /\ row.calls = TaskOf(w).calls
    BY <2>1, <2>4, CompleteTask
  <2>6. "normalize" \notin AgentNodes
    BY DEF AgentNodes
  <2>7. Replanned(w, todo) /\ Called(w, row) /\ AgentRan(w, row)
    BY <2>1, <2>2, <2>3, <2>5, <2>6, CompletesPaid
  <2> QED BY <2>2, <2>5, <2>7 DEF Pays
<1>2. CASE AgentNode(w)
  <2>1. PICK node \in AgentNodes : \E out \in SUBSET Flags : Agent(w, node, out)
    BY <1>2 DEF AgentNode, Triage, Historical, Diagnostic, Critic, PlanCandidate, SafetyReview,
                Outcomes, Flags, AgentNodes
  <2> DEFINE todo == OneRow("supervisor", 0, 100)
  <2>0. PICK out \in SUBSET Flags : Agent(w, node, out)
    BY <2>1
  <2>2. /\ wk[w].pc = "begun" /\ TaskOf(w).node = node
        /\ used' = Charged(wk[w].run, AgentCharge(TaskOf(w).node))
        /\ Complete(w, out, todo, "running")
    BY <2>0 DEF Agent, Executes, OneRow, Supervisor
  <2>3. todo \in TodoRows
    <3>1. "supervisor" \in Nodes /\ 100 \in {80, 90, 100} /\ 0 \in Nat
      BY DEF Nodes
    <3> QED BY <3>1, RowOf
  <2>4. \A i \in DOMAIN todo : ~IsRequest(todo[i])
    BY NoRequests DEF OneRow, Supervisor
  <2> HIDE DEF todo
  <2>5. PICK row : /\ SameTask(w, row) /\ TaskStep(w, row, todo)
                   /\ row.status = "completed" /\ row.calls = TaskOf(w).calls
    BY <2>1, <2>2, CompleteTask
  <2>6. Replanned(w, todo) /\ Called(w, row) /\ AgentRan(w, row)
    BY <2>1, <2>2, <2>3, <2>4, <2>5, CompletesPaid
  <2> QED BY <2>3, <2>5, <2>6 DEF Pays
<1> QED BY <1>1, <1>2

(* A step that runs no agent and schedules no follow-up. *)
LEMMA QuietPays ==
  ASSUME RowsInv, NEW w \in Workers, wk[w].pc \in {"begun", "looping"},
         NEW todo \in TodoRows, NEW row, SameTask(w, row), TaskStep(w, row, todo),
         row.status # "completed" \/ TaskOf(w).node \notin AgentNodes,
         \A i \in DOMAIN todo : ~IsRequest(todo[i]),
         \A k \in Resources \ {"probe_calls"} : Adds(w, k, 0),
         Called(w, row)
  PROVE  Pays(w)
<1>1. /\ Adds(w, "replan_count", 0) /\ Adds(w, "agent_runs", 0) /\ Adds(w, "llm_calls", 0)
  BY DEF Resources
<1>2. row.node = TaskOf(w).node
  BY DEF SameTask
<1>3. Replanned(w, todo) /\ AgentRan(w, row)
  BY <1>1, <1>2 DEF Replanned, AgentRan
<1> QED BY <1>3 DEF Pays

LEMMA UnchargedPays ==
  ASSUME RowsInv, NEW w \in Workers, Exhaust(w) \/ FailTask(w) \/ WaitHuman(w)
  PROVE  Pays(w)
<1>1. UNCHANGED used
  BY DEF Exhaust, FailTask, WaitHuman
<1>2. /\ wk[w].pc \in {"begun", "looping"}
      /\ \E row : /\ SameTask(w, row) /\ row.calls = TaskOf(w).calls
                  /\ TaskStep(w, row, <<>>) /\ <<>> \in TodoRows
                  /\ row.status \in {"failed", "ready", "waiting_human"}
  <2>1. CASE Exhaust(w) \/ FailTask(w)
    BY <2>1, HandlerTask
  <2>2. CASE WaitHuman(w)
    BY <2>2, WaitHumanTask
  <2> QED BY <2>1, <2>2
<1>3. PICK row : /\ SameTask(w, row) /\ row.calls = TaskOf(w).calls
                 /\ TaskStep(w, row, <<>>) /\ <<>> \in TodoRows
                 /\ row.status \in {"failed", "ready", "waiting_human"}
  BY <1>2
<1>4. wk[w].run \in Runs
  BY <1>2, Held
<1>5. \A k \in Resources : Adds(w, k, 0)
  BY <1>1, <1>4, Charging
<1>6. Called(w, row)
  <2>1. "probe_calls" \in Resources
    BY DEF Resources
  <2> QED BY <1>3, <1>4, <1>5, <2>1, SameCallsAdded
<1>7. \A i \in DOMAIN <<>> : ~IsRequest(<<>>[i])
  BY NoRequests
<1> QED BY <1>2, <1>3, <1>5, <1>6, <1>7, QuietPays

LEMMA SupervisePays ==
  ASSUME RowsInv, NEW w \in Workers, Supervise(w)
  PROVE  Pays(w)
<1> DEFINE r == wk[w].run
<1>1. /\ wk[w].pc = "begun" /\ TaskOf(w).node = "supervisor"
      /\ \E fresh \in BOOLEAN :
           /\ used' = Charged(r, ReplanCharge(Decide(r, fresh)))
           /\ Complete(w, {}, NextTasks(r, Decide(r, fresh)), RunStatusAfter(Decide(r, fresh)))
  BY DEF Supervise, Executes
<1>2. PICK fresh \in BOOLEAN :
        /\ used' = Charged(r, ReplanCharge(Decide(r, fresh)))
        /\ Complete(w, {}, NextTasks(r, Decide(r, fresh)), RunStatusAfter(Decide(r, fresh)))
  BY <1>1
<1> DEFINE todo == NextTasks(r, Decide(r, fresh))
           S == ReplanCharge(Decide(r, fresh))
<1>3. r \in Runs /\ RowsOK(tasks[r])
  BY <1>1, Held
<1>4. todo \in TodoRows
  BY <1>3, DecisionsScheduleRows
<1>5. Replanned(w, todo)
  BY <1>1, <1>2, DecisionReplans
<1>6. \A k \in Resources : Adds(w, k, IF k \in S THEN 1 ELSE 0)
  <2>1. used' = Charged(r, S)
    BY <1>2
  <2> HIDE DEF S
  <2> QED BY <1>3, <2>1, Charging
<1>7. /\ Adds(w, "agent_runs", 0) /\ Adds(w, "llm_calls", 0) /\ Adds(w, "probe_calls", 0)
  <2>1. "agent_runs" \notin S /\ "llm_calls" \notin S /\ "probe_calls" \notin S
    BY DEF ReplanCharge
  <2>2. "agent_runs" \in Resources /\ "llm_calls" \in Resources /\ "probe_calls" \in Resources
    BY DEF Resources
  <2> HIDE DEF S
  <2>3. Adds(w, "agent_runs", 0)
    BY <1>6, <2>1, <2>2
  <2>4. Adds(w, "llm_calls", 0)
    BY <1>6, <2>1, <2>2
  <2>5. Adds(w, "probe_calls", 0)
    BY <1>6, <2>1, <2>2
  <2> QED BY <2>3, <2>4, <2>5
<1> HIDE DEF todo, S
<1>8. {} \in SUBSET Flags
  OBVIOUS
<1>9. PICK row : /\ SameTask(w, row) /\ TaskStep(w, row, todo)
                 /\ row.status = "completed" /\ row.calls = TaskOf(w).calls
  <2>1. Complete(w, {}, todo, RunStatusAfter(Decide(r, fresh)))
    BY <1>2 DEF todo
  <2> QED BY <1>1, <1>8, <2>1, CompleteTask
<1>10. Called(w, row)
  BY <1>3, <1>7, <1>9, SameCallsAdded
<1>11. AgentRan(w, row)
  <2>1. row.node \notin AgentNodes
    BY <1>1, <1>9 DEF SameTask, AgentNodes
  <2> QED BY <1>1, <1>7, <2>1 DEF AgentRan
<1> QED BY <1>4, <1>5, <1>9, <1>10, <1>11 DEF Pays

(* The gateway's commits and the end of a collection. *)
LEMMA ProbePays ==
  ASSUME RowsInv, CallsInv, Collecting, NEW w \in Workers, CommitsCall(w)
  PROVE  Pays(w)
<1> DEFINE r == wk[w].run
<1>1. PICK i \in Calls :
        /\ AtNewCall(w, i)
        /\ CommitBegin(w, [Flushed(w, i) EXCEPT ![i] = "running"])
        /\ used' = [used EXCEPT ![r]["probe_calls"] = ProbeCharge(w, i) + 1]
  BY DEF CommitsCall, StartProbe, RejectProbe
<1>2. /\ wk[w].pc \in {"begun", "looping"} /\ TaskOf(w).calls[i] = "none"
      /\ TaskOf(w).node = "evidence_collection"
  BY <1>1 DEF AtNewCall, AtRequests, Executes, IsFollowUp
<1>3. r \in Runs /\ i \in Nat /\ i <= ProbesPerRequest + 1
  BY <1>2, Held, ConstantsAssumption DEF Calls
<1> DEFINE calls == [Flushed(w, i) EXCEPT ![i] = "running"]
<1>4. Flushed(w, i) \in [Calls -> CallStatus]
  BY <1>2, FlushedCalls
<1>5. /\ calls \in [Calls -> CallStatus]
      /\ calls[i] = "running" /\ \A j \in Calls : j # i => calls[j] = Flushed(w, i)[j]
  BY <1>4 DEF CallStatus
<1> HIDE DEF calls
<1>6. PICK row : /\ SameTask(w, row) /\ row.calls = calls
                 /\ TaskStep(w, row, <<>>) /\ <<>> \in TodoRows
  <2>1. CommitBegin(w, calls) /\ wk[w].pc # "idle"
    BY <1>1, <1>2 DEF calls
  <2> QED BY <1>5, <2>1, CommitTask
<1>7. /\ Passed(w, i) \subseteq Calls /\ IsFiniteSet(Passed(w, i)) /\ i \notin Passed(w, i)
      /\ Passed(w, i) = {j \in Calls : TaskOf(w).calls[j] = "none" /\ Flushed(w, i)[j] # "none"}
      /\ \A j \in Calls : TaskOf(w).calls[j] # "none" => Flushed(w, i)[j] # "none"
      /\ ProbeCharge(w, i) = used[r]["probe_calls"] + Cardinality(Passed(w, i))
  BY <1>2, <1>3, PassedCalls
<1>8. NewCalls(w, row) = Passed(w, i) \cup {i}
  BY <1>2, <1>5, <1>6, <1>7 DEF NewCalls
<1>9. Cardinality(Passed(w, i)) \in Nat /\ Cardinality(NewCalls(w, row)) = Cardinality(Passed(w, i)) + 1
  BY <1>7, <1>8, FS_AddElement, FS_CardinalityType
<1> DEFINE m == Cardinality(NewCalls(w, row))
           n == ProbeCharge(w, i) + 1
<1>10. used[r]["probe_calls"] \in Nat /\ m \in Nat /\ n = used[r]["probe_calls"] + m
  <2>1. used[r]["probe_calls"] \in Nat
    BY <1>3 DEF RowsInv, TypeOK, Resources
  <2> QED BY <1>7, <1>9, <2>1
<1>11. used' = [used EXCEPT ![r]["probe_calls"] = n]
  BY <1>1
<1> HIDE DEF m, n
<1>12. Adds(w, "probe_calls", m) /\ \A k \in Resources \ {"probe_calls"} : Adds(w, k, 0)
  <2>1. "probe_calls" \in Resources
    BY DEF Resources
  <2> QED BY <1>3, <1>10, <1>11, <2>1, Charging
<1>13. Called(w, row)
  BY <1>2, <1>5, <1>6, <1>7, <1>12 DEF Called, m
<1>14. TaskOf(w).node \notin AgentNodes /\ \A j \in DOMAIN <<>> : ~IsRequest(<<>>[j])
  BY <1>2, NoRequests DEF AgentNodes
<1> QED BY <1>2, <1>6, <1>12, <1>13, <1>14, QuietPays

LEMMA InitialProbePays ==
  ASSUME RowsInv, CallsInv, NEW w \in Workers, StartInitialProbe(w) \/ RejectInitialProbe(w)
  PROVE  Pays(w)
<1>1. /\ wk[w].pc = "begun" /\ TaskOf(w).node = "evidence_collection" /\ ~IsFollowUp(w)
      /\ CommitBegin(w, NoCalls) /\ UNCHANGED used
  BY DEF StartInitialProbe, RejectInitialProbe, Executes
<1>2. /\ wk[w].run \in Runs /\ wk[w].task \in DOMAIN tasks[wk[w].run]
  BY <1>1, Held
<1>3. TaskOf(w).calls = NoCalls
  BY <1>1, <1>2 DEF CallsInv, RequestsOnly, IsRequest, IsFollowUp, TaskOf
<1>4. NoCalls \in [Calls -> CallStatus]
  BY DEF NoCalls, CallStatus
<1>5. PICK row : /\ SameTask(w, row) /\ row.calls = NoCalls
                 /\ TaskStep(w, row, <<>>) /\ <<>> \in TodoRows
  BY <1>1, <1>4, CommitTask
<1>6. \A k \in Resources : Adds(w, k, 0)
  BY <1>1, <1>2, Charging
<1>7. Called(w, row)
  <2>1. "probe_calls" \in Resources
    BY DEF Resources
  <2> QED BY <1>2, <1>3, <1>5, <1>6, <2>1, SameCallsAdded
<1>8. TaskOf(w).node \notin AgentNodes /\ \A j \in DOMAIN <<>> : ~IsRequest(<<>>[j])
  BY <1>1, NoRequests DEF AgentNodes
<1> QED BY <1>1, <1>5, <1>6, <1>7, <1>8, QuietPays

LEMMA CollectPays ==
  ASSUME RowsInv, CallsInv, Collecting, NEW w \in Workers, CollectDone(w)
  PROVE  Pays(w)
<1> DEFINE r == wk[w].run
           last == IF IsFollowUp(w) THEN ProbesPerRequest + 1 ELSE wk[w].idx
           before == IF wk[w].pc = "begun" THEN "running" ELSE TaskOf(w).status
           live == wk[w].pc = "begun" \/ run[wk[w].run].status \in Claimable
           todo == IF before \in {"running", "completed"} /\ live THEN <<Supervisor>> ELSE <<>>
<1>1. /\ wk[w].pc \in {"begun", "looping"} /\ TaskOf(w).node = "evidence_collection"
      /\ used' = [used EXCEPT ![r]["probe_calls"] = ProbeCharge(w, last)]
  BY DEF CollectDone, Executes, Collecting
<1>2. r \in Runs /\ wk[w].idx \in Nat /\ wk[w].idx >= 1 /\ wk[w].task \in DOMAIN tasks[r]
  BY <1>1, Held DEF Collecting, Worker
<1>3. /\ todo \in TodoRows
      /\ \E row : SameTask(w, row) /\ row.calls = Flushed(w, last) /\ TaskStep(w, row, todo)
  BY CollectTask
<1>4. \A i \in DOMAIN todo : ~IsRequest(todo[i])
  BY NoRequests
<1> HIDE DEF todo
<1>5. PICK row : SameTask(w, row) /\ row.calls = Flushed(w, last) /\ TaskStep(w, row, todo)
  BY <1>3
<1>6. /\ Cardinality(Passed(w, last)) \in Nat
      /\ NewCalls(w, row) = Passed(w, last)
      /\ \A j \in Calls : TaskOf(w).calls[j] # "none" => row.calls[j] # "none"
      /\ ProbeCharge(w, last) = used[r]["probe_calls"] + Cardinality(Passed(w, last))
  <2>1. CASE IsFollowUp(w)
    <3>1. last = ProbesPerRequest + 1 /\ last \in Nat /\ last <= ProbesPerRequest + 1
      BY <2>1, ConstantsAssumption
    <3> HIDE DEF last
    <3>2. /\ IsFiniteSet(Passed(w, last))
          /\ Passed(w, last) = {j \in Calls : TaskOf(w).calls[j] = "none" /\ Flushed(w, last)[j] # "none"}
          /\ \A j \in Calls : TaskOf(w).calls[j] # "none" => Flushed(w, last)[j] # "none"
          /\ ProbeCharge(w, last) = used[r]["probe_calls"] + Cardinality(Passed(w, last))
      BY <1>1, <3>1, PassedCalls
    <3> QED BY <1>5, <3>2, FS_CardinalityType DEF NewCalls
  <2>2. CASE ~IsFollowUp(w)
    <3>1. Passed(w, last) = {}
      <4>1. wk[w].idx .. (last - 1) = {}
        BY <1>2, <2>2
      <4> QED BY <4>1 DEF Passed
    <3> HIDE DEF last
    <3>2. \A j \in Calls : Flushed(w, last)[j] = TaskOf(w).calls[j]
      <4> SUFFICES ASSUME NEW j \in Calls PROVE Flushed(w, last)[j] = TaskOf(w).calls[j]
        OBVIOUS
      <4>1. ~Owns(w, j)
        BY <2>2 DEF CallsInv, OwnedRunning
      <4> QED BY <1>1, <3>1, <4>1, FlushedCall
    <3> QED BY <1>5, <3>1, <3>2, FS_EmptySet DEF NewCalls, ProbeCharge
  <2> QED BY <2>1, <2>2
<1> DEFINE m == Cardinality(NewCalls(w, row))
           n == ProbeCharge(w, last)
<1>7. m \in Nat /\ n = used[r]["probe_calls"] + m /\ used' = [used EXCEPT ![r]["probe_calls"] = n]
  BY <1>1, <1>6
<1> HIDE DEF m, n, last
<1>8. Adds(w, "probe_calls", m) /\ \A k \in Resources \ {"probe_calls"} : Adds(w, k, 0)
  <2>1. "probe_calls" \in Resources
    BY DEF Resources
  <2> QED BY <1>2, <1>7, <2>1, Charging
<1>9. Called(w, row)
  BY <1>6, <1>8 DEF Called, m
<1>10. TaskOf(w).node \notin AgentNodes
  BY <1>1 DEF AgentNodes
<1> QED BY <1>1, <1>3, <1>4, <1>5, <1>8, <1>9, <1>10, QuietPays

LEMMA ActingPays ==
  ASSUME RowsInv, CallsInv, Collecting, NEW w \in Workers, Acts(w)
  PROVE  UNCHANGED <<tasks, used>> \/ Pays(w)
<1>1. CASE Normalize(w) \/ AgentNode(w)
  BY <1>1, NodePays
<1>2. CASE Supervise(w)
  BY <1>2, SupervisePays
<1>3. CASE Exhaust(w) \/ FailTask(w) \/ WaitHuman(w)
  BY <1>3, UnchargedPays
<1>4. CASE CommitsCall(w)
  BY <1>4, ProbePays
<1>5. CASE StartInitialProbe(w) \/ RejectInitialProbe(w)
  BY <1>5, InitialProbePays
<1>6. CASE CollectDone(w)
  BY <1>6, CollectPays
<1>7. CASE Reread(w) \/ RenewalBlocks(w) \/ ProbeRefused(w) \/ FinishProbe(w)
  BY <1>7 DEF Reread, RenewalBlocks, ProbeRefused, FinishProbe
<1> QED BY <1>1, <1>2, <1>3, <1>4, <1>5, <1>6, <1>7 DEF Acts, Collection, CommitsCall

-----------------------------------------------------------------------------
(* Every step keeps the books.                                             *)

(* Rows whose statuses are rewritten in place, and nothing is charged. *)
Rewritten(q) ==
  /\ DOMAIN tasks'[q] = DOMAIN tasks[q]
  /\ \A t \in DOMAIN tasks[q] : CountsAlike(tasks[q][t], tasks'[q][t])

LEMMA OtherSteps ==
  ASSUME RowsInv, [Next]_vars
  PROVE  \/ \E w \in Workers : Acts(w)
         \/ \E r \in Runs : Enqueue(r)
         \/ UNCHANGED used /\ \A q \in Runs : Rewritten(q)
<1>1. CASE \E w \in Workers : Stops(w) \/ Release(w)
  BY <1>1 DEF Stops, BeginRefused, ExhaustEscapes, Crash, Release, Rewritten, CountsAlike
<1>2. CASE \E w \in Workers : Claim(w)
  <2>1. PICK w \in Workers : Claim(w)
    BY <1>2
  <2>2. PICK r \in Runs : /\ tasks' = [tasks EXCEPT ![r] = Recovered(r)] /\ UNCHANGED used
    BY <2>1, ClaimStep
  <2>3. tasks'[r] = Recovered(r) /\ \A q \in Runs : q # r => tasks'[q] = tasks[q]
    BY <2>2 DEF RowsInv, TypeOK
  <2>4. Rewritten(r)
    BY <2>3, RecoveredRows DEF Rewritten, CountsAlike, Restatus
  <2> QED BY <2>2, <2>3, <2>4 DEF Rewritten, CountsAlike
<1>3. CASE \E r \in Runs : ResumeHuman(r)
  <2>1. PICK r \in Runs : /\ tasks' = [tasks EXCEPT ![r] = Unblocked(r)] /\ UNCHANGED used
    BY <1>3 DEF ResumeHuman
  <2>2. tasks'[r] = Unblocked(r) /\ \A q \in Runs : q # r => tasks'[q] = tasks[q]
    BY <2>1 DEF RowsInv, TypeOK
  <2>3. Rewritten(r)
    BY <2>2, UnblockedRows DEF Rewritten, CountsAlike, Restatus
  <2> QED BY <2>1, <2>2, <2>3 DEF Rewritten, CountsAlike
<1>4. CASE \E r \in Runs : LeaseExpire(r) \/ Elapse(r)
  BY <1>4 DEF LeaseExpire, Elapse, Rewritten, CountsAlike
<1>5. CASE UNCHANGED <<run, tasks, wk, used>>
  BY <1>5 DEF Rewritten, CountsAlike
<1> QED BY <1>1, <1>2, <1>3, <1>4, <1>5, StepCases

LEMMA EnqueueRewrites ==
  ASSUME RowsInv, NEW r \in Runs, Enqueue(r)
  PROVE  /\ \A q \in Runs : q # r => Rewritten(q)
         /\ DOMAIN tasks[r] = {} /\ DOMAIN tasks'[r] = {1}
         /\ tasks'[r][1].node = "normalize" /\ tasks'[r][1].calls = NoCalls
         /\ tasks'[r][1].status = "ready"
         /\ UNCHANGED <<used, wk>>
<1>1. \A q \in Runs : q # r => Rewritten(q)
  <2> SUFFICES ASSUME NEW q \in Runs, q # r PROVE Rewritten(q)
    OBVIOUS
  <2>1. /\ DOMAIN tasks'[q] = DOMAIN tasks[q]
        /\ \A t \in DOMAIN tasks[q] :
             /\ Restatus(tasks[q][t], tasks'[q][t])
             /\ tasks'[q][t].status = IF q \in Superseded /\ tasks[q][t].status \in ActiveTask
                                      THEN "cancelled" ELSE tasks[q][t].status
    BY EnqueuedRows
  <2> QED BY <2>1 DEF Rewritten, CountsAlike, Restatus, ActiveTask
<1>2. DOMAIN tasks[r] = {} /\ DOMAIN tasks'[r] = {1} /\ tasks'[r][1] = Fresh(Todo("normalize", 0, 100), 0)
  BY EnqueuedRows
<1> QED BY <1>1, <1>2 DEF Enqueue, Fresh, Todo

(* No step changes what a row's task is, or takes a row away. *)
RowsStand ==
  \A q \in Runs : /\ DOMAIN tasks[q] \subseteq DOMAIN tasks'[q]
                  /\ \A t \in DOMAIN tasks[q] : tasks'[q][t].node = tasks[q][t].node

LEMMA StandingRows ==
  ASSUME RowsInv, CallsInv, Collecting, [Next]_vars
  PROVE  RowsStand
<1>1. CASE \E w \in Workers : Acts(w)
  <2>1. PICK w \in Workers : Acts(w)
    BY <1>1
  <2>2. wk[w].pc # "idle"
    BY <2>1, ActingStep
  <2>3. CASE UNCHANGED tasks
    BY <2>3 DEF RowsStand
  <2>4. CASE Pays(w)
    <3> DEFINE r == wk[w].run
               n == Len(tasks[r])
    <3>1. PICK row : \E todo \in TodoRows : SameTask(w, row) /\ TaskStep(w, row, todo)
      BY <2>4 DEF Pays
    <3>2. PICK todo \in TodoRows : SameTask(w, row) /\ TaskStep(w, row, todo)
      BY <3>1
    <3>3. /\ r \in Runs /\ n \in Nat /\ Len(todo) \in Nat
          /\ DOMAIN tasks[r] = 1 .. n
          /\ \A q \in Runs : q # r => tasks'[q] = tasks[q]
          /\ DOMAIN tasks'[r] = 1 .. (n + Len(todo))
          /\ tasks'[r][wk[w].task] = row
          /\ \A t \in 1 .. n : t # wk[w].task => tasks'[r][t] = tasks[r][t]
      BY <2>2, <3>2, TaskStepRows
    <3>4. row.node = tasks[r][wk[w].task].node
      BY <3>2 DEF SameTask, TaskOf
    <3>5. 1 .. n \subseteq 1 .. (n + Len(todo))
      BY <3>3
    <3> HIDE DEF n, r
    <3>6. \A t \in 1 .. n : tasks'[r][t].node = tasks[r][t].node
      BY <3>3, <3>4
    <3> QED BY <3>3, <3>5, <3>6 DEF RowsStand
  <2> QED BY <2>1, <2>3, <2>4, ActingPays
<1>2. CASE \E r \in Runs : Enqueue(r)
  <2>1. PICK r \in Runs : Enqueue(r)
    BY <1>2
  <2>2. DOMAIN tasks[r] = {} /\ \A q \in Runs : q # r => Rewritten(q)
    BY <2>1, EnqueueRewrites
  <2> QED BY <2>2 DEF RowsStand, Rewritten, CountsAlike
<1>3. CASE \A q \in Runs : Rewritten(q)
  BY <1>3 DEF RowsStand, Rewritten, CountsAlike
<1> QED BY <1>1, <1>2, <1>3, OtherSteps

LEMMA ActingCollects ==
  ASSUME RowsInv, Collecting, NEW w \in Workers, Acts(w)
  PROVE  /\ wk'[w].pc \in {"probing", "looping"} => TaskOf(w).node = "evidence_collection"
         /\ wk'[w].idx >= 1
<1>1. wk \in [Workers -> Worker] /\ wk[w].idx \in Nat /\ wk[w].idx >= 1
  BY DEF RowsInv, TypeOK, Worker, Collecting
<1>2. wk[w].pc \in {"probing", "looping"} => TaskOf(w).node = "evidence_collection"
  BY DEF Collecting
<1>3. CASE Normalize(w) \/ Supervise(w) \/ AgentNode(w)
  <2>1. wk' = [wk EXCEPT ![w].pc = "finish"]
    BY <1>3, NodeCompletes DEF Complete
  <2> QED BY <1>1, <2>1 DEF Worker
<1>4. CASE Exhaust(w) \/ FailTask(w) \/ WaitHuman(w) \/ CollectDone(w)
  <2>1. wk' = [wk EXCEPT ![w].pc = "finish"]
    BY <1>4 DEF Exhaust, FailTask, WaitHuman, CollectDone
  <2> QED BY <1>1, <2>1 DEF Worker
<1>5. CASE RenewalBlocks(w) \/ Reread(w)
  <2>1. CASE RenewalBlocks(w)
    <3>1. wk' = [wk EXCEPT ![w].pc = "hung"]
      BY <2>1 DEF RenewalBlocks
    <3> QED BY <1>1, <3>1 DEF Worker
  <2>2. CASE Reread(w)
    <3>1. PICK seen : wk' = [wk EXCEPT ![w].pc = "begun", ![w].seen = seen]
      BY <2>2 DEF Reread
    <3> QED BY <1>1, <3>1 DEF Worker
  <2> QED BY <1>5, <2>1, <2>2
<1>6. CASE Commits(w)
  BY <1>6, GatewayCommit, GatewayWorker
<1>7. CASE ProbeRefused(w)
  <2>1. TaskOf(w).node = "evidence_collection"
    BY <1>7 DEF ProbeRefused, AtNewCall, AtRequests, IsFollowUp
  <2>2. PICK i \in Calls : wk' = [wk EXCEPT ![w].pc = "looping", ![w].idx = i + 1, ![w].pend = NoCalls]
    BY <1>7 DEF ProbeRefused
  <2>3. wk'[w].idx = i + 1 /\ i + 1 >= 1
    BY <1>1, <2>2, ConstantsAssumption DEF Worker, Calls
  <2> QED BY <2>1, <2>3
<1>8. CASE FinishProbe(w)
  <2>1. wk[w].pc = "probing"
    BY <1>8 DEF FinishProbe
  <2>2. PICK pend : wk' = [wk EXCEPT ![w] = [wk[w] EXCEPT !.pc = "looping", !.idx = wk[w].idx + 1, !.pend = pend]]
    BY <1>1, <1>8 DEF FinishProbe
  <2>3. wk'[w].idx = wk[w].idx + 1
    BY <1>1, <2>2 DEF Worker
  <2> QED BY <1>1, <1>2, <2>1, <2>3
<1> QED BY <1>3, <1>4, <1>5, <1>6, <1>7, <1>8 DEF Acts, Collection, Commits, CommitsCall

LEMMA CollectingStep ==
  ASSUME RowsInv, CallsInv, Collecting, [Next]_vars
  PROVE  Collecting'
<1>0. RowsStand /\ wk \in [Workers -> Worker]
  BY StandingRows DEF RowsInv, TypeOK
<1>1. \A v \in Workers : wk'[v] = wk[v] =>
        /\ wk'[v].pc \in {"probing", "looping"} => TaskOf(v)'.node = "evidence_collection"
        /\ wk'[v].idx >= 1
  <2> SUFFICES ASSUME NEW v \in Workers, wk'[v] = wk[v]
               PROVE  /\ wk'[v].pc \in {"probing", "looping"} => TaskOf(v)'.node = "evidence_collection"
                      /\ wk'[v].idx >= 1
    OBVIOUS
  <2>1. wk[v].pc \in {"probing", "looping"} =>
          wk[v].run \in Runs /\ wk[v].task \in DOMAIN tasks[wk[v].run]
    BY Held
  <2>2. TaskOf(v)' = tasks'[wk[v].run][wk[v].task] /\ TaskOf(v) = tasks[wk[v].run][wk[v].task]
    BY DEF TaskOf
  <2> QED BY <1>0, <2>1, <2>2 DEF Collecting, RowsStand
<1>2. CASE \E w \in Workers : Acts(w)
  <2>1. PICK w \in Workers : Acts(w)
    BY <1>2
  <2>2. /\ \A v \in Workers : v # w => wk'[v] = wk[v]
        /\ wk[w].pc # "idle" /\ wk'[w].run = wk[w].run /\ wk'[w].task = wk[w].task
    BY <2>1, ActingStep
  <2>3. /\ wk'[w].pc \in {"probing", "looping"} => TaskOf(w).node = "evidence_collection"
        /\ wk'[w].idx >= 1
    BY <2>1, ActingCollects
  <2>4. wk[w].run \in Runs /\ wk[w].task \in DOMAIN tasks[wk[w].run]
    BY <2>2, Held
  <2>5. TaskOf(w)'.node = TaskOf(w).node
    BY <1>0, <2>2, <2>4 DEF TaskOf, RowsStand
  <2> QED BY <1>1, <2>2, <2>3, <2>5 DEF Collecting
<1>3. CASE \E w \in Workers : Stops(w) \/ Release(w) \/ Claim(w)
  <2>1. PICK w \in Workers : Stops(w) \/ Release(w) \/ Claim(w)
    BY <1>3
  <2>2. /\ \A v \in Workers : v # w => wk'[v] = wk[v]
        /\ wk'[w].idx = 1 \/ wk'[w].idx = wk[w].idx
        /\ wk'[w].pc \in {"idle", "claimed"}
    <3>1. CASE Stops(w) \/ Release(w)
      <4>1. wk' = [wk EXCEPT ![w] = IdleWorker]
        BY <3>1 DEF Stops, BeginRefused, ExhaustEscapes, Crash, Release
      <4> QED BY <1>0, <4>1 DEF IdleWorker
    <3>2. CASE Claim(w)
      <4>1. PICK r \in Runs : /\ wk[w].pc = "idle"
                              /\ \/ \E t : wk' = [wk EXCEPT ![w].pc = "claimed", ![w].run = r, ![w].task = t]
                                 \/ UNCHANGED wk
        BY <3>2 DEF Claim
      <4> QED BY <1>0, <4>1 DEF Worker
    <3> QED BY <2>1, <3>1, <3>2
  <2>3. wk'[w].idx >= 1
    BY <2>2 DEF Collecting
  <2> QED BY <1>1, <2>2, <2>3 DEF Collecting
<1>4. CASE UNCHANGED wk
  BY <1>1, <1>4 DEF Collecting
<1>5. (\E r \in Runs : Enqueue(r) \/ ResumeHuman(r) \/ LeaseExpire(r) \/ Elapse(r)) => UNCHANGED wk
  BY DEF Enqueue, ResumeHuman, LeaseExpire, Elapse
<1> QED BY <1>2, <1>3, <1>4, <1>5, StepCases

(* A run is calm only if it has been calm all along. *)
LEMMA CalmBefore ==
  ASSUME RowsInv, [Next]_vars, Calm'
  PROVE  Calm
<1>1. env \in [EnvKinds -> Nat] /\ "stall" \in EnvKinds /\ env'["stall"] = 0
  BY DEF RowsInv, TypeOK, EnvKinds, Calm
<1>2. CASE \E r \in Runs : Enqueue(r) \/ ResumeHuman(r)
  BY <1>1, <1>2 DEF Enqueue, ResumeHuman, Calm
<1>3. CASE \E r \in Runs : LeaseExpire(r) \/ Elapse(r)
  <2>1. UNCHANGED env \/ \E k \in {"stall", "elapse"} : env' = [env EXCEPT ![k] = env[k] + 1]
    BY <1>1, <1>3 DEF LeaseExpire, Elapse, Happens
  <2>2. \A k \in EnvKinds : env[k] \in Nat
    BY <1>1
  <2>3. env["stall"] = 0
    BY <1>1, <2>1, <2>2 DEF EnvKinds
  <2> QED BY <2>3 DEF Calm
<1>4. CASE \E w \in Workers : Claim(w) \/ Release(w)
  BY <1>1, <1>4 DEF Claim, Release, Calm
<1>5. CASE \E w \in Workers : Acts(w) \/ Stops(w)
  BY <1>1, <1>5, ActingStep, StoppingStep DEF Calm
<1>6. CASE OtherProbe \/ PlanPipelineMove \/ UNCHANGED env
  BY <1>1, <1>6 DEF OtherProbe, PlanPipelineMove, Happens, Calm, EnvKinds
<1> QED BY <1>2, <1>3, <1>4, <1>5, <1>6, StepCases

(* The books of a run nobody's step charges. *)
BooksStand(q) ==
  /\ used'[q] = used[q]
  /\ \A nodes : CompletedRows(q, nodes)' = CompletedRows(q, nodes)
  /\ FollowUpRows(q)' = FollowUpRows(q) /\ CallRows(q)' = CallRows(q)

LEMMA RewrittenStands ==
  ASSUME NEW q \in Runs, Rewritten(q), used'[q] = used[q]
  PROVE  BooksStand(q)
<1>1. /\ DOMAIN tasks'[q] = DOMAIN tasks[q]
      /\ \A t \in DOMAIN tasks[q] : CountsAlike(tasks[q][t], tasks'[q][t])
  BY DEF Rewritten
<1>2. /\ \A nodes : CompletedRows(q, nodes)' = CompletedRows(q, nodes)
      /\ FollowUpRows(q)' = FollowUpRows(q) /\ CallRows(q)' = CallRows(q)
  BY <1>1, AlikeCounted
<1> QED BY <1>2 DEF BooksStand

LEMMA EnqueueStands ==
  ASSUME RowsInv, NEW r \in Runs, Enqueue(r), NEW q \in Runs
  PROVE  BooksStand(q)
<1>1. CASE q # r
  BY <1>1, EnqueueRewrites, RewrittenStands
<1>2. CASE q = r
  <2>1. /\ DOMAIN tasks[q] = {} /\ DOMAIN tasks'[q] = {1}
        /\ tasks'[q][1].node = "normalize" /\ tasks'[q][1].calls = NoCalls
        /\ tasks'[q][1].status = "ready" /\ used' = used
    BY <1>2, EnqueueRewrites
  <2>2. \A nodes : CompletedRows(q, nodes) = {} /\ CompletedRows(q, nodes)' = {}
    BY <2>1 DEF CompletedRows
  <2>3. FollowUpRows(q) = {} /\ FollowUpRows(q)' = {}
    BY <2>1 DEF FollowUpRows, IsRequest
  <2>4. CallRows(q) = {}
    BY <2>1 DEF CallRows
  <2>5. CallRows(q)' = {}
    <3>1. \A c \in {1} \X Calls : c[1] = 1 /\ c[2] \in Calls
      OBVIOUS
    <3>2. CallRows(q)' = {c \in {1} \X Calls : tasks'[q][c[1]].calls[c[2]] # "none"}
      BY <2>1 DEF CallRows
    <3> QED BY <2>1, <3>1, <3>2 DEF NoCalls
  <2> QED BY <2>1, <2>2, <2>3, <2>4, <2>5 DEF BooksStand
<1> QED BY <1>1, <1>2

(* A step pays for one run, or for none. *)
LEMMA BooksStep ==
  ASSUME RowsInv, CallsInv, Collecting, [Next]_vars
  PROVE  \/ \A q \in Runs : BooksStand(q)
         \/ \E w \in Workers : Acts(w) /\ Pays(w)
<1>1. CASE \E w \in Workers : Acts(w)
  <2>1. PICK w \in Workers : Acts(w)
    BY <1>1
  <2>2. CASE UNCHANGED <<tasks, used>>
    <3>1. \A q \in Runs : Rewritten(q)
      BY <2>2 DEF Rewritten, CountsAlike
    <3> QED BY <2>2, <3>1, RewrittenStands
  <2> QED BY <2>1, <2>2, ActingPays
<1>2. CASE \E r \in Runs : Enqueue(r)
  BY <1>2, EnqueueStands
<1>3. CASE UNCHANGED used /\ \A q \in Runs : Rewritten(q)
  BY <1>3, RewrittenStands
<1> QED BY <1>1, <1>2, <1>3, OtherSteps

(* The runs a step of a worker pays nothing for. *)
LEMMA OthersStand ==
  ASSUME RowsInv, NEW w \in Workers, wk[w].pc # "idle", NEW row, SameTask(w, row),
         NEW todo \in TodoRows, TaskStep(w, row, todo), NEW k, NEW n, Adds(w, k, n),
         NEW q \in Runs, q # wk[w].run
  PROVE  /\ used'[q][k] = used[q][k]
         /\ \A nodes : CompletedRows(q, nodes)' = CompletedRows(q, nodes)
         /\ FollowUpRows(q)' = FollowUpRows(q) /\ CallRows(q)' = CallRows(q)
  BY TaskStepCounted DEF Adds

LEMMA ReplansPaidStep ==
  ASSUME RowsInv, CallsInv, Collecting, ReplansPaid, [Next]_vars
  PROVE  ReplansPaid'
<1>1. CASE \A q \in Runs : BooksStand(q)
  BY <1>1 DEF ReplansPaid, BooksStand
<1>2. CASE \E w \in Workers : Acts(w) /\ Pays(w)
  <2>1. PICK w \in Workers : Acts(w) /\ Pays(w)
    BY <1>2
  <2>2. wk[w].pc # "idle" /\ wk[w].run \in Runs
    BY <2>1, ActingStep
  <2>3. PICK row : \E todo \in TodoRows : SameTask(w, row) /\ TaskStep(w, row, todo) /\ Replanned(w, todo)
    BY <2>1 DEF Pays
  <2>4. PICK todo \in TodoRows : SameTask(w, row) /\ TaskStep(w, row, todo) /\ Replanned(w, todo)
    BY <2>3
  <2> DEFINE Paid(q) == used'[q]["replan_count"] = Cardinality(FollowUpRows(q)')
  <2>5. ASSUME NEW q \in Runs, q = wk[w].run PROVE Paid(q)
    <3>1. used[q]["replan_count"] = Cardinality(FollowUpRows(q)) /\ IsFiniteSet(FollowUpRows(q))
      BY CountedFinite DEF ReplansPaid
    <3>2. Cardinality(FollowUpRows(q)) \in Nat
      BY <3>1, FS_CardinalityType
    <3>3. CASE (\A i \in DOMAIN todo : ~IsRequest(todo[i])) /\ Adds(w, "replan_count", 0)
      <4>1. FollowUpRows(q)' = FollowUpRows(q)
        BY <2>2, <2>4, <2>5, <3>3, TaskStepCounted
      <4>2. used'[q]["replan_count"] = used[q]["replan_count"] + 0
        BY <2>5, <3>3 DEF Adds
      <4> QED BY <3>1, <3>2, <4>1, <4>2
    <3>4. CASE Len(todo) = 1 /\ IsRequest(todo[1]) /\ Adds(w, "replan_count", 1)
      <4> DEFINE n == Len(tasks[wk[w].run])
      <4>1. n + 1 \notin FollowUpRows(q) /\ FollowUpRows(q)' = FollowUpRows(q) \cup {n + 1}
        BY <2>2, <2>4, <2>5, <3>4, TaskStepCounted
      <4> HIDE DEF n
      <4>2. Cardinality(FollowUpRows(q)') = Cardinality(FollowUpRows(q)) + 1
        BY <3>1, <4>1, FS_AddElement
      <4>3. used'[q]["replan_count"] = used[q]["replan_count"] + 1
        BY <2>5, <3>4 DEF Adds
      <4> QED BY <3>1, <4>2, <4>3
    <3> QED BY <2>4, <3>3, <3>4 DEF Replanned
  <2>6. ASSUME NEW q \in Runs, q # wk[w].run PROVE Paid(q)
    <3>1. \E n : Adds(w, "replan_count", n)
      BY <2>4 DEF Replanned
    <3> QED BY <2>2, <2>4, <2>6, <3>1, OthersStand DEF ReplansPaid
  <2> QED BY <2>5, <2>6 DEF ReplansPaid
<1> QED BY <1>1, <1>2, BooksStep

LEMMA CallsPaidStep ==
  ASSUME RowsInv, CallsInv, Collecting, CallsPaid, [Next]_vars
  PROVE  CallsPaid'
<1>1. CASE \A q \in Runs : BooksStand(q)
  BY <1>1 DEF CallsPaid, BooksStand
<1>2. CASE \E w \in Workers : Acts(w) /\ Pays(w)
  <2>1. PICK w \in Workers : Acts(w) /\ Pays(w)
    BY <1>2
  <2>2. wk[w].pc # "idle" /\ wk[w].run \in Runs
    BY <2>1, ActingStep
  <2>3. PICK row : \E todo \in TodoRows : SameTask(w, row) /\ TaskStep(w, row, todo) /\ Called(w, row)
    BY <2>1 DEF Pays
  <2>4. PICK todo \in TodoRows : SameTask(w, row) /\ TaskStep(w, row, todo) /\ Called(w, row)
    BY <2>3
  <2> DEFINE Paid(q) == used'[q]["probe_calls"] = Cardinality(CallRows(q)')
             me == wk[w].task
  <2>5. ASSUME NEW q \in Runs, q = wk[w].run PROVE Paid(q)
    <3>1. used[q]["probe_calls"] = Cardinality(CallRows(q)) /\ IsFiniteSet(CallRows(q)) /\ IsFiniteSet(Calls)
      BY CountedFinite DEF CallsPaid
    <3>2. CallRows(q)' = CallRows(q) \cup ({me} \X NewCalls(w, row))
      BY <2>2, <2>4, <2>5, TaskStepCounted DEF Called, NewCalls
    <3>3. CallRows(q) \cap ({me} \X NewCalls(w, row)) = {}
      <4>1. \A j \in NewCalls(w, row) : tasks[q][me].calls[j] = "none"
        BY <2>5 DEF NewCalls, TaskOf
      <4>2. \A c \in {me} \X NewCalls(w, row) : c[1] = me /\ c[2] \in NewCalls(w, row)
        OBVIOUS
      <4> HIDE DEF me
      <4> QED BY <4>1, <4>2 DEF CallRows
    <3>4. NewCalls(w, row) \subseteq Calls /\ IsFiniteSet(NewCalls(w, row))
      BY <3>1, FS_Subset DEF NewCalls
    <3>5. /\ IsFiniteSet({me}) /\ Cardinality({me}) = 1
          /\ IsFiniteSet({me} \X NewCalls(w, row))
          /\ Cardinality({me} \X NewCalls(w, row)) = Cardinality({me}) * Cardinality(NewCalls(w, row))
      BY <3>4, FS_Singleton, FS_Product
    <3>6. /\ Cardinality(NewCalls(w, row)) \in Nat
          /\ Cardinality({me} \X NewCalls(w, row)) = Cardinality(NewCalls(w, row))
      BY <3>4, <3>5, FS_CardinalityType
    <3> DEFINE X == {me} \X NewCalls(w, row)
    <3>7. /\ IsFiniteSet(X) /\ CallRows(q) \cap X = {} /\ CallRows(q)' = CallRows(q) \cup X
          /\ Cardinality(X) = Cardinality(NewCalls(w, row))
      BY <3>2, <3>3, <3>5, <3>6
    <3> HIDE DEF X
    <3>8. /\ Cardinality(CallRows(q)') = Cardinality(CallRows(q)) + Cardinality(X) - Cardinality(CallRows(q) \cap X)
          /\ Cardinality(CallRows(q)) \in Nat /\ Cardinality(CallRows(q) \cap X) = 0
      BY <3>1, <3>7, FS_Union, FS_EmptySet, FS_CardinalityType
    <3>9. used'[q]["probe_calls"] = used[q]["probe_calls"] + Cardinality(NewCalls(w, row))
      BY <2>4, <2>5 DEF Called, Adds
    <3> QED BY <3>1, <3>6, <3>7, <3>8, <3>9
  <2>6. ASSUME NEW q \in Runs, q # wk[w].run PROVE Paid(q)
    <3>1. \E n : Adds(w, "probe_calls", n)
      BY <2>4 DEF Called
    <3> QED BY <2>2, <2>4, <2>6, <3>1, OthersStand DEF CallsPaid
  <2> QED BY <2>5, <2>6 DEF CallsPaid
<1> QED BY <1>1, <1>2, BooksStep

LEMMA AgentsPaidStep ==
  ASSUME RowsInv, CallsInv, LeaseInv, Attended, Collecting, AgentsPaid, [Next]_vars
  PROVE  AgentsPaid'
<1> DEFINE Paid(q) == /\ used'[q]["agent_runs"] = Cardinality(CompletedRows(q, AgentNodes)')
                      /\ used'[q]["llm_calls"] = Cardinality(CompletedRows(q, Analysts)')
<1>1. Calm' => Calm
  BY CalmBefore
<1>2. CASE \A q \in Runs : BooksStand(q)
  <2>1. \A q \in Runs : used'[q] = used[q]
    BY <1>2 DEF BooksStand
  <2>2. \A q \in Runs : /\ CompletedRows(q, AgentNodes)' = CompletedRows(q, AgentNodes)
                        /\ CompletedRows(q, Analysts)' = CompletedRows(q, Analysts)
    BY <1>2 DEF BooksStand
  <2> QED BY <1>1, <2>1, <2>2 DEF AgentsPaid
<1>3. CASE \E w \in Workers : Acts(w) /\ Pays(w)
  <2> SUFFICES ASSUME Calm PROVE \A q \in Runs : Paid(q)
    BY <1>1 DEF AgentsPaid
  <2>1. PICK w \in Workers : Acts(w) /\ Pays(w)
    BY <1>3
  <2>2. wk[w].pc # "idle" /\ wk[w].run \in Runs
    BY <2>1, ActingStep
  <2>3. PICK row : \E todo \in TodoRows : SameTask(w, row) /\ TaskStep(w, row, todo) /\ AgentRan(w, row)
    BY <2>1 DEF Pays
  <2>4. PICK todo \in TodoRows : SameTask(w, row) /\ TaskStep(w, row, todo) /\ AgentRan(w, row)
    BY <2>3
  <2>5. PICK n, m : Adds(w, "agent_runs", n) /\ Adds(w, "llm_calls", m)
    BY <2>4 DEF AgentRan
  <2> DEFINE me == wk[w].task
  <2>6. ASSUME NEW q \in Runs, q = wk[w].run PROVE Paid(q)
    <3>1. /\ used[q]["agent_runs"] = Cardinality(CompletedRows(q, AgentNodes))
          /\ used[q]["llm_calls"] = Cardinality(CompletedRows(q, Analysts))
      BY DEF AgentsPaid
    <3>2. \A nodes : /\ IsFiniteSet(CompletedRows(q, nodes))
                     /\ Cardinality(CompletedRows(q, nodes)) \in Nat
      BY CountedFinite, FS_CardinalityType
    <3>3. /\ TaskOf(w).status \in {"ready", "running", "cancelled"}
          /\ row.node = TaskOf(w).node /\ TaskOf(w) = tasks[q][me]
      BY <2>4, <2>6 DEF Attended, RowAtHand, SameTask, TaskOf, AgentRan
    <3>4. \A nodes : me \notin CompletedRows(q, nodes)
      BY <3>3 DEF CompletedRows
    <3>5. \A nodes : CompletedRows(q, nodes)' =
                       (CompletedRows(q, nodes) \ {me})
                         \cup (IF row.node \in nodes /\ row.status = "completed" THEN {me} ELSE {})
      <4>1. \A nodes, p : p = wk[w].run =>
              CompletedRows(p, nodes)' =
                (CompletedRows(p, nodes) \ {wk[w].task})
                  \cup (IF row.node \in nodes /\ row.status = "completed" THEN {wk[w].task} ELSE {})
        BY <2>2, <2>4, TaskStepCounted
      <4> QED BY <2>6, <4>1
    <3>6. \A nodes : Cardinality(CompletedRows(q, nodes)') = Cardinality(CompletedRows(q, nodes)) +
                       (IF row.node \in nodes /\ row.status = "completed" THEN 1 ELSE 0)
      <4> SUFFICES ASSUME NEW nodes
                   PROVE  Cardinality(CompletedRows(q, nodes)') = Cardinality(CompletedRows(q, nodes)) +
                            (IF row.node \in nodes /\ row.status = "completed" THEN 1 ELSE 0)
        OBVIOUS
      <4> HIDE DEF me
      <4>1. CASE row.node \in nodes /\ row.status = "completed"
        <5>1. CompletedRows(q, nodes)' = CompletedRows(q, nodes) \cup {me}
          BY <3>4, <3>5, <4>1
        <5> QED BY <3>2, <3>4, <4>1, <5>1, FS_AddElement
      <4>2. CASE ~(row.node \in nodes /\ row.status = "completed")
        <5>1. CompletedRows(q, nodes)' = CompletedRows(q, nodes)
          BY <3>4, <3>5, <4>2
        <5> QED BY <3>2, <4>2, <5>1
      <4> QED BY <4>1, <4>2
    <3>7. /\ Cardinality(CompletedRows(q, AgentNodes)') = Cardinality(CompletedRows(q, AgentNodes)) +
               (IF row.node \in AgentNodes /\ row.status = "completed" THEN 1 ELSE 0)
          /\ Cardinality(CompletedRows(q, Analysts)') = Cardinality(CompletedRows(q, Analysts)) +
               (IF row.node \in Analysts /\ row.status = "completed" THEN 1 ELSE 0)
          /\ Cardinality(CompletedRows(q, AgentNodes)) \in Nat /\ Cardinality(CompletedRows(q, Analysts)) \in Nat
      BY <3>2, <3>6
    <3>8. CASE /\ row.status = "completed" /\ row.node \in AgentNodes
               /\ Adds(w, "agent_runs", 1)
               /\ Adds(w, "llm_calls", IF row.node \in Analysts THEN 1 ELSE 0)
      <4>1. /\ used'[q]["agent_runs"] = used[q]["agent_runs"] + 1
            /\ used'[q]["llm_calls"] = used[q]["llm_calls"] + (IF row.node \in Analysts THEN 1 ELSE 0)
        BY <2>6, <3>8 DEF Adds
      <4> QED BY <3>1, <3>7, <3>8, <4>1
    <3>9. CASE /\ row.status # "completed" \/ row.node \notin AgentNodes
               /\ Adds(w, "agent_runs", 0) /\ Adds(w, "llm_calls", 0)
      <4>1. /\ used'[q]["agent_runs"] = used[q]["agent_runs"] + 0
            /\ used'[q]["llm_calls"] = used[q]["llm_calls"] + 0
        BY <2>6, <3>9 DEF Adds
      <4>2. row.node \in Analysts => row.node \in AgentNodes
        BY DEF Analysts, AgentNodes
      <4> QED BY <3>1, <3>7, <3>9, <4>1, <4>2
    <3> QED BY <2>4, <3>8, <3>9 DEF AgentRan
  <2>7. ASSUME NEW q \in Runs, q # wk[w].run PROVE Paid(q)
    <3>1. /\ used'[q]["agent_runs"] = used[q]["agent_runs"]
          /\ used'[q]["llm_calls"] = used[q]["llm_calls"]
          /\ CompletedRows(q, AgentNodes)' = CompletedRows(q, AgentNodes)
          /\ CompletedRows(q, Analysts)' = CompletedRows(q, Analysts)
      BY <2>2, <2>4, <2>5, <2>7, OthersStand
    <3> QED BY <3>1 DEF AgentsPaid
  <2> QED BY <2>6, <2>7
<1> QED BY <1>2, <1>3, BooksStep

LEMMA BooksInit ==
  ASSUME Init
  PROVE  Collecting /\ ReplansPaid /\ CallsPaid /\ AgentsPaid
<1>1. \A r \in Runs : DOMAIN tasks[r] = {} /\ \A k \in Resources : used[r][k] = 0
  BY DEF Init
<1>2. /\ "replan_count" \in Resources /\ "probe_calls" \in Resources
      /\ "agent_runs" \in Resources /\ "llm_calls" \in Resources
  BY DEF Resources
<1>3. \A r \in Runs : /\ FollowUpRows(r) = {} /\ CallRows(r) = {}
                      /\ CompletedRows(r, AgentNodes) = {} /\ CompletedRows(r, Analysts) = {}
  BY <1>1 DEF FollowUpRows, CallRows, CompletedRows
<1>4. Collecting
  BY DEF Init, IdleWorker, Collecting
<1> QED BY <1>1, <1>2, <1>3, <1>4, FS_EmptySet DEF ReplansPaid, CallsPaid, AgentsPaid

(* What LedgerExact counts is what the books count. *)
LEMMA BooksAreTheLedger ==
  ASSUME ReplansPaid, CallsPaid, AgentsPaid, Calm
  PROVE  LedgerExact
<1> SUFFICES ASSUME NEW r \in Runs
             PROVE  LET CompletedIn(nodes) == Cardinality(UNION {Done(r, node) : node \in nodes})
                        Rows == {c \in (DOMAIN tasks[r]) \X Calls : tasks[r][c[1]].calls[c[2]] # "none"} IN
                    /\ used[r]["agent_runs"] = CompletedIn({"triage", "historical", "diagnostic", "critic",
                                                            "plan_candidate", "safety_review"})
                    /\ used[r]["llm_calls"] = CompletedIn({"diagnostic", "critic"})
                    /\ used[r]["replan_count"] = Cardinality({t \in DOMAIN tasks[r] :
                                  tasks[r][t].node = "evidence_collection" /\ tasks[r][t].round > 0})
                    /\ used[r]["probe_calls"] = Cardinality(Rows)
  BY DEF LedgerExact
<1>1. \A nodes : UNION {Done(r, node) : node \in nodes} = CompletedRows(r, nodes)
  BY DEF Done, CompletedRows
<1>2. {t \in DOMAIN tasks[r] : tasks[r][t].node = "evidence_collection" /\ tasks[r][t].round > 0} = FollowUpRows(r)
  BY DEF FollowUpRows, IsRequest
<1> QED BY <1>1, <1>2 DEF ReplansPaid, CallsPaid, AgentsPaid, CallRows, AgentNodes, Analysts

(* The budget is an exact ledger of what was committed, whatever crashes,
   retries, takeovers, rollbacks and superseding runs there are, until a live
   worker loses its lease: then an agent's task can complete twice, and is
   charged for twice. *)
THEOREM LedgerKept == Spec => [](env["stall"] = 0 /\ FALSE \notin CredStart => LedgerExact)
<1>1. ReplansPaid /\ CallsPaid /\ AgentsPaid =>
        (env["stall"] = 0 /\ FALSE \notin CredStart => LedgerExact)
  BY BooksAreTheLedger DEF Calm
<1> QED BY <1>1, RowsInvInit, RowsInvStep, CallsInvInit, CallsInvStep, LeaseInvInit, LeaseInvStep,
           AttendedInit, AttendedStep, BooksInit, CollectingStep, ReplansPaidStep, CallsPaidStep,
           AgentsPaidStep, PTL DEF Spec

(* Probes and replans are never charged wrongly, lost leases or not. *)
THEOREM ProbesAndReplansCounted == Spec => [](ReplansPaid /\ CallsPaid)
<1> QED BY RowsInvInit, RowsInvStep, CallsInvInit, CallsInvStep, BooksInit, CollectingStep,
           ReplansPaidStep, CallsPaidStep, PTL DEF Spec

-----------------------------------------------------------------------------
(* The gates of the diagnostic core.                                       *)

(* What decide reads in a run's rows, for any rows. *)
DoneIn(ts, node) == {t \in DOMAIN ts : ts[t].node = node /\ ts[t].status = "completed"}

LatestIn(ts) ==
  CHOOSE t \in DoneIn(ts, "diagnostic") :
    \A s \in DoneIn(ts, "diagnostic") :
      \/ ts[s].round < ts[t].round
      \/ ts[s].round = ts[t].round /\ s <= t

CriticsIn(ts)   == {t \in DoneIn(ts, "critic") : ts[t].round = ts[LatestIn(ts)].round}
FollowUpsIn(ts) == {t \in DOMAIN ts : ts[t].node = "evidence_collection"
                                      /\ ts[t].round = ts[LatestIn(ts)].round + 1}
WantedIn(ts)    == "requests" \in ts[LatestIn(ts)].out
NoCollect(ts) ==
  /\ DoneIn(ts, "evidence_collection") # {}
  /\ DoneIn(ts, "diagnostic") = {} \/ FollowUpsIn(ts) # {}
FailedIn(ts)    == \E t \in DOMAIN ts : ts[t].status = "completed" /\ "failed" \in ts[t].out

LEMMA ReadsRows ==
  ASSUME NEW r \in Runs
  PROVE  /\ \A node : Done(r, node) = DoneIn(tasks[r], node)
         /\ Latest(r) = LatestIn(tasks[r]) /\ LatestRound(r) = tasks[r][LatestIn(tasks[r])].round
         /\ Critics(r) = CriticsIn(tasks[r]) /\ FollowUps(r) = FollowUpsIn(tasks[r])
         /\ EvidenceWanted(r) = WantedIn(tasks[r]) /\ AgentFailed(r) = FailedIn(tasks[r])
<1>1. \A node : Done(r, node) = DoneIn(tasks[r], node)
  BY DEF Done, DoneIn
<1>2. Latest(r) = LatestIn(tasks[r])
  BY DEF Latest, LatestIn, Done, DoneIn
<1>3. LatestRound(r) = tasks[r][LatestIn(tasks[r])].round
  BY <1>2 DEF LatestRound
<1> QED
  BY <1>1, <1>2, <1>3 DEF Critics, CriticsIn, FollowUps, FollowUpsIn, EvidenceWanted, WantedIn,
                          AgentFailed, FailedIn

(* The latest diagnosis is the only one that no other comes after. *)
ComesLast(ts, t) ==
  \A s \in DoneIn(ts, "diagnostic") :
    \/ ts[s].round < ts[t].round
    \/ ts[s].round = ts[t].round /\ s <= t

LEMMA LatestComesLast ==
  ASSUME NEW ts, RowsOK(ts), DoneIn(ts, "diagnostic") # {}
  PROVE  /\ LatestIn(ts) \in DoneIn(ts, "diagnostic") /\ ComesLast(ts, LatestIn(ts))
         /\ \A t \in DoneIn(ts, "diagnostic") : ComesLast(ts, t) => t = LatestIn(ts)
<1> DEFINE D == DoneIn(ts, "diagnostic")
           Round(t) == ts[t].round
           N == Len(ts)
           rounds == {Round(t) : t \in D}
<1>1. /\ N \in Nat /\ DOMAIN ts = 1 .. N
      /\ \A t \in 1 .. N : Round(t) \in Nat /\ Round(t) <= t
  BY RowRounds
<1>2. D \subseteq 1 .. N
  BY <1>1 DEF DoneIn
<1>3. rounds \in SUBSET (0 .. N) /\ rounds # {}
  BY <1>1, <1>2
<1> HIDE DEF D
<1>4. PICK top \in rounds : \A k \in rounds : k <= top
  BY <1>1, <1>3, GreatestExists
<1> DEFINE T == {t \in D : Round(t) = top}
<1>5. T \in SUBSET (0 .. N) /\ T # {}
  <2>1. PICK t \in D : top = Round(t)
    OBVIOUS
  <2>2. t \in T
    BY <2>1
  <2>3. T \subseteq 0 .. N
    <3>1. T \subseteq D
      OBVIOUS
    <3>2. 1 .. N \subseteq 0 .. N
      BY <1>1
    <3> QED BY <3>1, <3>2, <1>2
  <2> QED BY <2>2, <2>3
<1>6. PICK last \in T : \A k \in T : k <= last
  BY <1>1, <1>5, GreatestExists
<1>7. \A s \in D : \/ Round(s) < Round(last)
                   \/ Round(s) = Round(last) /\ s <= last
  <2> SUFFICES ASSUME NEW s \in D
               PROVE  Round(s) < Round(last) \/ (Round(s) = Round(last) /\ s <= last)
    OBVIOUS
  <2>1. Round(last) = top
    OBVIOUS
  <2>2. Round(s) \in Nat /\ Round(last) \in Nat
    BY <1>1, <1>2
  <2>3. Round(s) \in rounds
    OBVIOUS
  <2>4. Round(s) <= top
    BY <2>3, <1>4
  <2>5. CASE Round(s) = top
    <3>1. s \in T
      BY <2>5
    <3> QED BY <3>1, <2>1, <2>5, <1>6
  <2> QED BY <2>1, <2>2, <2>4, <2>5
<1>8. \E t \in D : ComesLast(ts, t)
  BY <1>6, <1>7 DEF D, ComesLast
<1>9. LatestIn(ts) \in D /\ ComesLast(ts, LatestIn(ts))
  BY <1>8 DEF LatestIn, D, ComesLast
<1>10. ASSUME NEW t \in D, ComesLast(ts, t) PROVE t = LatestIn(ts)
  <2> DEFINE l == LatestIn(ts)
  <2>1. l \in D
    BY <1>9
  <2>2. /\ ts[t].round < ts[l].round \/ (ts[t].round = ts[l].round /\ t <= l)
        /\ ts[l].round < ts[t].round \/ (ts[l].round = ts[t].round /\ l <= t)
    BY <1>9, <1>10 DEF ComesLast, D
  <2>3. t \in Int /\ l \in Int /\ ts[t].round \in Int /\ ts[l].round \in Int
    <3>1. t \in 1 .. N /\ l \in 1 .. N
      BY <1>2, <2>1
    <3> HIDE DEF l
    <3> QED BY <1>1, <3>1
  <2> HIDE DEF l
  <2> QED BY <2>2, <2>3 DEF l
<1> QED BY <1>9, <1>10 DEF D

LEMMA LastExists ==
  ASSUME NEW ts, RowsOK(ts), NEW S \in SUBSET (DOMAIN ts), S # {}
  PROVE  LastOf(S) \in S /\ \A s \in S : s <= LastOf(S)
<1>1. Len(ts) \in Nat /\ S \in SUBSET (0 .. Len(ts))
  BY RowRounds
<1>2. \E m \in S : \A k \in S : k <= m
  BY <1>1, GreatestExists
<1> QED BY <1>2 DEF LastOf

LEMMA SameLatest ==
  ASSUME NEW ts, NEW new, RowsOK(ts), RowsOK(new),
         DoneIn(new, "diagnostic") = DoneIn(ts, "diagnostic"), DoneIn(ts, "diagnostic") # {},
         \A t \in DoneIn(ts, "diagnostic") : new[t].round = ts[t].round /\ new[t].out = ts[t].out
  PROVE  /\ LatestIn(new) = LatestIn(ts) /\ WantedIn(new) = WantedIn(ts)
         /\ new[LatestIn(new)].round = ts[LatestIn(ts)].round
         /\ new[LatestIn(new)].out = ts[LatestIn(ts)].out
<1>1. LatestIn(ts) \in DoneIn(ts, "diagnostic") /\ ComesLast(ts, LatestIn(ts))
  BY LatestComesLast
<1>2. ComesLast(new, LatestIn(ts))
  BY <1>1 DEF ComesLast
<1>3. LatestIn(ts) = LatestIn(new)
  BY <1>1, <1>2, LatestComesLast
<1> QED BY <1>1, <1>3 DEF WantedIn

(* Rows go on: they keep what identifies them and what they put out, what was done
   stays done, and nothing is done but row h. *)
GoneOn(ts, new, h) ==
  /\ RowsOK(ts) /\ RowsOK(new) /\ DOMAIN ts \subseteq DOMAIN new
  /\ \A t \in DOMAIN ts :
       /\ new[t].node = ts[t].node /\ new[t].round = ts[t].round /\ new[t].prio = ts[t].prio
       /\ t # h => /\ new[t].out = ts[t].out
                   /\ new[t].status = "completed" <=> ts[t].status = "completed"
  /\ \A t \in DOMAIN new : t \notin DOMAIN ts => new[t].status # "completed"
  /\ h \in DOMAIN ts => ts[h].status # "completed"

LEMMA DoneGoesOn ==
  ASSUME NEW ts, NEW new, NEW h, GoneOn(ts, new, h)
  PROVE  /\ \A node : DoneIn(ts, node) \subseteq DoneIn(new, node)
         /\ \A node : h \notin DoneIn(new, node) => DoneIn(new, node) = DoneIn(ts, node)
         /\ \A node : \A t \in DoneIn(ts, node) : new[t].out = ts[t].out /\ new[t].round = ts[t].round
<1>1. ASSUME NEW node, NEW t \in DoneIn(ts, node)
      PROVE  t \in DoneIn(new, node) /\ new[t].out = ts[t].out /\ new[t].round = ts[t].round
  BY <1>1 DEF GoneOn, DoneIn
<1>2. ASSUME NEW node, NEW t \in DoneIn(new, node), t # h
      PROVE  t \in DoneIn(ts, node)
  BY <1>2 DEF GoneOn, DoneIn
<1> QED BY <1>1, <1>2

(* As long as no diagnosis completes, the supervisor reads the same round. *)
LEMMA SameRound ==
  ASSUME NEW ts, NEW new, NEW h, GoneOn(ts, new, h), h \notin DoneIn(new, "diagnostic")
  PROVE  /\ DoneIn(new, "diagnostic") = DoneIn(ts, "diagnostic")
         /\ NoCollect(ts) => NoCollect(new)
         /\ DoneIn(ts, "diagnostic") # {} =>
              /\ LatestIn(new) = LatestIn(ts) /\ WantedIn(new) = WantedIn(ts)
              /\ new[LatestIn(new)].round = ts[LatestIn(ts)].round
              /\ new[LatestIn(new)].out = ts[LatestIn(ts)].out
              /\ CriticsIn(ts) \subseteq CriticsIn(new)
              /\ h \notin DoneIn(new, "critic") => CriticsIn(new) = CriticsIn(ts)
              /\ FollowUpsIn(ts) \subseteq FollowUpsIn(new)
<1>1. /\ \A node : DoneIn(ts, node) \subseteq DoneIn(new, node)
      /\ \A node : h \notin DoneIn(new, node) => DoneIn(new, node) = DoneIn(ts, node)
      /\ \A node : \A t \in DoneIn(ts, node) : new[t].out = ts[t].out /\ new[t].round = ts[t].round
  BY DoneGoesOn
<1>2. DoneIn(new, "diagnostic") = DoneIn(ts, "diagnostic") /\ RowsOK(ts) /\ RowsOK(new)
  BY <1>1 DEF GoneOn
<1>3. DoneIn(ts, "diagnostic") # {} =>
        /\ LatestIn(new) = LatestIn(ts) /\ WantedIn(new) = WantedIn(ts)
        /\ new[LatestIn(new)].round = ts[LatestIn(ts)].round
        /\ new[LatestIn(new)].out = ts[LatestIn(ts)].out
  BY <1>1, <1>2, SameLatest
<1>4. DoneIn(ts, "diagnostic") # {} =>
        /\ CriticsIn(ts) \subseteq CriticsIn(new)
        /\ h \notin DoneIn(new, "critic") => CriticsIn(new) = CriticsIn(ts)
  BY <1>1, <1>3 DEF CriticsIn
<1>5. DoneIn(ts, "diagnostic") # {} => FollowUpsIn(ts) \subseteq FollowUpsIn(new)
  BY <1>3 DEF FollowUpsIn, GoneOn
<1>6. NoCollect(ts) => NoCollect(new)
  BY <1>1, <1>2, <1>5 DEF NoCollect
<1> QED BY <1>2, <1>3, <1>4, <1>5, <1>6

-----------------------------------------------------------------------------
(* What the gates are about.                                               *)

(* The rows that decide what evidence the diagnosis has, and the rows before the
   first gate. *)
Gating(row) == row.node = "diagnostic" \/ IsRequest(row)
Early(row)  == row.node \notin {"supervisor", "critic", "plan_candidate", "safety_review"}

Pressing(ts) == {t \in DOMAIN ts : Gating(ts[t]) /\ ts[t].status \in ActiveTask}

(* In a run that workers look for, with these rows in hand, no diagnosis or request
   was dropped, one at a time goes on, a request before all else, and nothing is
   asked for during a diagnosis. *)
Whole(status, ts, hands) ==
  /\ \A t \in DOMAIN ts : Gating(ts[t]) => ts[t].status \in {"completed", "ready", "running"}
  /\ \A s, t \in Pressing(ts) : s = t
  /\ \A t \in Pressing(ts) :
       /\ IsRequest(ts[t]) => hands \subseteq {t}
       /\ ts[t].node = "diagnostic" => status = "running" /\ NoCollect(ts)

(* Nothing but row h has to be done before the supervisor decides. *)
Settled(ts, h) == \A t \in DOMAIN ts : Gating(ts[t]) => ts[t].status = "completed" \/ t = h

(* The gates are passed in order, and what is before one has been done with: it is not
   among the open rows. *)
DiagnosisOver(ts, open) ==
  /\ \A t \in DOMAIN ts : Early(ts[t]) => t \notin open
  /\ DoneIn(ts, "evidence_collection") # {} /\ DoneIn(ts, "diagnostic") # {}
  /\ ~WantedIn(ts)

CriticGate(ts, open) == (\E c \in DOMAIN ts : ts[c].node = "critic") => DiagnosisOver(ts, open)

PlanGate(ts, open) ==
  \A p \in DOMAIN ts : ts[p].node = "plan_candidate" =>
    /\ \A t \in DOMAIN ts : Early(ts[t]) \/ ts[t].node = "critic" => t < p /\ t \notin open
    /\ CriticsIn(ts) # {}

Reviewable(row) == row.node \notin {"supervisor", "safety_review"}

SafetyGate(ts, open) ==
  \A s \in DOMAIN ts : ts[s].node = "safety_review" =>
    /\ \A t \in DOMAIN ts : Reviewable(ts[t]) => t < s /\ t \notin open
    /\ DoneIn(ts, "plan_candidate") # {}

FailureGate(ts) == \A s \in DoneIn(ts, "safety_review") : "reject" \notin ts[s].out => ~FailedIn(ts)

Ordered(ts, open) == CriticGate(ts, open) /\ PlanGate(ts, open) /\ SafetyGate(ts, open) /\ FailureGate(ts)

(* GatesPassed, of the rows of one run. *)
AllPassed(ts) ==
  /\ DoneIn(ts, "diagnostic") # {} /\ CriticsIn(ts) # {}
  /\ "confirmable" \in ts[LatestIn(ts)].out
  /\ ~WantedIn(ts)
  /\ "reject" \notin ts[LastOf(CriticsIn(ts))].out
  /\ \E p \in DoneIn(ts, "plan_candidate"), s \in DoneIn(ts, "safety_review") :
       /\ LastOf(CriticsIn(ts)) < p /\ p < s
       /\ "reject" \notin ts[s].out
  /\ ~FailedIn(ts)

-----------------------------------------------------------------------------
(* Rows that go on keep the gates.                                         *)

(* No row has reached a gate yet. *)
BeforeGates(ts) == \A t \in DOMAIN ts : ts[t].node \notin {"critic", "plan_candidate", "safety_review"}

LEMMA NoGates ==
  ASSUME NEW ts, BeforeGates(ts), NEW open
  PROVE  Ordered(ts, open)
BY DEF BeforeGates, Ordered, CriticGate, PlanGate, SafetyGate, FailureGate, DoneIn

LEMMA StillBefore ==
  ASSUME NEW ts, NEW open, Ordered(ts, open),
         \/ \E t \in DOMAIN ts : Early(ts[t]) /\ t \in open
         \/ DoneIn(ts, "evidence_collection") = {}
         \/ DoneIn(ts, "diagnostic") = {}
         \/ WantedIn(ts)
  PROVE  BeforeGates(ts)
<1>1. ~DiagnosisOver(ts, open)
  BY DEF DiagnosisOver
<1>2. \A t \in DOMAIN ts : ts[t].node # "critic"
  BY <1>1 DEF Ordered, CriticGate
<1>3. CriticsIn(ts) = {}
  BY <1>2 DEF CriticsIn, DoneIn
<1>4. \A t \in DOMAIN ts : ts[t].node # "plan_candidate"
  BY <1>3 DEF Ordered, PlanGate
<1>5. \A t \in DOMAIN ts : ts[t].node # "safety_review"
  BY <1>4 DEF Ordered, SafetyGate, DoneIn
<1> QED BY <1>2, <1>4, <1>5 DEF BeforeGates

LEMMA BeforePlan ==
  ASSUME NEW ts, NEW open, Ordered(ts, open),
         \/ \E t \in DOMAIN ts : ts[t].node = "critic" /\ t \in open
         \/ CriticsIn(ts) = {}
  PROVE  \A t \in DOMAIN ts : ts[t].node \notin {"plan_candidate", "safety_review"}
<1>1. \A t \in DOMAIN ts : ts[t].node # "plan_candidate"
  BY DEF Ordered, PlanGate
<1> QED BY <1>1 DEF Ordered, SafetyGate, DoneIn

LEMMA BeforeSafety ==
  ASSUME NEW ts, NEW open, Ordered(ts, open),
         \/ \E t \in DOMAIN ts : ts[t].node = "plan_candidate" /\ t \in open
         \/ DoneIn(ts, "plan_candidate") = {}
  PROVE  \A t \in DOMAIN ts : ts[t].node # "safety_review"
BY DEF Ordered, SafetyGate, Reviewable

(* The diagnosis stays as it is, no row opens but those that are scheduled, and what is
   scheduled is not a row before the gates. *)
Passing(ts, new, h, open, open2) ==
  /\ GoneOn(ts, new, h) /\ h \notin DoneIn(new, "diagnostic")
  /\ \A t \in DOMAIN ts : t \in open2 => t \in open
  /\ \A t \in DOMAIN new : t \notin DOMAIN ts => ~Early(new[t])

LEMMA DiagnosisStays ==
  ASSUME NEW ts, NEW new, NEW h, NEW open, NEW open2, Passing(ts, new, h, open, open2),
         DiagnosisOver(ts, open)
  PROVE  DiagnosisOver(new, open2)
<1>1. GoneOn(ts, new, h)
  BY DEF Passing
<1>2. \A t \in DOMAIN new : Early(new[t]) => t \notin open2
  <2> SUFFICES ASSUME NEW t \in DOMAIN new, Early(new[t]) PROVE t \notin open2
    OBVIOUS
  <2>1. t \in DOMAIN ts
    BY DEF Passing
  <2>2. Early(ts[t])
    BY <1>1, <2>1 DEF GoneOn, Early
  <2> QED BY <2>1, <2>2 DEF DiagnosisOver, Passing
<1>3. DoneIn(new, "evidence_collection") # {}
  BY <1>1, DoneGoesOn DEF DiagnosisOver
<1>4. DoneIn(new, "diagnostic") # {} /\ ~WantedIn(new)
  BY <1>1, SameRound DEF DiagnosisOver, Passing
<1> QED BY <1>2, <1>3, <1>4 DEF DiagnosisOver

LEMMA CriticGateKept ==
  ASSUME NEW ts, NEW new, NEW h, NEW open, NEW open2, Passing(ts, new, h, open, open2),
         CriticGate(ts, open),
         (\E c \in DOMAIN new : c \notin DOMAIN ts /\ new[c].node = "critic") => DiagnosisOver(ts, open)
  PROVE  CriticGate(new, open2)
<1> SUFFICES ASSUME NEW c \in DOMAIN new, new[c].node = "critic" PROVE DiagnosisOver(new, open2)
  BY DEF CriticGate
<1>1. c \in DOMAIN ts => ts[c].node = "critic"
  BY DEF Passing, GoneOn
<1>2. DiagnosisOver(ts, open)
  BY <1>1 DEF CriticGate
<1> QED BY <1>2, DiagnosisStays

LEMMA PlanGateKept ==
  ASSUME NEW ts, NEW new, NEW h, NEW open, NEW open2, Passing(ts, new, h, open, open2),
         CriticGate(ts, open), PlanGate(ts, open),
         \A t \in DOMAIN new : t \notin DOMAIN ts => new[t].node # "critic",
         \A p \in DOMAIN new : p \notin DOMAIN ts /\ new[p].node = "plan_candidate" =>
           /\ \A t \in DOMAIN ts : Early(ts[t]) \/ ts[t].node = "critic" => t < p /\ t \notin open
           /\ CriticsIn(ts) # {}
  PROVE  PlanGate(new, open2)
<1> SUFFICES ASSUME NEW p \in DOMAIN new, new[p].node = "plan_candidate"
             PROVE  /\ \A t \in DOMAIN new : Early(new[t]) \/ new[t].node = "critic" => t < p /\ t \notin open2
                    /\ CriticsIn(new) # {}
  BY DEF PlanGate
<1>0. GoneOn(ts, new, h) /\ h \notin DoneIn(new, "diagnostic")
  BY DEF Passing
<1>1. /\ \A t \in DOMAIN ts : Early(ts[t]) \/ ts[t].node = "critic" => t < p /\ t \notin open
      /\ CriticsIn(ts) # {}
  BY <1>0 DEF PlanGate, GoneOn
<1>2. DoneIn(ts, "diagnostic") # {}
  BY <1>1 DEF CriticGate, DiagnosisOver, CriticsIn, DoneIn
<1>3. CriticsIn(ts) \subseteq CriticsIn(new)
  BY <1>0, <1>2, SameRound
<1>4. ASSUME NEW t \in DOMAIN new, Early(new[t]) \/ new[t].node = "critic"
      PROVE  t < p /\ t \notin open2
  <2>1. t \in DOMAIN ts
    BY <1>4 DEF Passing
  <2>2. Early(ts[t]) \/ ts[t].node = "critic"
    BY <1>0, <1>4, <2>1 DEF GoneOn, Early
  <2> QED BY <1>1, <2>1, <2>2 DEF Passing
<1> QED BY <1>1, <1>3, <1>4

LEMMA SafetyGateKept ==
  ASSUME NEW ts, NEW new, NEW h, NEW open, NEW open2, Passing(ts, new, h, open, open2),
         SafetyGate(ts, open),
         \A t \in DOMAIN new : t \notin DOMAIN ts => ~Reviewable(new[t]),
         \A s \in DOMAIN new : s \notin DOMAIN ts /\ new[s].node = "safety_review" =>
           /\ \A t \in DOMAIN ts : Reviewable(ts[t]) => t < s /\ t \notin open
           /\ DoneIn(ts, "plan_candidate") # {}
  PROVE  SafetyGate(new, open2)
<1> SUFFICES ASSUME NEW s \in DOMAIN new, new[s].node = "safety_review"
             PROVE  /\ \A t \in DOMAIN new : Reviewable(new[t]) => t < s /\ t \notin open2
                    /\ DoneIn(new, "plan_candidate") # {}
  BY DEF SafetyGate
<1>0. GoneOn(ts, new, h)
  BY DEF Passing
<1>1. /\ \A t \in DOMAIN ts : Reviewable(ts[t]) => t < s /\ t \notin open
      /\ DoneIn(ts, "plan_candidate") # {}
  BY <1>0 DEF SafetyGate, GoneOn
<1>2. DoneIn(new, "plan_candidate") # {}
  BY <1>0, <1>1, DoneGoesOn
<1>3. ASSUME NEW t \in DOMAIN new, Reviewable(new[t])
      PROVE  t < s /\ t \notin open2
  <2>1. t \in DOMAIN ts
    BY <1>3
  <2>2. Reviewable(ts[t])
    BY <1>0, <1>3, <2>1 DEF GoneOn, Reviewable
  <2> QED BY <1>1, <2>1, <2>2 DEF Passing
<1> QED BY <1>2, <1>3

LEMMA FailedStays ==
  ASSUME NEW ts, NEW new, NEW h, GoneOn(ts, new, h),
         h \in DOMAIN new /\ new[h].status = "completed" => "failed" \notin new[h].out
  PROVE  FailedIn(new) => FailedIn(ts)
BY DEF GoneOn, FailedIn

LEMMA FailureGateKept ==
  ASSUME NEW ts, NEW new, NEW h, GoneOn(ts, new, h), FailureGate(ts),
         h \in DOMAIN new /\ new[h].status = "completed" => "failed" \notin new[h].out,
         h \in DoneIn(new, "safety_review") => "reject" \in new[h].out \/ ~FailedIn(ts)
  PROVE  FailureGate(new)
<1> SUFFICES ASSUME NEW s \in DoneIn(new, "safety_review"), "reject" \notin new[s].out, FailedIn(new)
             PROVE  FALSE
  BY DEF FailureGate
<1>1. FailedIn(ts)
  BY FailedStays
<1>2. s # h
  BY <1>1
<1>3. s \in DoneIn(ts, "safety_review") /\ new[s].out = ts[s].out
  BY <1>2 DEF DoneIn, GoneOn
<1> QED BY <1>1, <1>3 DEF FailureGate

LEMMA AllPassedKept ==
  ASSUME NEW ts, NEW new, NEW h, GoneOn(ts, new, h), AllPassed(ts),
         h \notin DoneIn(new, "diagnostic"), h \notin DoneIn(new, "critic"),
         h \in DOMAIN new /\ new[h].status = "completed" => "failed" \notin new[h].out
  PROVE  AllPassed(new)
<1>1. /\ DoneIn(new, "diagnostic") # {} /\ CriticsIn(new) = CriticsIn(ts)
      /\ LatestIn(new) = LatestIn(ts) /\ WantedIn(new) = WantedIn(ts)
      /\ new[LatestIn(new)].out = ts[LatestIn(ts)].out
  BY SameRound DEF AllPassed
<1>2. \A node : \A t \in DoneIn(ts, node) : t \in DoneIn(new, node) /\ new[t].out = ts[t].out
  BY DoneGoesOn
<1>3. ~FailedIn(new)
  BY FailedStays DEF AllPassed
<1> DEFINE last == LastOf(CriticsIn(ts))
<1>4. LastOf(CriticsIn(new)) = last
  BY <1>1
<1>5. "reject" \notin new[last].out
  <2>1. CriticsIn(ts) \in SUBSET (DOMAIN ts) /\ CriticsIn(ts) # {} /\ RowsOK(ts)
    BY DEF CriticsIn, DoneIn, AllPassed, GoneOn
  <2>2. last \in CriticsIn(ts)
    BY <2>1, LastExists
  <2>3. last \in DoneIn(ts, "critic")
    BY <2>2 DEF CriticsIn
  <2>4. new[last].out = ts[last].out
    BY <1>2, <2>3
  <2>5. "reject" \notin ts[last].out
    BY DEF AllPassed
  <2> HIDE DEF last
  <2> QED BY <2>4, <2>5
<1>6. \E p \in DoneIn(new, "plan_candidate"), s \in DoneIn(new, "safety_review") :
        last < p /\ p < s /\ "reject" \notin new[s].out
  BY <1>2 DEF AllPassed
<1> HIDE DEF last
<1> QED BY <1>1, <1>3, <1>4, <1>5, <1>6 DEF AllPassed

LEMMA OrderedKept ==
  ASSUME NEW ts, NEW new, NEW h, NEW open, NEW open2, Passing(ts, new, h, open, open2), Ordered(ts, open),
         \A t \in DOMAIN new : t \notin DOMAIN ts => new[t].node = "supervisor",
         h \notin DoneIn(new, "safety_review"),
         h \in DOMAIN new /\ new[h].status = "completed" => "failed" \notin new[h].out
  PROVE  Ordered(new, open2)
<1>1. CriticGate(new, open2)
  BY CriticGateKept DEF Ordered
<1>2. PlanGate(new, open2)
  BY PlanGateKept DEF Ordered
<1>3. SafetyGate(new, open2)
  BY SafetyGateKept DEF Ordered, Reviewable
<1>4. FailureGate(new)
  BY FailureGateKept DEF Ordered, Passing
<1> QED BY <1>1, <1>2, <1>3, <1>4 DEF Ordered

(* Rows that go on keep a run whole. *)
LEMMA WholeKept ==
  ASSUME NEW ts, NEW new, NEW h, GoneOn(ts, new, h), NEW status, NEW status2, NEW hands, NEW hands2,
         Whole(status, ts, hands), hands2 \subseteq hands, status = "running" => status2 = "running",
         \A t \in DOMAIN new : Gating(new[t]) =>
           /\ t \in DOMAIN ts
           /\ \/ new[t].status = "completed"
              \/ new[t].status \in {"ready", "running"} /\ ts[t].status \in ActiveTask,
         \A t \in Pressing(new) : new[t].node = "diagnostic" /\ NoCollect(ts) => NoCollect(new)
  PROVE  Whole(status2, new, hands2)
<1>1. \A t \in DOMAIN ts : Gating(new[t]) = Gating(ts[t]) /\ IsRequest(new[t]) = IsRequest(ts[t])
                           /\ new[t].node = ts[t].node
  BY DEF GoneOn, Gating, IsRequest
<1>2. Pressing(new) \subseteq Pressing(ts)
  BY <1>1 DEF Pressing, ActiveTask
<1>3. ASSUME NEW t \in Pressing(new)
      PROVE  /\ IsRequest(new[t]) => hands2 \subseteq {t}
             /\ new[t].node = "diagnostic" => status2 = "running" /\ NoCollect(new)
  <2>1. t \in Pressing(ts) /\ t \in DOMAIN ts
    BY <1>2, <1>3 DEF Pressing
  <2> QED BY <1>1, <1>3, <2>1 DEF Whole
<1> QED BY <1>2, <1>3 DEF Whole

(* One row may go on when all else is done. *)
LEMMA WholeOne ==
  ASSUME NEW new, NEW h, NEW status, NEW hands, Settled(new, h),
         h \in DOMAIN new /\ Gating(new[h]) =>
           /\ new[h].status \in {"completed", "ready", "running"}
           /\ new[h].status # "completed" =>
                /\ IsRequest(new[h]) => hands \subseteq {h}
                /\ new[h].node = "diagnostic" => status = "running" /\ NoCollect(new)
  PROVE  Whole(status, new, hands)
<1>1. \A t \in Pressing(new) : t = h /\ new[t].status # "completed"
  BY DEF Pressing, Settled, ActiveTask
<1>2. \A t \in DOMAIN new : Gating(new[t]) => new[t].status \in {"completed", "ready", "running"}
  BY DEF Settled
<1> QED BY <1>1, <1>2 DEF Whole, Pressing

(* The step of a task: row h is rewritten, and fresh rows follow. *)
Rewrites(ts, new, h, todo) ==
  /\ RowsOK(ts) /\ RowsOK(new) /\ h \in DOMAIN ts /\ ts[h].status # "completed"
  /\ DOMAIN ts \subseteq DOMAIN new
  /\ new[h].node = ts[h].node /\ new[h].round = ts[h].round /\ new[h].prio = ts[h].prio
  /\ \A t \in DOMAIN ts : t # h => new[t] = ts[t]
  /\ DOMAIN new = 1 .. (Len(ts) + Len(todo))
  /\ Len(ts) \in Nat /\ Len(todo) \in Nat /\ DOMAIN ts = 1 .. Len(ts) /\ DOMAIN todo = 1 .. Len(todo)
  /\ \A t \in DOMAIN new : t \notin DOMAIN ts =>
       /\ t - Len(ts) \in DOMAIN todo /\ t \in Nat
       /\ new[t] = Fresh(todo[t - Len(ts)], Len(ts))
       /\ \A s \in DOMAIN ts : s < t

LEMMA RewritesGoOn ==
  ASSUME NEW ts, NEW new, NEW h, NEW todo, Rewrites(ts, new, h, todo)
  PROVE  /\ GoneOn(ts, new, h)
         /\ \A t \in DOMAIN new : t \notin DOMAIN ts =>
              /\ new[t].status = "ready" /\ t # h
              /\ \E i \in DOMAIN todo : /\ i = t - Len(ts) /\ new[t].node = todo[i].node
                                        /\ new[t].round = todo[i].round /\ new[t].prio = todo[i].prio
<1>1. \A t \in DOMAIN new : t \notin DOMAIN ts =>
        /\ new[t].status = "ready" /\ t # h
        /\ \E i \in DOMAIN todo : /\ i = t - Len(ts) /\ new[t].node = todo[i].node
                                  /\ new[t].round = todo[i].round /\ new[t].prio = todo[i].prio
  BY DEF Rewrites, Fresh
<1> QED BY <1>1 DEF Rewrites, GoneOn

(* When a task in hand completes, its run is whole after it. *)
LEMMA WholeAfter ==
  ASSUME NEW ts, NEW new, NEW h, NEW todo, Rewrites(ts, new, h, todo), new[h].status = "completed",
         \A i \in DOMAIN todo : todo[i].node # "diagnostic" /\ todo[i].node # "evidence_collection",
         NEW status, NEW status2, NEW hands,
         \/ Settled(ts, h)
         \/ Whole(status, ts, hands) /\ ts[h].status \in ActiveTask /\ (status = "running" => status2 = "running")
  PROVE  Whole(status2, new, {})
<1>1. /\ GoneOn(ts, new, h)
      /\ \A t \in DOMAIN new : t \notin DOMAIN ts => ~Gating(new[t])
  <2>1. /\ GoneOn(ts, new, h)
        /\ \A t \in DOMAIN new : t \notin DOMAIN ts => \E i \in DOMAIN todo : new[t].node = todo[i].node
    BY RewritesGoOn
  <2> QED BY <2>1 DEF Gating, IsRequest
<1>2. \A t \in DOMAIN ts : Gating(new[t]) = Gating(ts[t])
  BY <1>1 DEF GoneOn, Gating, IsRequest
<1>3. CASE \A t \in DOMAIN ts : Gating(ts[t]) => ts[t].status = "completed" \/ t = h
  <2>1. Settled(new, h)
    BY <1>1, <1>2, <1>3 DEF Settled, Rewrites
  <2> QED BY <2>1, WholeOne
<1>4. CASE Whole(status, ts, hands) /\ ts[h].status \in ActiveTask /\ (status = "running" => status2 = "running")
  <2>1. CASE ts[h].node = "diagnostic"
    <3>1. h \in Pressing(ts)
      BY <1>4, <2>1 DEF Pressing, Gating, Rewrites
    <3>2. \A t \in DOMAIN ts : Gating(ts[t]) /\ t # h => ts[t].status = "completed"
      <4> SUFFICES ASSUME NEW t \in DOMAIN ts, Gating(ts[t]), t # h, ts[t].status # "completed" PROVE FALSE
        OBVIOUS
      <4>1. t \in Pressing(ts)
        BY <1>4 DEF Pressing, Whole, ActiveTask
      <4> QED BY <1>4, <3>1, <4>1 DEF Whole
    <3> QED BY <1>3, <3>2
  <2>2. CASE ts[h].node # "diagnostic"
    <3>1. h \notin DoneIn(new, "diagnostic")
      BY <2>2 DEF DoneIn, Rewrites
    <3>2. NoCollect(ts) => NoCollect(new)
      BY <1>1, <3>1, SameRound
    <3>3. \A t \in DOMAIN new : Gating(new[t]) =>
            /\ t \in DOMAIN ts
            /\ \/ new[t].status = "completed"
               \/ new[t].status \in {"ready", "running"} /\ ts[t].status \in ActiveTask
      <4> SUFFICES ASSUME NEW t \in DOMAIN new, Gating(new[t]), t # h
                   PROVE  /\ t \in DOMAIN ts
                          /\ \/ new[t].status = "completed"
                             \/ new[t].status \in {"ready", "running"} /\ ts[t].status \in ActiveTask
        BY DEF Rewrites
      <4>1. t \in DOMAIN ts
        BY <1>1
      <4>2. new[t] = ts[t]
        BY <4>1 DEF Rewrites
      <4> QED BY <1>4, <4>1, <4>2 DEF Whole, ActiveTask
    <3> QED BY <1>1, <1>4, <3>2, <3>3, WholeKept
  <2> QED BY <2>1, <2>2
<1> QED BY <1>3, <1>4 DEF Settled

-----------------------------------------------------------------------------
(* The invariant.                                                          *)

(* A worker that has read its run and task again, and goes on with them. *)
Begins(w, r) == wk[w].pc = "begun" /\ wk[w].run = r /\ wk[w].seen.task # "cancelled"

(* A run that may still complete: workers look for it, or it was superseded under
   a worker that has not noticed and may bring it back. *)
AtStake(r) ==
  \/ run[r].status \in Claimable
  \/ run[r].status = "cancelled" /\ \E w \in Workers : Begins(w, r)

(* The rows that may still complete, and those in hand. *)
OpenRows(r) ==
  {t \in DOMAIN tasks[r] : \/ tasks[r][t].status \in ActiveTask
                           \/ \E w \in Workers : Begins(w, r) /\ wk[w].task = t}
InHand(r) == {t \in DOMAIN tasks[r] : \E w \in Workers : WorksOn(w, r) /\ wk[w].pc # "finish" /\ wk[w].task = t}

(* What a worker holds in memory of its run and task is what they are, or they were
   superseded since. *)
Holds(w) ==
  wk[w].pc \notin {"idle", "finish"} =>
    LET status == run[wk[w].run].status IN
    /\ status \in Claimable \cup {"cancelled"}
    /\ wk[w].pc = "claimed" /\ status = "cancelled" => TaskOf(w).status = "cancelled"
    /\ Begins(w, wk[w].run) /\ status \in Claimable => wk[w].seen.run = status

(* A superseded run that its worker may bring back has dropped no diagnosis or request
   either, or the worker could only do so by asking for a collection, and will not. *)
Judged(r) ==
  /\ run[r].status \in Claimable => Whole(run[r].status, tasks[r], InHand(r))
  /\ run[r].status = "cancelled" =>
       \A w \in Workers : Begins(w, r) =>
         Settled(tasks[r], wk[w].task) \/ (wk[w].seen.run = "running" /\ NoCollect(tasks[r]))
  /\ AtStake(r) => Ordered(tasks[r], OpenRows(r))
  /\ run[r].status = "completed" => AllPassed(tasks[r])

(* Requests are the rows that go before all others. *)
RequestsFirst ==
  \A r \in Runs : \A t \in DOMAIN tasks[r] : IsRequest(tasks[r][t]) <=> tasks[r][t].prio = 80

GatesOf(r) == Judged(r) /\ \A w \in Workers : WorksOn(w, r) => Holds(w)

GatesInv == RequestsFirst /\ (Calm => \A r \in Runs : GatesOf(r))

(* A run whose rows keep their status, and whose workers do not begin. *)
Stands(r) ==
  /\ run'[r].status = run[r].status
  /\ DOMAIN tasks'[r] = DOMAIN tasks[r]
  /\ \A t \in DOMAIN tasks[r] :
       LET row == tasks[r][t]   new == tasks'[r][t] IN
       /\ new.node = row.node /\ new.round = row.round /\ new.prio = row.prio
       /\ new.out = row.out /\ new.status = row.status
  /\ \A v \in Workers : WorksOn(v, r)' =>
       /\ WorksOn(v, r) /\ wk'[v].task = wk[v].task
       /\ wk'[v].pc # "finish" => wk[v].pc # "finish"
       /\ wk'[v].pc = "begun" => wk[v].pc = "begun" /\ wk'[v].seen = wk[v].seen
       /\ wk'[v].pc = "claimed" => wk[v].pc = "claimed"

LEMMA StandingGone ==
  ASSUME RowsInv, AllRowsOK', NEW r \in Runs, Stands(r)
  PROVE  /\ GoneOn(tasks[r], tasks'[r], 0) /\ 0 \notin DOMAIN tasks[r] /\ 0 \notin DOMAIN tasks'[r]
         /\ \A node : 0 \notin DoneIn(tasks'[r], node)
<1>1. RowsOK(tasks[r]) /\ RowsOK(tasks'[r])
  BY DEF RowsInv, AllRowsOK
<1>2. 0 \notin DOMAIN tasks[r]
  <2>1. DOMAIN tasks[r] = 1 .. Len(tasks[r]) /\ Len(tasks[r]) \in Nat
    BY <1>1, RowRounds
  <2> QED BY <2>1
<1> QED BY <1>1, <1>2 DEF Stands, GoneOn, DoneIn

LEMMA StandingHands ==
  ASSUME RowsInv, NEW r \in Runs, Stands(r)
  PROVE  /\ \A v \in Workers : Begins(v, r)' => Begins(v, r) /\ wk'[v].task = wk[v].task
                                                /\ wk'[v].seen = wk[v].seen
         /\ InHand(r)' \subseteq InHand(r)
         /\ OpenRows(r)' \subseteq OpenRows(r)
         /\ AtStake(r)' => AtStake(r)
<1>1. \A v \in Workers : Begins(v, r)' => Begins(v, r) /\ wk'[v].task = wk[v].task
                                          /\ wk'[v].seen = wk[v].seen
  BY DEF Begins, Stands, WorksOn
<1>2. InHand(r)' \subseteq InHand(r)
  BY DEF InHand, Stands
<1>3. OpenRows(r)' \subseteq OpenRows(r)
  BY <1>1 DEF OpenRows, Stands
<1>4. AtStake(r)' => AtStake(r)
  BY <1>1 DEF AtStake, Stands
<1> QED BY <1>1, <1>2, <1>3, <1>4

LEMMA StandingJudged ==
  ASSUME RowsInv, AllRowsOK', NEW r \in Runs, Stands(r), Judged(r)
  PROVE  Judged(r)'
<1> DEFINE ts == tasks[r]
           new == tasks'[r]
           status == run[r].status
<1>1. /\ GoneOn(ts, new, 0) /\ 0 \notin DOMAIN ts /\ 0 \notin DOMAIN new
      /\ \A node : 0 \notin DoneIn(new, node)
  BY StandingGone
<1>2. /\ \A v \in Workers : Begins(v, r)' => Begins(v, r) /\ wk'[v].task = wk[v].task
                                             /\ wk'[v].seen = wk[v].seen
      /\ InHand(r)' \subseteq InHand(r)
      /\ OpenRows(r)' \subseteq OpenRows(r)
      /\ AtStake(r)' => AtStake(r)
  BY StandingHands
<1>3. NoCollect(ts) => NoCollect(new)
  BY <1>1, SameRound
<1>4. /\ run'[r].status = status /\ DOMAIN new = DOMAIN ts
      /\ \A t \in DOMAIN ts : new[t].status = ts[t].status /\ Gating(new[t]) = Gating(ts[t])
  BY DEF Stands, Gating, IsRequest
<1>5. status \in Claimable => Whole(status, new, InHand(r)')
  <2> SUFFICES ASSUME status \in Claimable PROVE Whole(status, new, InHand(r)')
    OBVIOUS
  <2>1. Whole(status, ts, InHand(r))
    BY DEF Judged
  <2>2. \A t \in DOMAIN new : Gating(new[t]) =>
           /\ t \in DOMAIN ts
           /\ \/ new[t].status = "completed"
              \/ new[t].status \in {"ready", "running"} /\ ts[t].status \in ActiveTask
    BY <1>4, <2>1 DEF Whole, ActiveTask
  <2> HIDE DEF ts, new, status
  <2> QED BY <1>1, <1>2, <1>3, <2>1, <2>2, WholeKept
<1>6. \A t : Settled(ts, t) => Settled(new, t)
  BY <1>4 DEF Settled
<1>7. status = "cancelled" =>
       \A w \in Workers : Begins(w, r)' =>
         Settled(new, wk'[w].task) \/ (wk'[w].seen.run = "running" /\ NoCollect(new))
  BY <1>2, <1>3, <1>6 DEF Judged
<1>8. AtStake(r)' => Ordered(new, OpenRows(r)')
  <2> SUFFICES ASSUME AtStake(r)' PROVE Ordered(new, OpenRows(r)')
    OBVIOUS
  <2>1. Ordered(ts, OpenRows(r))
    BY <1>2 DEF Judged
  <2>2. Passing(ts, new, 0, OpenRows(r), OpenRows(r)')
    BY <1>1, <1>2, <1>4 DEF Passing
  <2> HIDE DEF ts, new, status
  <2> QED BY <1>1, <1>4, <2>1, <2>2, OrderedKept
<1>9. status = "completed" => AllPassed(new)
  <2> SUFFICES ASSUME status = "completed" PROVE AllPassed(new)
    OBVIOUS
  <2>1. AllPassed(ts)
    BY DEF Judged
  <2> HIDE DEF ts, new, status
  <2> QED BY <1>1, <2>1, AllPassedKept
<1> QED BY <1>4, <1>5, <1>7, <1>8, <1>9 DEF Judged

LEMMA StandingGates ==
  ASSUME RowsInv, AllRowsOK', HoldsRow', NEW r \in Runs, Stands(r), GatesOf(r)
  PROVE  GatesOf(r)'
<1>1. Judged(r)'
  BY StandingJudged DEF GatesOf
<1>2. ASSUME NEW v \in Workers, WorksOn(v, r)' PROVE Holds(v)'
  <2>1. /\ WorksOn(v, r) /\ wk'[v].task = wk[v].task /\ wk[v].run = r /\ wk'[v].run = r
        /\ wk'[v].pc # "finish" => wk[v].pc # "finish"
        /\ wk'[v].pc = "begun" => wk[v].pc = "begun" /\ wk'[v].seen = wk[v].seen
        /\ wk'[v].pc = "claimed" => wk[v].pc = "claimed"
    BY <1>2 DEF Stands, WorksOn
  <2>2. wk[v].task \in DOMAIN tasks[r]
    BY <2>1, Held DEF WorksOn
  <2>3. TaskOf(v)'.status = TaskOf(v).status /\ run'[r].status = run[r].status
    BY <2>1, <2>2 DEF Stands, TaskOf
  <2>4. Begins(v, r)' => Begins(v, r) /\ wk'[v].seen = wk[v].seen
    BY <2>1 DEF Begins
  <2>5. Holds(v)
    BY <2>1 DEF GatesOf
  <2> QED BY <2>1, <2>3, <2>4, <2>5 DEF Holds, WorksOn
<1> QED BY <1>1, <1>2 DEF GatesOf

LEMMA OrderedFewer ==
  ASSUME NEW ts, NEW open, NEW open2, Ordered(ts, open), open2 \subseteq open
  PROVE  Ordered(ts, open2)
<1>1. CriticGate(ts, open2)
  BY DEF Ordered, CriticGate, DiagnosisOver
<1>2. PlanGate(ts, open2)
  BY DEF Ordered, PlanGate
<1>3. SafetyGate(ts, open2)
  BY DEF Ordered, SafetyGate
<1> QED BY <1>1, <1>2, <1>3 DEF Ordered

(* A worker alone on its run. *)
LEMMA Alone ==
  ASSUME RowsInv, LeaseInv, Calm, NEW w \in Workers, NEW r \in Runs, WorksOn(w, r)
  PROVE  \A v \in Workers : WorksOn(v, r) => v = w
BY DEF LeaseInv, LeaseHeld, Calm, NeverParked

LEMMA NotingGates ==
  ASSUME RowsInv, LeaseInv, Attended, Calm, NEW w \in Workers, Reread(w),
         NEW r \in Runs, wk[w].run = r, GatesOf(r)
  PROVE  GatesOf(r)'
<1>0. /\ wk[w].pc = "claimed" /\ WorksOn(w, r) /\ UNCHANGED <<run, tasks>>
      /\ wk[w].task \in DOMAIN tasks[r]
  BY Held DEF Reread, WorksOn
<1>1. /\ wk'[w].pc = "begun" /\ wk'[w].run = r /\ wk'[w].task = wk[w].task
      /\ wk'[w].seen = [run |-> run[r].status, task |-> TaskOf(w).status, attempts |-> TaskOf(w).attempts]
      /\ \A v \in Workers : v # w => wk'[v] = wk[v]
  <2>1. wk \in [Workers -> Worker]
    BY DEF RowsInv, TypeOK
  <2> QED BY <2>1 DEF Reread, TaskOf, Worker
<1>2. \A v \in Workers : WorksOn(v, r) <=> v = w
  BY <1>0, Alone
<1>3. /\ Holds(w) /\ TaskOf(w).status \in {"ready", "running", "cancelled"}
      /\ run[r].status \in Claimable \cup {"cancelled"}
      /\ run[r].status = "cancelled" => TaskOf(w).status = "cancelled"
  BY <1>0 DEF GatesOf, Attended, RowAtHand, Holds
<1>4. \A v \in Workers : Begins(v, r)' =>
        /\ v = w /\ run[r].status \in Claimable /\ TaskOf(w).status \in ActiveTask
        /\ wk'[w].seen.run = run[r].status
  <2> SUFFICES ASSUME NEW v \in Workers, Begins(v, r)'
               PROVE  /\ v = w /\ run[r].status \in Claimable /\ TaskOf(w).status \in ActiveTask
                      /\ wk'[w].seen.run = run[r].status
    OBVIOUS
  <2>1. v = w
    BY <1>1, <1>2 DEF Begins, WorksOn
  <2>2. TaskOf(w).status # "cancelled"
    BY <1>1, <2>1 DEF Begins
  <2> QED BY <1>1, <1>3, <2>1, <2>2 DEF ActiveTask
<1>5. InHand(r)' = InHand(r)
  BY <1>0, <1>1 DEF InHand, WorksOn
<1>6. OpenRows(r)' \subseteq OpenRows(r)
  BY <1>0, <1>1, <1>4 DEF OpenRows, TaskOf
<1>7. AtStake(r)' => AtStake(r)
  BY <1>0, <1>4 DEF AtStake
<1>8. AtStake(r)' => Ordered(tasks[r], OpenRows(r)')
  BY <1>6, <1>7, OrderedFewer DEF Judged, GatesOf
<1>9. run[r].status = "cancelled" => \A v \in Workers : ~Begins(v, r)'
  BY <1>4 DEF Claimable
<1>10. Judged(r)'
  BY <1>0, <1>5, <1>8, <1>9 DEF Judged, GatesOf
<1>11. Holds(w)'
  BY <1>0, <1>1, <1>3, <1>4 DEF Holds
<1>12. \A v \in Workers : WorksOn(v, r)' => v = w
  BY <1>1, <1>2 DEF WorksOn
<1> QED BY <1>10, <1>11, <1>12 DEF GatesOf

LEMMA ClaimGates ==
  ASSUME RowsInv, RowsInv', LeaseInv, Attended, Calm, RequestsFirst, NEW w \in Workers, Claim(w),
         \A r \in Runs : GatesOf(r)
  PROVE  \A r \in Runs : GatesOf(r)'
<1>1. PICK r \in Runs :
        /\ wk[w].pc = "idle" /\ CanClaim(r)
        /\ tasks' = [tasks EXCEPT ![r] = Recovered(r)]
        /\ \A v \in Workers : v # w => wk'[v] = wk[v]
        /\ \A q \in Runs : q # r => run'[q] = run[q] /\ tasks'[q] = tasks[q]
        /\ run'[r].status = run[r].status
        /\ \/ /\ wk'[w].pc = "claimed" /\ wk'[w].run = r
              /\ wk'[w].task \in Picks(Recovered(r))
           \/ UNCHANGED wk
  BY ClaimStep
<1>2. ASSUME NEW q \in Runs, q # r PROVE GatesOf(q)'
  <2>1. Stands(q)
    BY <1>1, <1>2 DEF Stands, WorksOn
  <2> QED BY <2>1, StandingGates DEF RowsInv
<1>3. \A v \in Workers : ~WorksOn(v, r)
  BY <1>1, ClaimedAlone DEF Calm, NeverParked
<1>4. \A v \in Workers : WorksOn(v, r)' => v = w /\ wk'[w].pc = "claimed" /\ wk'[w].task \in Picks(Recovered(r))
  BY <1>1, <1>3 DEF WorksOn
<1>5. \A v \in Workers : ~Begins(v, r)'
  BY <1>4 DEF Begins, WorksOn
<1>6. tasks'[r] = Recovered(r)
  BY <1>1 DEF RowsInv, TypeOK
<1> DEFINE ts == tasks[r]
           new == tasks'[r]
           status == run[r].status
<1>7. status \in Claimable /\ run[r].lease # "held" /\ Whole(status, ts, InHand(r)) /\ Ordered(ts, OpenRows(r))
  BY <1>1 DEF CanClaim, GatesOf, Judged, AtStake
<1>8. /\ DOMAIN new = DOMAIN ts
      /\ \A t \in DOMAIN ts :
           /\ Restatus(ts[t], new[t])
           /\ new[t].status = IF ts[t].status = "running" THEN "ready" ELSE ts[t].status
  <2>1. /\ DOMAIN new = DOMAIN ts
        /\ \A t \in DOMAIN ts :
             /\ Restatus(ts[t], new[t])
             /\ new[t].status = IF run[r].lease = "expired" /\ run[r].started /\ ts[t].status = "running"
                                THEN "ready" ELSE ts[t].status
    BY <1>6, RecoveredRows
  <2>2. run[r].lease \in {"free", "held", "expired"}
    BY DEF RowsInv, TypeOK, RunRecord
  <2>3. \A t \in DOMAIN ts : ts[t].status = "running" => run[r].started /\ run[r].lease = "expired"
    BY <1>3, <1>7, <2>2 DEF Attended, RunningHeld
  <2> HIDE DEF ts, new
  <2> QED BY <2>1, <2>3
<1>9. /\ GoneOn(ts, new, 0) /\ 0 \notin DOMAIN new /\ \A node : 0 \notin DoneIn(new, node)
  <2>1. RowsOK(ts) /\ RowsOK(new)
    BY DEF RowsInv, AllRowsOK
  <2>2. 0 \notin DOMAIN ts
    BY <2>1, RowRounds
  <2> HIDE DEF ts, new
  <2> QED BY <1>8, <2>1, <2>2 DEF GoneOn, DoneIn, Restatus
<1>10. \A t \in DOMAIN ts : /\ Gating(new[t]) = Gating(ts[t]) /\ IsRequest(new[t]) = IsRequest(ts[t])
                            /\ new[t].prio = ts[t].prio
  BY <1>8 DEF Restatus, Gating, IsRequest
<1>11. Whole(status, new, {})
  <2>1. \A t \in DOMAIN new : Gating(new[t]) =>
           /\ t \in DOMAIN ts
           /\ \/ new[t].status = "completed"
              \/ new[t].status \in {"ready", "running"} /\ ts[t].status \in ActiveTask
    BY <1>7, <1>8, <1>10 DEF Whole, ActiveTask
  <2>2. NoCollect(ts) => NoCollect(new)
    BY <1>9, SameRound
  <2> HIDE DEF ts, new, status
  <2> QED BY <1>7, <1>9, <2>1, <2>2, WholeKept
<1>12. ASSUME NEW t \in Pressing(new), IsRequest(new[t]) PROVE InHand(r)' \subseteq {t}
  <2> SUFFICES ASSUME NEW s \in InHand(r)' PROVE s = t
    OBVIOUS
  <2>1. s \in Picks(new) /\ s \in DOMAIN new
    BY <1>4, <1>6 DEF InHand
  <2>2. t \in DOMAIN new /\ new[t].status = "ready" /\ new[t].prio = 80
    BY <1>8, <1>10, <1>11, <1>12 DEF Pressing, Whole, RequestsFirst, ActiveTask
  <2>3. new[s].status = "ready" /\ ~(new[t].prio < new[s].prio)
    <3> HIDE DEF new
    <3> QED BY <2>1, <2>2 DEF Picks
  <2>4. new[s].prio \in {80, 90, 100}
    <3>1. new[s] \in Task
      BY <2>1, LenProperties, ElementOfSeq DEF RowsInv, AllRowsOK, RowsOK
    <3> QED BY <3>1 DEF Task
  <2>5. new[s].prio = 80
    BY <2>2, <2>3, <2>4
  <2>6. IsRequest(new[s])
    BY <1>8, <1>10, <2>1, <2>5 DEF RequestsFirst
  <2>7. s \in Pressing(new)
    BY <2>1, <2>3, <2>6 DEF Pressing, Gating, ActiveTask
  <2> QED BY <1>11, <1>12, <2>7 DEF Whole
<1>13. Whole(status, new, InHand(r)')
  BY <1>11, <1>12 DEF Whole
<1>14. Ordered(new, OpenRows(r)')
  <2>1. OpenRows(r)' \subseteq OpenRows(r)
    BY <1>5, <1>8 DEF OpenRows, ActiveTask
  <2>2. Passing(ts, new, 0, OpenRows(r), OpenRows(r)')
    BY <1>8, <1>9, <2>1 DEF Passing
  <2> HIDE DEF ts, new
  <2> QED BY <1>7, <1>8, <1>9, <2>2, OrderedKept
<1>15. Judged(r)'
  BY <1>1, <1>5, <1>7, <1>13, <1>14 DEF Judged, Claimable
<1>16. \A v \in Workers : WorksOn(v, r)' => Holds(v)'
  <2> SUFFICES ASSUME NEW v \in Workers, WorksOn(v, r)' PROVE Holds(v)'
    OBVIOUS
  <2>1. wk'[v].pc = "claimed" /\ wk'[v].run = r /\ run'[r].status \in Claimable
    BY <1>1, <1>4, <1>7 DEF WorksOn
  <2> QED BY <2>1 DEF Holds, Begins, Claimable
<1>17. GatesOf(r)'
  BY <1>15, <1>16 DEF GatesOf
<1> QED BY <1>2, <1>17

(* A run superseded under its worker. *)
LEMMA DropGates ==
  ASSUME RowsInv, RowsInv', LeaseInv, Attended, Calm, NEW r \in Runs, Enqueue(r),
         NEW q \in Superseded, q # r, GatesOf(q)
  PROVE  GatesOf(q)'
<1> DEFINE ts == tasks[q]
           new == tasks'[q]
           status == run[q].status
<1>1. q \in Runs /\ status \in ActiveRun
  BY DEF Superseded
<1>2. status \in Claimable
  <2>1. run[q].cred
    BY <1>1 DEF LeaseInv, CredKnown, Calm, ActiveRun, Claimable
  <2>2. status # "waiting_human"
    BY <1>1, <2>1 DEF LeaseInv, GateHeld
  <2> QED BY <1>1, <2>2 DEF ActiveRun
<1>3. run'[q].status = "cancelled" /\ UNCHANGED wk
  <2>1. UNCHANGED wk /\ run \in [Runs -> RunRecord]
    BY DEF Enqueue, RowsInv, TypeOK
  <2>2. run'[q] = [run[q] EXCEPT !.status = "cancelled"]
    BY <1>1 DEF Enqueue
  <2> QED BY <1>1, <2>1, <2>2 DEF RunRecord
<1>4. /\ DOMAIN new = DOMAIN ts
      /\ \A t \in DOMAIN ts :
           /\ Restatus(ts[t], new[t])
           /\ new[t].status = IF ts[t].status \in ActiveTask THEN "cancelled" ELSE ts[t].status
  BY <1>1, EnqueuedRows
<1>5. /\ GoneOn(ts, new, 0) /\ 0 \notin DOMAIN new /\ \A node : 0 \notin DoneIn(new, node)
  <2>1. RowsOK(ts) /\ RowsOK(new)
    BY <1>1 DEF RowsInv, AllRowsOK
  <2>2. 0 \notin DOMAIN ts
    BY <2>1, RowRounds
  <2> HIDE DEF ts, new
  <2> QED BY <1>4, <2>1, <2>2 DEF GoneOn, DoneIn, Restatus, ActiveTask
<1>6. \A t \in DOMAIN ts : /\ Gating(new[t]) = Gating(ts[t]) /\ IsRequest(new[t]) = IsRequest(ts[t])
  BY <1>4 DEF Restatus, Gating, IsRequest
<1>7. Whole(status, ts, InHand(q)) /\ Ordered(ts, OpenRows(q))
  BY <1>2 DEF GatesOf, Judged, AtStake
<1>8. \A v \in Workers : /\ Begins(v, q)' = Begins(v, q) /\ WorksOn(v, q)' = WorksOn(v, q)
                         /\ wk'[v] = wk[v]
  BY <1>3 DEF Begins, WorksOn
<1>9. ASSUME NEW v \in Workers, Begins(v, q)
      PROVE  Settled(new, wk[v].task) \/ (wk[v].seen.run = "running" /\ NoCollect(new))
  <2>1. /\ wk[v].pc = "begun" /\ WorksOn(v, q) /\ wk[v].run = q /\ Holds(v)
        /\ wk[v].task \in DOMAIN ts
    BY <1>9, Held DEF Begins, WorksOn, GatesOf
  <2>2. wk[v].seen.run = status
    BY <1>2, <1>9, <2>1 DEF Holds
  <2>3. wk[v].task \in InHand(q)
    BY <2>1 DEF InHand
  <2>4. CASE \A t \in Pressing(ts) : t = wk[v].task
    <3>1. Settled(new, wk[v].task)
      <4> SUFFICES ASSUME NEW t \in DOMAIN new, Gating(new[t]), t # wk[v].task
                   PROVE  new[t].status = "completed"
        BY DEF Settled
      <4>1. t \in DOMAIN ts /\ Gating(ts[t]) /\ t \notin Pressing(ts)
        BY <1>4, <1>6, <2>4
      <4>2. ts[t].status = "completed"
        BY <1>7, <4>1 DEF Whole, Pressing, ActiveTask
      <4> QED BY <1>4, <4>1, <4>2 DEF ActiveTask
    <3> QED BY <3>1
  <2>5. ASSUME NEW t \in Pressing(ts), t # wk[v].task
        PROVE  wk[v].seen.run = "running" /\ NoCollect(new)
    <3>1. ~IsRequest(ts[t])
      BY <1>7, <2>3, <2>5 DEF Whole
    <3>2. ts[t].node = "diagnostic"
      BY <3>1 DEF Pressing, Gating
    <3>3. status = "running" /\ NoCollect(ts)
      BY <1>7, <3>2 DEF Whole
    <3>4. NoCollect(new)
      BY <1>5, <3>3, SameRound
    <3> QED BY <2>2, <3>3, <3>4
  <2> QED BY <2>4, <2>5
<1>10. Ordered(new, OpenRows(q)')
  <2>1. OpenRows(q)' \subseteq OpenRows(q)
    BY <1>4, <1>8 DEF OpenRows, ActiveTask
  <2>2. Passing(ts, new, 0, OpenRows(q), OpenRows(q)')
    BY <1>4, <1>5, <2>1 DEF Passing
  <2> HIDE DEF ts, new
  <2> QED BY <1>4, <1>5, <1>7, <2>2, OrderedKept
<1>11. Judged(q)'
  BY <1>3, <1>8, <1>9, <1>10 DEF Judged, Claimable
<1>12. ASSUME NEW v \in Workers, WorksOn(v, q)' PROVE Holds(v)'
  <2>1. WorksOn(v, q) /\ wk'[v] = wk[v] /\ wk[v].run = q /\ wk[v].task \in DOMAIN ts
    BY <1>8, <1>12, Held DEF WorksOn
  <2>2. wk[v].pc = "claimed" => TaskOf(v).status \in {"ready", "running", "cancelled"}
    BY <2>1 DEF Attended, RowAtHand
  <2>3. wk[v].pc = "claimed" => new[wk[v].task].status = "cancelled"
    BY <1>4, <2>1, <2>2 DEF TaskOf, ActiveTask
  <2> QED BY <1>3, <2>1, <2>3 DEF Holds, TaskOf, Claimable
<1> QED BY <1>11, <1>12 DEF GatesOf

LEMMA EnqueueGates ==
  ASSUME RowsInv, RowsInv', LeaseInv, Attended, Calm, NEW r \in Runs, Enqueue(r),
         \A q \in Runs : GatesOf(q)
  PROVE  \A q \in Runs : GatesOf(q)'
<1>1. GatesOf(r)'
  <2>1. run'[r].status = "queued" /\ UNCHANGED wk
    <3>1. run \in [Runs -> RunRecord] /\ UNCHANGED wk
      BY DEF RowsInv, TypeOK, Enqueue
    <3>2. \E cred : run'[r] = [run[r] EXCEPT !.status = "queued", !.cred = cred]
      BY DEF Enqueue
    <3> QED BY <3>1, <3>2 DEF RunRecord
  <2>2. DOMAIN tasks'[r] = {1} /\ tasks'[r][1].node = "normalize"
    BY EnqueueRewrites
  <2>3. \A v \in Workers : ~WorksOn(v, r)'
    <3>1. \A v \in Workers : ~WorksOn(v, r)
      BY NobodyOnAbsent DEF Enqueue
    <3> QED BY <2>1, <3>1 DEF WorksOn
  <2>4. Whole("queued", tasks'[r], InHand(r)')
    BY <2>2 DEF Whole, Pressing, Gating, IsRequest
  <2>5. Ordered(tasks'[r], OpenRows(r)')
    <3>1. BeforeGates(tasks'[r])
      BY <2>2 DEF BeforeGates
    <3> QED BY <3>1, NoGates
  <2>6. Judged(r)'
    BY <2>1, <2>4, <2>5 DEF Judged
  <2> QED BY <2>3, <2>6 DEF GatesOf
<1>2. ASSUME NEW q \in Runs, q # r, q \notin Superseded PROVE GatesOf(q)'
  <2>1. run'[q] = run[q] /\ UNCHANGED wk
    BY <1>2 DEF Enqueue
  <2>2. tasks'[q] = tasks[q]
    BY <1>2 DEF Enqueue
  <2>3. Stands(q)
    BY <2>1, <2>2 DEF Stands, WorksOn
  <2> QED BY <2>3, StandingGates DEF RowsInv
<1> QED BY <1>1, <1>2, DropGates

-----------------------------------------------------------------------------
(* The steps of a worker on the task it holds.                             *)

ActiveRows(ts) == {t \in DOMAIN ts : ts[t].status \in ActiveTask}

(* A worker about to execute its task: the run is one that workers look for, or it has
   been superseded, and may or may not come back. *)
LEMMA BegunHands ==
  ASSUME RowsInv, LeaseInv, Attended, Calm, NEW w \in Workers, wk[w].pc = "begun", CanBegin(w),
         NEW r \in Runs, wk[w].run = r, GatesOf(r)
  PROVE  LET ts == tasks[r]   h == wk[w].task   status == run[r].status IN
         /\ WorksOn(w, r) /\ h \in DOMAIN ts /\ h \in OpenRows(r)
         /\ Ordered(ts, OpenRows(r)) /\ ActiveRows(ts) \subseteq OpenRows(r)
         /\ ts[h].status \in {"ready", "cancelled"}
         /\ \/ /\ status \in Claimable /\ Begun(w) = "running"
               /\ Whole(status, ts, InHand(r)) /\ ts[h].status = "ready"
            \/ status = "cancelled" /\ Begun(w) = "running" /\ Settled(ts, h)
            \/ status = "cancelled" /\ Begun(w) = "cancelled" /\ (Settled(ts, h) \/ NoCollect(ts))
<1> DEFINE ts == tasks[r]
           h == wk[w].task
           status == run[r].status
<1>1. WorksOn(w, r) /\ h \in DOMAIN ts /\ Holds(w)
  BY Held DEF WorksOn, GatesOf
<1>2. Begins(w, r)
  BY DEF Begins, CanBegin
<1>3. status \in Claimable \cup {"cancelled"} /\ (status \in Claimable => wk[w].seen.run = status)
  BY <1>1, <1>2 DEF Holds
<1>4. AtStake(r) /\ h \in OpenRows(r) /\ ActiveRows(ts) \subseteq OpenRows(r)
  BY <1>1, <1>2, <1>3 DEF AtStake, OpenRows, ActiveRows
<1>5. /\ ts[h].status \in {"ready", "cancelled"}
      /\ status \in Claimable => ts[h].status = "ready"
  BY DEF Attended, RowAtHand, TaskOf
<1>6. CASE status \in Claimable
  <2>1. Begun(w) = "running"
    BY <1>3, <1>6 DEF Begun
  <2>2. Whole(status, ts, InHand(r))
    BY <1>6 DEF GatesOf, Judged
  <2> QED BY <1>1, <1>4, <1>5, <1>6, <2>1, <2>2 DEF GatesOf, Judged
<1>7. CASE status = "cancelled"
  <2>1. Settled(ts, h) \/ (wk[w].seen.run = "running" /\ NoCollect(ts))
    BY <1>2, <1>7 DEF GatesOf, Judged
  <2>2. Begun(w) = IF wk[w].seen.run = "running" THEN "cancelled" ELSE "running"
    BY <1>7 DEF Begun
  <2> QED BY <1>1, <1>4, <1>5, <1>7, <2>1, <2>2 DEF GatesOf, Judged
<1> QED BY <1>3, <1>6, <1>7

LEMMA StepRewrites ==
  ASSUME RowsInv, RowsInv', NEW w \in Workers, wk[w].pc # "idle",
         NEW row, SameTask(w, row), NEW todo \in TodoRows, TaskStep(w, row, todo),
         TaskOf(w).status # "completed"
  PROVE  /\ Rewrites(tasks[wk[w].run], tasks'[wk[w].run], wk[w].task, todo)
         /\ tasks'[wk[w].run][wk[w].task] = row
<1> DEFINE r == wk[w].run
           n == Len(tasks[r])
<1>1. /\ r \in Runs /\ n \in Nat /\ Len(todo) \in Nat
      /\ DOMAIN tasks[r] = 1 .. n /\ wk[w].task \in 1 .. n
      /\ DOMAIN todo = 1 .. Len(todo)
      /\ DOMAIN tasks'[r] = 1 .. (n + Len(todo))
      /\ tasks'[r][wk[w].task] = row
      /\ \A t \in 1 .. n : t # wk[w].task => tasks'[r][t] = tasks[r][t]
      /\ \A i \in 1 .. Len(todo) : tasks'[r][n + i] = Fresh(todo[i], n)
  BY TaskStepRows, SMTT(30)
<1>2. RowsOK(tasks[r]) /\ RowsOK(tasks'[r])
  BY <1>1 DEF RowsInv, AllRowsOK
<1>3. /\ row.node = tasks[r][wk[w].task].node /\ row.round = tasks[r][wk[w].task].round
      /\ row.prio = tasks[r][wk[w].task].prio /\ tasks[r][wk[w].task].status # "completed"
  BY DEF SameTask, TaskOf
<1>4. ASSUME NEW t \in DOMAIN tasks'[r], t \notin DOMAIN tasks[r]
      PROVE  /\ t - n \in DOMAIN todo /\ t \in Nat
             /\ tasks'[r][t] = Fresh(todo[t - n], n)
             /\ \A s \in DOMAIN tasks[r] : s < t
  <2>1. t \in 1 .. (n + Len(todo)) /\ t \notin 1 .. n
    BY <1>1, <1>4
  <2>2. t - n \in 1 .. Len(todo) /\ n + (t - n) = t
    BY <1>1, <2>1, Beyond
  <2>3. tasks'[r][n + (t - n)] = Fresh(todo[t - n], n)
    BY <1>1, <2>2
  <2>4. t \in Nat /\ \A s \in 1 .. n : s < t
    BY <1>1, <2>1
  <2> QED BY <1>1, <2>2, <2>3, <2>4
<1>5. 1 .. n \subseteq 1 .. (n + Len(todo))
  BY <1>1
<1> HIDE DEF n
<1>6. DOMAIN tasks[r] \subseteq DOMAIN tasks'[r]
  BY <1>1, <1>5
<1> QED BY <1>1, <1>2, <1>3, <1>4, <1>6 DEF Rewrites, n

(* After a worker is done with its task, its run is judged by its rows. *)
LEMMA FinishGates ==
  ASSUME RowsInv, LeaseInv, Calm, NEW w \in Workers, Acts(w), NEW r \in Runs, wk[w].run = r,
         wk'[w].pc = "finish",
         run'[r].status \in Claimable => /\ Whole(run'[r].status, tasks'[r], {})
                                         /\ Ordered(tasks'[r], ActiveRows(tasks'[r])),
         run'[r].status = "completed" => AllPassed(tasks'[r])
  PROVE  GatesOf(r)'
<1>1. /\ WorksOn(w, r) /\ wk'[w].run = r
      /\ \A v \in Workers : v # w => wk'[v] = wk[v]
  BY ActingStep DEF WorksOn
<1>2. \A v \in Workers : WorksOn(v, r)' => v = w /\ wk'[v].pc = "finish"
  BY <1>1, Alone DEF WorksOn
<1>3. \A v \in Workers : ~Begins(v, r)'
  BY <1>2 DEF Begins, WorksOn
<1>4. InHand(r)' = {}
  BY <1>2 DEF InHand
<1>5. OpenRows(r)' = ActiveRows(tasks'[r])
  BY <1>3 DEF OpenRows, ActiveRows
<1>6. Judged(r)'
  BY <1>3, <1>4, <1>5 DEF Judged, AtStake
<1> QED BY <1>2, <1>6 DEF GatesOf, Holds

(* The exception handlers: the task fails with its run, or goes on as it was. *)
LEMMA HandlerGates ==
  ASSUME RowsInv, RowsInv', LeaseInv, Attended, Calm, NEW w \in Workers, Exhaust(w) \/ FailTask(w),
         NEW r \in Runs, wk[w].run = r, GatesOf(r)
  PROVE  GatesOf(r)'
<1> DEFINE h == wk[w].task
           ts == tasks[r]
           new == tasks'[r]
<1>1. /\ wk[w].pc \in {"begun", "looping"} /\ wk' = [wk EXCEPT ![w].pc = "finish"] /\ Acts(w)
      /\ \E row : /\ SameTask(w, row) /\ row.out = TaskOf(w).out
                  /\ TaskStep(w, row, <<>>) /\ <<>> \in TodoRows
                  /\ \/ row.status = "failed" /\ run'[r].status \in {"failed", "budget_exhausted"}
                     \/ row.status = "ready" /\ run' = run
  BY HandlerTask DEF Acts
<1>2. wk'[w].pc = "finish"
  BY <1>1 DEF RowsInv, TypeOK, Worker
<1>3. CASE run'[r].status \in {"failed", "budget_exhausted"}
  BY <1>1, <1>2, <1>3, FinishGates DEF Claimable
<1>4. CASE run' = run
  <2>1. PICK row : /\ SameTask(w, row) /\ row.out = TaskOf(w).out
                   /\ TaskStep(w, row, <<>>) /\ <<>> \in TodoRows
                   /\ row.status \in {"failed", "ready"}
                   /\ run[r].status \in Claimable => row.status = "ready"
    BY <1>1, <1>4 DEF Claimable
  <2>2. /\ WorksOn(w, r) /\ Holds(w) /\ run[r].status \in Claimable \cup {"cancelled"}
        /\ TaskOf(w).status \in {"ready", "running", "cancelled"}
        /\ run[r].status \in Claimable => TaskOf(w).status # "cancelled"
    BY <1>1 DEF WorksOn, GatesOf, Holds, Attended, RowAtHand
  <2>3. CASE run[r].status = "cancelled"
    BY <1>1, <1>2, <1>4, <2>3, FinishGates DEF Claimable
  <2>4. CASE run[r].status \in Claimable
    <3>1. /\ Whole(run[r].status, ts, InHand(r)) /\ Ordered(ts, OpenRows(r))
          /\ row.status = "ready" /\ ts[h].status \in {"ready", "running"}
      BY <2>1, <2>2, <2>4 DEF GatesOf, Judged, AtStake, TaskOf
    <3>2. Rewrites(ts, new, h, <<>>) /\ new[h] = row
      BY <1>1, <2>1, <2>2, StepRewrites
    <3>3. GoneOn(ts, new, h) /\ DOMAIN new = DOMAIN ts /\ \A node : h \notin DoneIn(new, node)
      <4>1. GoneOn(ts, new, h)
        BY <3>2, RewritesGoOn
      <4>2. DOMAIN <<>> = {}
        BY EmptySeq
      <4> HIDE DEF ts, new, h
      <4> QED BY <3>1, <3>2, <4>1, <4>2 DEF Rewrites, DoneIn
    <3>4. ActiveRows(new) \subseteq OpenRows(r)
      <4>1. ActiveRows(new) \subseteq ActiveRows(ts)
        BY <3>1, <3>2, <3>3 DEF ActiveRows, Rewrites, ActiveTask
      <4> QED BY <4>1 DEF ActiveRows, OpenRows
    <3>5. Ordered(new, ActiveRows(new))
      <4>1. Passing(ts, new, h, OpenRows(r), ActiveRows(new))
        BY <3>3, <3>4 DEF Passing
      <4>2. h \in DOMAIN new => new[h].status # "completed"
        BY <3>1, <3>2
      <4> HIDE DEF ts, new, h
      <4> QED BY <3>1, <3>3, <4>1, <4>2, OrderedKept
    <3>6. Whole(run[r].status, new, {})
      <4>1. \A t \in DOMAIN new : Gating(new[t]) =>
           /\ t \in DOMAIN ts
           /\ \/ new[t].status = "completed"
              \/ new[t].status \in {"ready", "running"} /\ ts[t].status \in ActiveTask
        <5> SUFFICES ASSUME NEW t \in DOMAIN new, Gating(new[t])
                     PROVE  \/ new[t].status = "completed"
                            \/ new[t].status \in {"ready", "running"} /\ ts[t].status \in ActiveTask
          BY <3>3
        <5>1. CASE t = h
          BY <3>1, <3>2, <5>1 DEF ActiveTask
        <5>2. CASE t # h
          <6>1. t \in DOMAIN ts /\ new[t] = ts[t]
            BY <3>2, <3>3, <5>2 DEF Rewrites
          <6> QED BY <3>1, <6>1 DEF Whole, ActiveTask
        <5> QED BY <5>1, <5>2
      <4>2. NoCollect(ts) => NoCollect(new)
        BY <3>3, SameRound
      <4> HIDE DEF ts, new, h
      <4> QED BY <3>1, <3>3, <4>1, <4>2, WholeKept
    <3> QED BY <1>1, <1>2, <1>4, <2>4, <3>5, <3>6, FinishGates DEF Claimable
  <2> QED BY <2>2, <2>3, <2>4
<1> QED BY <1>1, <1>3, <1>4

LEMMA NodeStep ==
  ASSUME RowsInv, RowsInv', Attended, Calm, NEW w \in Workers, wk[w].pc = "begun",
         NEW out \in SUBSET Flags, NEW todo \in TodoRows, NEW status, Complete(w, out, todo, status),
         NEW r \in Runs, wk[w].run = r
  PROVE  /\ wk'[w].pc = "finish"
         /\ Rewrites(tasks[r], tasks'[r], wk[w].task, todo)
         /\ tasks'[r][wk[w].task].status = "completed" /\ tasks'[r][wk[w].task].out = out
         /\ run'[r].status = IF status = "running" THEN Begun(w) ELSE status
<1>1. PICK row : /\ SameTask(w, row) /\ TaskStep(w, row, todo)
                 /\ row.status = "completed" /\ row.out = out
  BY CompleteTask
<1>2. TaskOf(w).status # "completed"
  BY DEF Attended, RowAtHand
<1>3. Rewrites(tasks[r], tasks'[r], wk[w].task, todo) /\ tasks'[r][wk[w].task] = row
  BY <1>1, <1>2, StepRewrites
<1>4. wk'[w].pc = "finish"
  BY DEF Complete, RowsInv, TypeOK, Worker
<1>5. run'[r].status = IF status = "running" THEN Begun(w) ELSE status
  BY DEF Complete, RowsInv, TypeOK, RunRecord
<1> QED BY <1>1, <1>3, <1>4, <1>5

(* A task from before the gates completes. *)
LEMMA EarlyGates ==
  ASSUME RowsInv, LeaseInv, Calm, NEW w \in Workers, Acts(w), NEW r \in Runs, wk[w].run = r,
         wk'[w].pc = "finish",
         NEW todo, Rewrites(tasks[r], tasks'[r], wk[w].task, todo),
         tasks'[r][wk[w].task].status = "completed", Early(tasks[r][wk[w].task]),
         \A i \in DOMAIN todo : todo[i].node \in {"triage", "supervisor"},
         run'[r].status # "completed",
         run'[r].status \in Claimable =>
           /\ Ordered(tasks[r], OpenRows(r)) /\ wk[w].task \in OpenRows(r)
           /\ \/ Settled(tasks[r], wk[w].task)
              \/ /\ Whole(run[r].status, tasks[r], InHand(r))
                 /\ tasks[r][wk[w].task].status \in ActiveTask
                 /\ run[r].status = "running" => run'[r].status = "running"
  PROVE  GatesOf(r)'
<1> DEFINE ts == tasks[r]
           new == tasks'[r]
           h == wk[w].task
<1>1. ASSUME run'[r].status \in Claimable
      PROVE  Whole(run'[r].status, new, {}) /\ Ordered(new, ActiveRows(new))
  <2>1. Whole(run'[r].status, new, {})
    <3>1. \A i \in DOMAIN todo : todo[i].node # "diagnostic" /\ todo[i].node # "evidence_collection"
      OBVIOUS
    <3> QED BY <1>1, <3>1, WholeAfter
  <2>2. BeforeGates(ts)
    <3>1. h \in DOMAIN ts
      BY DEF Rewrites
    <3> QED BY <1>1, <3>1, StillBefore
  <2>3. BeforeGates(new)
    <3>1. /\ GoneOn(ts, new, h)
          /\ \A t \in DOMAIN new : t \notin DOMAIN ts => \E i \in DOMAIN todo : new[t].node = todo[i].node
      BY RewritesGoOn
    <3> HIDE DEF ts, new, h
    <3>2. \A t \in DOMAIN new : t \notin DOMAIN ts =>
            new[t].node \notin {"critic", "plan_candidate", "safety_review"}
      BY <3>1
    <3> QED BY <2>2, <3>1, <3>2 DEF BeforeGates, GoneOn
  <2> QED BY <2>1, <2>3, NoGates
<1> QED BY <1>1, FinishGates

(* A task from behind a gate completes. *)
LEMMA LateGates ==
  ASSUME RowsInv, RowsInv', LeaseInv, Attended, Calm, NEW w \in Workers, Acts(w),
         wk[w].pc = "begun", CanBegin(w), NEW r \in Runs, wk[w].run = r, GatesOf(r),
         TaskOf(w).node \in {"critic", "plan_candidate", "safety_review"},
         NEW out \in SUBSET Flags, Complete(w, out, <<Supervisor>>, "running"),
         TaskOf(w).node = "safety_review" =>
           "failed" \notin out /\ ("reject" \in out \/ ~FailedIn(tasks[r]))
  PROVE  GatesOf(r)'
<1> DEFINE ts == tasks[r]
           new == tasks'[r]
           h == wk[w].task
           status == run[r].status
           open == OpenRows(r)
           open2 == ActiveRows(new)
<1>1. /\ <<Supervisor>> \in TodoRows /\ DOMAIN <<Supervisor>> = {1} /\ <<Supervisor>>[1].node = "supervisor"
  <2>1. "supervisor" \in Nodes /\ 0 \in Nat /\ 100 \in {80, 90, 100}
    BY DEF Nodes
  <2>2. OneRow("supervisor", 0, 100) \in TodoRows
    BY <2>1, RowOf
  <2> QED BY <2>2 DEF OneRow, Supervisor, Todo
<1>2. /\ wk'[w].pc = "finish"
      /\ Rewrites(ts, new, h, <<Supervisor>>)
      /\ new[h].status = "completed" /\ new[h].out = out
      /\ run'[r].status = Begun(w)
  <2>1. /\ wk'[w].pc = "finish"
        /\ Rewrites(ts, new, h, <<Supervisor>>)
        /\ new[h].status = "completed" /\ new[h].out = out
        /\ run'[r].status = IF "running" = "running" THEN Begun(w) ELSE "running"
    BY <1>1, NodeStep
  <2> QED BY <2>1
<1>3. /\ h \in DOMAIN ts /\ h \in open /\ Ordered(ts, open) /\ ActiveRows(ts) \subseteq open
      /\ Begun(w) \in {"running", "cancelled"}
      /\ Begun(w) = "running" =>
           \/ Settled(ts, h)
           \/ Whole(status, ts, InHand(r)) /\ ts[h].status \in ActiveTask
  BY BegunHands DEF ActiveTask
<1>4. CASE Begun(w) = "cancelled"
  BY <1>2, <1>4, FinishGates DEF Claimable
<1>5. CASE Begun(w) = "running"
  <2>1. Whole("running", new, {})
    <3>1. \A i \in DOMAIN <<Supervisor>> : /\ <<Supervisor>>[i].node # "diagnostic"
                                           /\ <<Supervisor>>[i].node # "evidence_collection"
      BY <1>1
    <3> HIDE DEF ts, new, h, status
    <3>2. Rewrites(ts, new, h, <<Supervisor>>) /\ new[h].status = "completed"
      BY <1>2
    <3>3. CASE Settled(ts, h)
      BY <3>1, <3>2, <3>3, WholeAfter
    <3>4. CASE Whole(status, ts, InHand(r)) /\ ts[h].status \in ActiveTask
      <4>1. status = "running" => "running" = "running"
        OBVIOUS
      <4> DEFINE hands == InHand(r)
      <4>2. Whole(status, ts, hands)
        BY <3>4
      <4> HIDE DEF hands
      <4> QED BY <3>1, <3>2, <3>4, <4>1, <4>2, WholeAfter
    <3> QED BY <1>3, <1>5, <3>3, <3>4
  <2>2. /\ GoneOn(ts, new, h)
        /\ \A t \in DOMAIN new : t \notin DOMAIN ts => new[t].node = "supervisor" /\ t # h
    <3>1. /\ GoneOn(ts, new, h)
          /\ \A t \in DOMAIN new : t \notin DOMAIN ts =>
               t # h /\ \E i \in DOMAIN <<Supervisor>> : new[t].node = <<Supervisor>>[i].node
      BY <1>2, RewritesGoOn
    <3> HIDE DEF ts, new, h
    <3> QED BY <1>1, <3>1
  <2>3. ts[h].node \in {"critic", "plan_candidate", "safety_review"} /\ new[h].node = ts[h].node
    <3>1. ts[h].node \in {"critic", "plan_candidate", "safety_review"}
      BY DEF TaskOf
    <3> QED BY <1>3, <2>2, <3>1 DEF GoneOn
  <2> HIDE DEF ts, new, h, open, open2, status
  <2>4. Passing(ts, new, h, open, open2)
    <3>1. h \notin DoneIn(new, "diagnostic")
      BY <2>3 DEF DoneIn
    <3>2. \A t \in DOMAIN ts : t \in open2 => t \in open
      BY <1>2, <1>3 DEF open2, ActiveRows, Rewrites, ActiveTask
    <3> QED BY <2>2, <3>1, <3>2 DEF Passing, Early
  <2>5. CriticGate(ts, open) /\ PlanGate(ts, open) /\ SafetyGate(ts, open) /\ FailureGate(ts)
    BY <1>3 DEF Ordered
  <2>6. CriticGate(new, open2) /\ PlanGate(new, open2)
    <3>1. CriticGate(new, open2)
      BY <2>2, <2>4, <2>5, CriticGateKept
    <3>2. PlanGate(new, open2)
      BY <2>2, <2>4, <2>5, PlanGateKept
    <3> QED BY <3>1, <3>2
  <2>7. SafetyGate(new, open2)
    BY <2>2, <2>4, <2>5, SafetyGateKept DEF Reviewable
  <2>8. FailureGate(new)
    <3>1. CASE ts[h].node \in {"critic", "plan_candidate"}
      <4>1. \A t \in DOMAIN ts : ts[t].node # "safety_review"
        BY <1>3, <3>1, BeforePlan, BeforeSafety
      <4>2. \A t \in DOMAIN new : new[t].node # "safety_review"
        BY <2>2, <4>1 DEF GoneOn
      <4> QED BY <4>2 DEF FailureGate, DoneIn
    <3>2. CASE ts[h].node = "safety_review"
      <4>1. "failed" \notin new[h].out /\ ("reject" \in new[h].out \/ ~FailedIn(ts))
        BY <1>2, <3>2 DEF ts, h, TaskOf
      <4> QED BY <2>2, <2>5, <4>1, FailureGateKept
    <3> QED BY <2>3, <3>1, <3>2
  <2>9. Ordered(new, ActiveRows(new))
    BY <2>6, <2>7, <2>8 DEF Ordered, open2
  <2> QED BY <1>2, <1>5, <2>1, <2>9, FinishGates DEF new, h
<1> QED BY <1>3, <1>4, <1>5

(* The end of evidence collection: the task completes, unless the session found it
   cancelled or rolled back. *)
LEMMA CollectGates ==
  ASSUME RowsInv, RowsInv', LeaseInv, Attended, Calm, Collecting, NEW w \in Workers, CollectDone(w),
         NEW r \in Runs, wk[w].run = r, GatesOf(r)
  PROVE  GatesOf(r)'
<1> DEFINE ts == tasks[r]
           new == tasks'[r]
           h == wk[w].task
           status == run[r].status
           before == IF wk[w].pc = "begun" THEN "running" ELSE TaskOf(w).status
           live == wk[w].pc = "begun" \/ run[r].status \in Claimable
           todo == IF before \in {"running", "completed"} /\ live THEN <<Supervisor>> ELSE <<>>
<1>1. /\ wk[w].pc \in {"begun", "looping"} /\ wk' = [wk EXCEPT ![w].pc = "finish"]
      /\ todo \in TodoRows
      /\ \E row : /\ SameTask(w, row) /\ TaskStep(w, row, todo)
                  /\ row.status = IF before = "running" THEN "completed" ELSE before
                  /\ row.out = TaskOf(w).out
  BY CollectTask
<1>2. PICK row : /\ SameTask(w, row) /\ TaskStep(w, row, todo)
                 /\ row.status = IF before = "running" THEN "completed" ELSE before
                 /\ row.out = TaskOf(w).out
  BY <1>1
<1>3. /\ WorksOn(w, r) /\ h \in DOMAIN ts /\ wk'[w].pc = "finish" /\ Acts(w) /\ Holds(w)
      /\ TaskOf(w) = ts[h] /\ ts[h].status \in {"ready", "running", "cancelled"}
      /\ run \in [Runs -> RunRecord]
  <2>1. WorksOn(w, r) /\ h \in DOMAIN ts /\ TaskOf(w) = ts[h]
    BY <1>1, Held DEF WorksOn, TaskOf
  <2>2. wk'[w].pc = "finish" /\ run \in [Runs -> RunRecord]
    BY <1>1 DEF RowsInv, TypeOK, Worker
  <2>3. Acts(w)
    BY DEF Acts, Collection
  <2>4. Holds(w)
    BY <2>1 DEF GatesOf
  <2>5. ts[h].status \in {"ready", "running", "cancelled"}
    BY <1>1, <2>1 DEF Attended, RowAtHand
  <2> QED BY <2>1, <2>2, <2>3, <2>4, <2>5
<1>4. Early(ts[h])
  <2>1. TaskOf(w).node = "evidence_collection"
    BY <1>1 DEF CollectDone, Executes, Collecting
  <2> QED BY <1>3, <2>1 DEF Early
<1>5. Rewrites(ts, new, h, todo) /\ new[h] = row
  <2> HIDE DEF todo, before, live
  <2> QED BY <1>1, <1>2, <1>3, StepRewrites
<1>6. \A i \in DOMAIN todo : todo[i].node \in {"triage", "supervisor"}
  <2>1. DOMAIN <<>> = {} /\ DOMAIN <<Supervisor>> = {1} /\ <<Supervisor>>[1].node = "supervisor"
    BY EmptySeq DEF Supervisor, Todo
  <2> HIDE DEF before, live
  <2> QED BY <2>1
<1>7. run' = IF wk[w].pc = "begun" THEN [run EXCEPT ![r].status = Begun(w), ![r].started = TRUE] ELSE run
  BY DEF CollectDone
<1>8. CASE wk[w].pc = "begun"
  <2>1. run'[r].status = Begun(w)
    BY <1>3, <1>7, <1>8 DEF RunRecord
  <2>2. CanBegin(w)
    BY <1>8 DEF CollectDone, Executes
  <2>3. /\ h \in OpenRows(r) /\ Ordered(ts, OpenRows(r))
        /\ \/ /\ status \in Claimable /\ Begun(w) = "running"
              /\ Whole(status, ts, InHand(r)) /\ ts[h].status = "ready"
           \/ status = "cancelled" /\ Begun(w) = "running" /\ Settled(ts, h)
           \/ status = "cancelled" /\ Begun(w) = "cancelled" /\ (Settled(ts, h) \/ NoCollect(ts))
    BY <1>8, <2>2, BegunHands
  <2>4. new[h].status = "completed"
    BY <1>2, <1>5, <1>8
  <2>5. run'[r].status # "completed"
    BY <2>1, <2>3
  <2>6. run'[r].status \in Claimable =>
          \/ Settled(ts, h)
          \/ Whole(status, ts, InHand(r)) /\ ts[h].status \in ActiveTask /\ run'[r].status = "running"
    BY <2>1, <2>3 DEF Claimable, ActiveTask
  <2> HIDE DEF todo
  <2> QED BY <1>3, <1>4, <1>5, <1>6, <2>3, <2>4, <2>5, <2>6, EarlyGates
<1>9. CASE wk[w].pc = "looping"
  <2>1. run' = run /\ status \in Claimable \cup {"cancelled"} /\ before = ts[h].status
    BY <1>3, <1>7, <1>9 DEF Holds
  <2>2. CASE status = "cancelled"
    BY <1>3, <2>1, <2>2, FinishGates DEF Claimable
  <2>3. CASE status \in Claimable
    <3>1. /\ Whole(status, ts, InHand(r)) /\ Ordered(ts, OpenRows(r))
          /\ ts[h].status \in {"ready", "running"} /\ h \in OpenRows(r)
      BY <1>3, <1>9, <2>3 DEF GatesOf, Judged, AtStake, Attended, RowAtHand, OpenRows, ActiveTask
    <3>2. CASE ts[h].status = "running"
      <4>1. new[h].status = "completed"
        BY <1>2, <1>5, <2>1, <3>2
      <4>2. run'[r].status # "completed"
        BY <2>1, <2>3 DEF Claimable
      <4> HIDE DEF todo
      <4> QED BY <1>3, <1>4, <1>5, <1>6, <2>1, <3>1, <4>1, <4>2, EarlyGates DEF ActiveTask
    <3>3. CASE ts[h].status = "ready"
      <4>1. todo = <<>> /\ row.status = "ready"
        BY <1>2, <2>1, <3>3
      <4>2. DOMAIN new = DOMAIN ts
        <5>1. DOMAIN <<>> = {}
          BY EmptySeq
        <5> HIDE DEF ts, new, h
        <5> QED BY <1>5, <4>1, <5>1 DEF Rewrites
      <4>3. \A t \in DOMAIN ts : /\ new[t].node = ts[t].node /\ new[t].round = ts[t].round
                                 /\ new[t].prio = ts[t].prio /\ new[t].out = ts[t].out
                                 /\ new[t].status = ts[t].status
        <5>1. row.out = ts[h].out /\ row.status = ts[h].status
          BY <1>2, <1>3, <3>3, <4>1
        <5> HIDE DEF ts, new, h, todo
        <5> QED BY <1>5, <5>1 DEF Rewrites
      <4>4. /\ wk'[w].pc = "finish" /\ wk'[w].run = r /\ wk'[w].task = h
            /\ \A v \in Workers : v # w => wk'[v] = wk[v]
        BY <1>3, ActingStep
      <4>5. \A v \in Workers : WorksOn(v, r)' =>
              /\ WorksOn(v, r) /\ wk'[v].task = wk[v].task
              /\ wk'[v].pc # "finish" => wk[v].pc # "finish"
              /\ wk'[v].pc = "begun" => wk[v].pc = "begun" /\ wk'[v].seen = wk[v].seen
              /\ wk'[v].pc = "claimed" => wk[v].pc = "claimed"
        BY <1>3, <4>4 DEF WorksOn
      <4>6. Stands(r)
        BY <2>1, <4>2, <4>3, <4>5 DEF Stands
      <4> QED BY <4>6, StandingGates DEF RowsInv
    <3> QED BY <3>1, <3>2, <3>3
  <2> QED BY <2>1, <2>2, <2>3
<1> QED BY <1>1, <1>8, <1>9

(* The first commit of the gateway makes the task's begin, if it is not made yet, and
   the worker stays on. *)
LEMMA SessionGates ==
  ASSUME RowsInv, RowsInv', LeaseInv, Attended, Calm, Collecting, NEW w \in Workers,
         Commits(w), NEW r \in Runs, wk[w].run = r, GatesOf(r)
  PROVE  GatesOf(r)'
<1> DEFINE ts == tasks[r]
           new == tasks'[r]
           h == wk[w].task
           status == run[r].status
<1>1. /\ \E calls \in [Calls -> CallStatus] : CommitBegin(w, calls)
      /\ wk[w].pc \in {"begun", "looping"} /\ (wk[w].pc = "begun" => CanBegin(w))
      /\ wk[w].pc = "begun" => TaskOf(w).node = "evidence_collection"
  BY GatewayCommit
<1>2. PICK row : /\ SameTask(w, row) /\ TaskStep(w, row, <<>>) /\ <<>> \in TodoRows
                 /\ row.status = IF wk[w].pc = "begun" THEN "running" ELSE TaskOf(w).status
                 /\ row.out = TaskOf(w).out
  BY <1>1, CommitTask
<1>3. /\ WorksOn(w, r) /\ h \in DOMAIN ts /\ Acts(w) /\ Holds(w)
      /\ TaskOf(w) = ts[h] /\ ts[h].status \in {"ready", "running", "cancelled"}
      /\ run \in [Runs -> RunRecord]
  <2>1. WorksOn(w, r) /\ h \in DOMAIN ts /\ TaskOf(w) = ts[h]
    BY <1>1, Held DEF WorksOn, TaskOf
  <2>2. Acts(w)
    BY DEF Acts, Collection, Commits, CommitsCall
  <2>3. Holds(w) /\ run \in [Runs -> RunRecord]
    BY <2>1 DEF GatesOf, RowsInv, TypeOK
  <2>4. ts[h].status \in {"ready", "running", "cancelled"}
    BY <1>1, <2>1 DEF Attended, RowAtHand
  <2> QED BY <2>1, <2>2, <2>3, <2>4
<1>4. /\ wk'[w].pc \in {"probing", "looping"} /\ wk'[w].run = r /\ wk'[w].task = h
      /\ \A v \in Workers : v # w => wk'[v] = wk[v]
  <2>2. wk'[w].pc \in {"probing", "looping"}
    BY GatewayWorker
  <2> QED BY <1>3, <2>2, ActingStep
<1>5. Rewrites(ts, new, h, <<>>) /\ new[h] = row /\ DOMAIN new = DOMAIN ts /\ GoneOn(ts, new, h)
  <2>1. Rewrites(ts, new, h, <<>>) /\ new[h] = row
    BY <1>1, <1>2, <1>3, StepRewrites
  <2>2. DOMAIN <<>> = {}
    BY EmptySeq
  <2>3. GoneOn(ts, new, h)
    BY <2>1, RewritesGoOn
  <2> HIDE DEF ts, new, h
  <2> QED BY <2>1, <2>2, <2>3 DEF Rewrites
<1>6. run' = IF wk[w].pc = "begun" THEN [run EXCEPT ![r].status = Begun(w), ![r].started = TRUE] ELSE run
  BY <1>1 DEF CommitBegin
<1>7. CASE wk[w].pc = "looping"
  <2>1. \A t \in DOMAIN ts : /\ new[t].node = ts[t].node /\ new[t].round = ts[t].round
                             /\ new[t].prio = ts[t].prio /\ new[t].out = ts[t].out
                             /\ new[t].status = ts[t].status
    <3>1. row.out = ts[h].out /\ row.status = ts[h].status
      BY <1>2, <1>3, <1>7
    <3> HIDE DEF ts, new, h
    <3> QED BY <1>5, <3>1 DEF Rewrites
  <2>2. \A v \in Workers : WorksOn(v, r)' =>
          /\ WorksOn(v, r) /\ wk'[v].task = wk[v].task
          /\ wk'[v].pc # "finish" => wk[v].pc # "finish"
          /\ wk'[v].pc = "begun" => wk[v].pc = "begun" /\ wk'[v].seen = wk[v].seen
          /\ wk'[v].pc = "claimed" => wk[v].pc = "claimed"
    BY <1>3, <1>4, <1>7 DEF WorksOn
  <2>3. run' = run
    BY <1>6, <1>7
  <2>4. Stands(r)
    BY <1>5, <2>1, <2>2, <2>3 DEF Stands
  <2> QED BY <2>4, StandingGates DEF RowsInv
<1>8. CASE wk[w].pc = "begun"
  <2>1. run'[r].status = Begun(w)
    BY <1>3, <1>6, <1>8 DEF RunRecord
  <2>2. /\ h \in OpenRows(r) /\ Ordered(ts, OpenRows(r)) /\ ActiveRows(ts) \subseteq OpenRows(r)
        /\ \/ /\ status \in Claimable /\ Begun(w) = "running"
              /\ Whole(status, ts, InHand(r)) /\ ts[h].status = "ready"
           \/ status = "cancelled" /\ Begun(w) = "running" /\ Settled(ts, h)
           \/ status = "cancelled" /\ Begun(w) = "cancelled" /\ (Settled(ts, h) \/ NoCollect(ts))
    BY <1>1, <1>8, BegunHands
  <2>3. /\ row.status = "running" /\ new[h].node = "evidence_collection" /\ row.node = ts[h].node
        /\ \A node : h \notin DoneIn(new, node)
    <3>1. row.status = "running" /\ row.node = TaskOf(w).node
      BY <1>2, <1>8 DEF SameTask
    <3> QED BY <1>1, <1>3, <1>5, <1>8, <3>1 DEF DoneIn
  <2>4. \A v \in Workers : WorksOn(v, r)' => v = w
    BY <1>3, <1>4, Alone DEF WorksOn
  <2>5. (\A v \in Workers : ~Begins(v, r)') /\ InHand(r)' \subseteq {h} /\ h \in InHand(r)
    BY <1>3, <1>4, <1>8, <2>4 DEF Begins, WorksOn, InHand
  <2>6. OpenRows(r)' \subseteq OpenRows(r)
    <3>1. OpenRows(r)' = ActiveRows(new)
      BY <2>5 DEF OpenRows, ActiveRows
    <3>2. ActiveRows(new) \subseteq ActiveRows(ts) \cup {h}
      <4> HIDE DEF ts, new, h
      <4> QED BY <1>5 DEF ActiveRows, Rewrites
    <3> QED BY <2>2, <3>1, <3>2
  <2>7. NoCollect(ts) => NoCollect(new)
    BY <1>5, <2>3, SameRound
  <2>8. ASSUME Begun(w) = "running" PROVE Whole("running", new, InHand(r)') /\ Ordered(new, OpenRows(r)')
    <3> DEFINE hands == InHand(r)
               hands2 == InHand(r)'
               open == OpenRows(r)
               open2 == OpenRows(r)'
    <3>1. Ordered(new, open2)
      <4> HIDE DEF ts, new, h
      <4>1. Passing(ts, new, h, open, open2)
        <5> HIDE DEF open, open2
        <5> QED BY <1>5, <2>3, <2>6 DEF Passing, open, open2
      <4> HIDE DEF open, open2
      <4> QED BY <1>5, <2>2, <2>3, <4>1, OrderedKept DEF open
    <3>2. CASE Whole(status, ts, InHand(r)) /\ ts[h].status = "ready"
      <4>1. \A t \in DOMAIN new : Gating(new[t]) =>
               /\ t \in DOMAIN ts
               /\ \/ new[t].status = "completed"
                  \/ new[t].status \in {"ready", "running"} /\ ts[t].status \in ActiveTask
        <5> SUFFICES ASSUME NEW t \in DOMAIN new, Gating(new[t])
                     PROVE  \/ new[t].status = "completed"
                            \/ new[t].status \in {"ready", "running"} /\ ts[t].status \in ActiveTask
          BY <1>5
        <5>1. CASE t = h
          BY <1>5, <2>3, <3>2, <5>1 DEF ActiveTask
        <5>2. CASE t # h
          <6>1. t \in DOMAIN ts /\ new[t] = ts[t]
            BY <1>5, <5>2 DEF Rewrites
          <6> QED BY <3>2, <6>1 DEF Whole, ActiveTask
        <5> QED BY <5>1, <5>2
      <4>2. hands2 \subseteq hands /\ Whole(status, ts, hands)
        BY <2>5, <3>2
      <4>3. status = "running" => "running" = "running"
        OBVIOUS
      <4>4. Whole("running", new, hands2)
        <5> HIDE DEF ts, new, h, status, hands, hands2
        <5> QED BY <1>5, <2>7, <4>1, <4>2, <4>3, WholeKept
      <4> QED BY <3>1, <4>4
    <3>3. CASE Settled(ts, h)
      <4>1. Settled(new, h)
        <5> HIDE DEF ts, new, h
        <5> QED BY <1>5, <3>3 DEF Settled, Rewrites
      <4>2. hands2 \subseteq {h}
        BY <2>5
      <4>3. Whole("running", new, hands2)
        <5> HIDE DEF ts, new, h, hands2
        <5> QED BY <1>5, <2>3, <4>1, <4>2, WholeOne
      <4> QED BY <3>1, <4>3
    <3> QED BY <2>2, <2>8, <3>2, <3>3
  <2>9. Judged(r)'
    BY <2>1, <2>2, <2>5, <2>8 DEF Judged, AtStake, Claimable
  <2>10. Holds(w)'
    BY <1>4, <2>1, <2>2 DEF Holds, Begins, Claimable
  <2> QED BY <2>4, <2>9, <2>10 DEF GatesOf
<1> QED BY <1>1, <1>7, <1>8

(* A worker that only waits on: nothing is written. *)
LEMMA WaitGates ==
  ASSUME RowsInv, RowsInv', LeaseInv, Attended, Calm, NEW w \in Workers,
         ProbeRefused(w) \/ FinishProbe(w) \/ RenewalBlocks(w),
         NEW r \in Runs, wk[w].run = r, GatesOf(r)
  PROVE  GatesOf(r)'
<1>1. UNCHANGED <<run, tasks>> /\ wk[w].pc \in {"begun", "looping", "probing"}
  BY DEF ProbeRefused, FinishProbe, RenewalBlocks, AtNewCall, AtRequests, Executes
<1>2. Acts(w) /\ WorksOn(w, r)
  BY <1>1 DEF Acts, Collection, WorksOn
<1>3. wk'[w].pc \in {"looping", "hung"}
  <2>1. CASE RenewalBlocks(w)
    BY <2>1 DEF RowsInv, TypeOK, Worker, RenewalBlocks
  <2>2. CASE ProbeRefused(w)
    <3>1. PICK i : wk' = [wk EXCEPT ![w].pc = "looping", ![w].idx = i + 1, ![w].pend = NoCalls]
      BY <2>2 DEF ProbeRefused
    <3> QED BY <3>1 DEF RowsInv, TypeOK, Worker
  <2>3. CASE FinishProbe(w)
    <3>1. PICK i, pend : wk' = [wk EXCEPT ![w].pc = "looping", ![w].idx = i, ![w].pend = pend]
      <4>1. PICK result : wk' = [wk EXCEPT ![w].pc = "looping", ![w].idx = @ + 1,
                                           ![w].pend[wk[w].idx] = IF IsFollowUp(w) THEN result ELSE @]
        BY <2>3 DEF FinishProbe
      <4> QED BY <4>1
    <3> QED BY <3>1 DEF RowsInv, TypeOK, Worker
  <2> QED BY <2>1, <2>2, <2>3
<1>4. /\ wk'[w].run = r /\ wk'[w].task = wk[w].task
      /\ \A v \in Workers : v # w => wk'[v] = wk[v]
  BY <1>2, ActingStep
<1>5. Stands(r)
  BY <1>1, <1>2, <1>3, <1>4 DEF Stands, WorksOn
<1> QED BY <1>5, StandingGates DEF RowsInv

LEMMA NormalizeGates ==
  ASSUME RowsInv, RowsInv', LeaseInv, Attended, Calm, NEW w \in Workers, Normalize(w),
         NEW r \in Runs, wk[w].run = r, GatesOf(r)
  PROVE  GatesOf(r)'
<1> DEFINE todo == <<Todo("triage", 0, 100), Supervisor>>
           h == wk[w].task
<1>1. /\ wk[w].pc = "begun" /\ CanBegin(w) /\ TaskOf(w).node = "normalize"
      /\ Complete(w, {}, todo, "running") /\ Acts(w)
  BY DEF Normalize, Executes, Acts
<1>2. todo \in TodoRows
  <2>1. "triage" \in Nodes /\ "supervisor" \in Nodes /\ 100 \in {80, 90, 100}
    BY DEF Nodes
  <2>2. TwoRows("triage", 100, "supervisor", 100) \in TodoRows
    BY <2>1, RowsOf
  <2> QED BY <2>2 DEF TwoRows, Supervisor
<1>3. \A i \in DOMAIN todo : todo[i].node \in {"triage", "supervisor"}
  BY DEF Todo, Supervisor
<1> HIDE DEF todo
<1>4. /\ wk'[w].pc = "finish" /\ Rewrites(tasks[r], tasks'[r], wk[w].task, todo)
      /\ tasks'[r][wk[w].task].status = "completed" /\ run'[r].status = Begun(w)
  <2>1. /\ wk'[w].pc = "finish" /\ Rewrites(tasks[r], tasks'[r], wk[w].task, todo)
        /\ tasks'[r][wk[w].task].status = "completed"
        /\ run'[r].status = IF "running" = "running" THEN Begun(w) ELSE "running"
    BY <1>1, <1>2, NodeStep
  <2> QED BY <2>1
<1>5. /\ h \in OpenRows(r) /\ Ordered(tasks[r], OpenRows(r))
      /\ \/ /\ run[r].status \in Claimable /\ Begun(w) = "running"
            /\ Whole(run[r].status, tasks[r], InHand(r)) /\ tasks[r][h].status = "ready"
         \/ run[r].status = "cancelled" /\ Begun(w) = "running" /\ Settled(tasks[r], h)
         \/ run[r].status = "cancelled" /\ Begun(w) = "cancelled"
  BY <1>1, BegunHands
<1>6. Early(tasks[r][h])
  BY <1>1 DEF TaskOf, Early
<1>7. run'[r].status # "completed" /\ (run'[r].status \in Claimable => run'[r].status = "running")
  BY <1>4, <1>5 DEF Claimable
<1>8. run'[r].status \in Claimable =>
        \/ Settled(tasks[r], h)
        \/ /\ Whole(run[r].status, tasks[r], InHand(r)) /\ tasks[r][h].status \in ActiveTask
           /\ run'[r].status = "running"
  BY <1>4, <1>5 DEF Claimable, ActiveTask
<1> QED BY <1>1, <1>3, <1>4, <1>5, <1>6, <1>7, <1>8, EarlyGates

LEMMA AgentGates ==
  ASSUME RowsInv, RowsInv', LeaseInv, Attended, Calm, NEW w \in Workers, AgentNode(w),
         NEW r \in Runs, wk[w].run = r, GatesOf(r)
  PROVE  GatesOf(r)'
<1> DEFINE h == wk[w].task
<1>1. /\ wk[w].pc = "begun" /\ CanBegin(w) /\ Acts(w)
      /\ \E node, out : /\ out \in SUBSET Flags /\ TaskOf(w).node = node
                        /\ node \in {"triage", "historical", "diagnostic", "critic", "plan_candidate",
                                     "safety_review"}
                        /\ Complete(w, out, <<Supervisor>>, "running")
                        /\ node = "safety_review" =>
                             "failed" \notin out /\ ("reject" \in out \/ ~AgentFailed(r))
  <2>1. Acts(w)
    BY DEF Acts
  <2>2. CASE Triage(w) \/ Historical(w) \/ Diagnostic(w) \/ PlanCandidate(w) \/ Critic(w)
    <3>1. PICK node \in {"triage", "historical", "diagnostic", "plan_candidate", "critic"}, out \in SUBSET Flags :
            Agent(w, node, out)
      BY <2>2 DEF Triage, Historical, Diagnostic, PlanCandidate, Critic, Outcomes, Flags
    <3> QED BY <2>1, <3>1 DEF Agent, Executes
  <2>3. CASE SafetyReview(w)
    <3>1. PICK out \in {{}, {"reject"}} :
            Agent(w, "safety_review", out) /\ (AgentFailed(r) => out = {"reject"})
      BY <2>3 DEF SafetyReview
    <3>2. out \in SUBSET Flags /\ "failed" \notin out /\ (out = {"reject"} => "reject" \in out)
      BY DEF Flags
    <3> QED BY <2>1, <3>1, <3>2 DEF Agent, Executes
  <2> QED BY <2>2, <2>3 DEF AgentNode
<1>2. PICK node, out :
        /\ out \in SUBSET Flags /\ TaskOf(w).node = node
        /\ node \in {"triage", "historical", "diagnostic", "critic", "plan_candidate", "safety_review"}
        /\ Complete(w, out, <<Supervisor>>, "running")
        /\ node = "safety_review" => "failed" \notin out /\ ("reject" \in out \/ ~AgentFailed(r))
  BY <1>1
<1>3. CASE node \in {"critic", "plan_candidate", "safety_review"}
  <2>1. TaskOf(w).node = "safety_review" => "failed" \notin out /\ ("reject" \in out \/ ~FailedIn(tasks[r]))
    BY <1>2, ReadsRows
  <2> QED BY <1>1, <1>2, <1>3, <2>1, LateGates
<1>4. CASE node \in {"triage", "historical", "diagnostic"}
  <2>1. <<Supervisor>> \in TodoRows /\ \A i \in DOMAIN <<Supervisor>> : <<Supervisor>>[i].node \in {"triage", "supervisor"}
    <3>1. "supervisor" \in Nodes /\ 0 \in Nat /\ 100 \in {80, 90, 100}
      BY DEF Nodes
    <3>2. OneRow("supervisor", 0, 100) \in TodoRows
      BY <3>1, RowOf
    <3> QED BY <3>2 DEF OneRow, Supervisor, Todo
  <2> DEFINE todo == <<Supervisor>>
  <2>2. todo \in TodoRows /\ \A i \in DOMAIN todo : todo[i].node \in {"triage", "supervisor"}
    BY <2>1
  <2>3. Complete(w, out, todo, "running")
    BY <1>2
  <2> HIDE DEF todo
  <2>4. /\ wk'[w].pc = "finish" /\ Rewrites(tasks[r], tasks'[r], wk[w].task, todo)
        /\ tasks'[r][wk[w].task].status = "completed" /\ run'[r].status = Begun(w)
    <3>1. /\ wk'[w].pc = "finish" /\ Rewrites(tasks[r], tasks'[r], wk[w].task, todo)
          /\ tasks'[r][wk[w].task].status = "completed"
          /\ run'[r].status = IF "running" = "running" THEN Begun(w) ELSE "running"
      BY <1>1, <1>2, <2>2, <2>3, NodeStep
    <3> QED BY <3>1
  <2>5. /\ h \in OpenRows(r) /\ Ordered(tasks[r], OpenRows(r))
        /\ \/ /\ run[r].status \in Claimable /\ Begun(w) = "running"
              /\ Whole(run[r].status, tasks[r], InHand(r)) /\ tasks[r][h].status = "ready"
           \/ run[r].status = "cancelled" /\ Begun(w) = "running" /\ Settled(tasks[r], h)
           \/ run[r].status = "cancelled" /\ Begun(w) = "cancelled"
    BY <1>1, BegunHands
  <2>6. Early(tasks[r][h])
    BY <1>2, <1>4 DEF TaskOf, Early
  <2>7. run'[r].status # "completed"
    BY <2>4, <2>5
  <2>8. run'[r].status \in Claimable =>
          \/ Settled(tasks[r], h)
          \/ /\ Whole(run[r].status, tasks[r], InHand(r)) /\ tasks[r][h].status \in ActiveTask
             /\ run'[r].status = "running"
    BY <2>4, <2>5 DEF Claimable, ActiveTask
  <2> QED BY <1>1, <2>2, <2>4, <2>5, <2>6, <2>7, <2>8, EarlyGates
<1> QED BY <1>2, <1>3, <1>4

-----------------------------------------------------------------------------
(* The supervisor's decisions.                                             *)

(* What the supervisor puts out opens no row, and no gate. *)
LEMMA SupervisorDone ==
  ASSUME NEW ts, NEW new, NEW h, NEW todo, Rewrites(ts, new, h, todo), ts[h].node = "supervisor",
         new[h].status = "completed", new[h].out = {}
  PROVE  /\ GoneOn(ts, new, h) /\ h \in DOMAIN ts /\ h \in DOMAIN new
         /\ \A node : node # "supervisor" => h \notin DoneIn(new, node)
         /\ new[h].status = "completed" => "failed" \notin new[h].out
         /\ ActiveRows(new) \cap DOMAIN ts \subseteq ActiveRows(ts)
         /\ ~Gating(ts[h]) /\ ~Gating(new[h])
<1>1. GoneOn(ts, new, h) /\ h \in DOMAIN ts /\ h \in DOMAIN new /\ new[h].node = "supervisor"
  BY RewritesGoOn DEF Rewrites
<1>2. ActiveRows(new) \cap DOMAIN ts \subseteq ActiveRows(ts)
  BY DEF Rewrites, ActiveRows, ActiveTask
<1> QED BY <1>1, <1>2 DEF DoneIn, Gating, IsRequest

(* Evidence or a diagnosis is scheduled before the gates. *)
LEMMA EarlyScheduled ==
  ASSUME NEW ts, NEW new, NEW h, NEW todo, Rewrites(ts, new, h, todo), ts[h].node = "supervisor",
         new[h].status = "completed", new[h].out = {},
         NEW open, Ordered(ts, open), Settled(ts, h),
         \/ DoneIn(ts, "evidence_collection") = {}
         \/ DoneIn(ts, "diagnostic") = {}
         \/ WantedIn(ts),
         NEW g, NEW status,
         \A t \in DOMAIN new : t \notin DOMAIN ts =>
           /\ new[t].node \in {"evidence_collection", "historical", "diagnostic"}
           /\ Gating(new[t]) => t = g
           /\ new[t].node = "diagnostic" => status = "running" /\ NoCollect(ts)
  PROVE  Whole(status, new, {}) /\ Ordered(new, ActiveRows(new))
<1>1. /\ GoneOn(ts, new, h) /\ h \in DOMAIN ts /\ h \notin DoneIn(new, "diagnostic")
      /\ ~Gating(ts[h]) /\ ~Gating(new[h])
  BY SupervisorDone
<1>2. BeforeGates(ts)
  BY StillBefore
<1>3. BeforeGates(new)
  BY <1>1, <1>2 DEF BeforeGates, GoneOn
<1>4. NoCollect(ts) => NoCollect(new)
  BY <1>1, SameRound
<1>5. \A t \in DOMAIN ts : Gating(new[t]) => new[t].status = "completed"
  <2> SUFFICES ASSUME NEW t \in DOMAIN ts, Gating(new[t]) PROVE new[t].status = "completed"
    OBVIOUS
  <2>1. t # h
    BY <1>1
  <2>2. new[t] = ts[t]
    BY <2>1 DEF Rewrites
  <2> QED BY <2>1, <2>2 DEF Settled
<1>6. Settled(new, g)
  BY <1>5 DEF Settled
<1>7. \A t \in DOMAIN new : t \notin DOMAIN ts => new[t].status = "ready"
  BY RewritesGoOn
<1>8. g \in DOMAIN new /\ Gating(new[g]) =>
        /\ new[g].status \in {"completed", "ready", "running"}
        /\ new[g].status # "completed" =>
             /\ IsRequest(new[g]) => {} \subseteq {g}
             /\ new[g].node = "diagnostic" => status = "running" /\ NoCollect(new)
  BY <1>4, <1>5, <1>7
<1>9. Whole(status, new, {})
  BY <1>6, <1>8, WholeOne
<1> QED BY <1>3, <1>9, NoGates

(* The critic, the plan or its safety review is scheduled at its gate. *)
LEMMA GateScheduled ==
  ASSUME NEW ts, NEW new, NEW h, NEW todo, Rewrites(ts, new, h, todo), ts[h].node = "supervisor",
         new[h].status = "completed", new[h].out = {},
         NEW open, Ordered(ts, open), ActiveRows(ts) \subseteq open,
         \A t \in DOMAIN ts : ts[t].node # "supervisor" => t \notin open,
         DiagnosisOver(ts, open), NEW node,
         \A t \in DOMAIN new : t \notin DOMAIN ts => new[t].node = node,
         \/ node = "critic" /\ CriticsIn(ts) = {}
         \/ node = "plan_candidate" /\ CriticsIn(ts) # {} /\ DoneIn(ts, "plan_candidate") = {}
         \/ /\ node = "safety_review" /\ CriticsIn(ts) # {}
            /\ DoneIn(ts, "plan_candidate") # {}
  PROVE  Ordered(new, ActiveRows(new))
<1> DEFINE open2 == ActiveRows(new)
<1>1. /\ GoneOn(ts, new, h) /\ h \in DOMAIN ts
      /\ h \notin DoneIn(new, "diagnostic") /\ h \notin DoneIn(new, "safety_review")
      /\ new[h].status = "completed" => "failed" \notin new[h].out
      /\ ActiveRows(new) \cap DOMAIN ts \subseteq ActiveRows(ts)
  BY SupervisorDone
<1>2. Passing(ts, new, h, open, open2)
  BY <1>1 DEF Passing, Early
<1>3. CriticGate(ts, open) /\ PlanGate(ts, open) /\ SafetyGate(ts, open) /\ FailureGate(ts)
  BY DEF Ordered
<1>4. \A t \in DOMAIN new : t \notin DOMAIN ts => new[t].status = "ready" /\ \A s \in DOMAIN ts : s < t
  <2>1. \A t \in DOMAIN new : t \notin DOMAIN ts => new[t].status = "ready"
    BY RewritesGoOn
  <2>2. \A t \in DOMAIN new : t \notin DOMAIN ts => \A s \in DOMAIN ts : s < t
    BY DEF Rewrites
  <2> QED BY <2>1, <2>2
<1> HIDE DEF open2
<1>5. CriticGate(new, open2)
  BY <1>2, <1>3, CriticGateKept
<1>6. FailureGate(new)
  BY <1>1, <1>3, FailureGateKept
<1>7. CASE node = "critic" /\ CriticsIn(ts) = {}
  <2>1. \A t \in DOMAIN ts : ts[t].node \notin {"plan_candidate", "safety_review"}
    BY <1>7, BeforePlan
  <2>2. \A t \in DOMAIN new : new[t].node \notin {"plan_candidate", "safety_review"}
    BY <1>1, <1>7, <2>1 DEF GoneOn
  <2>3. PlanGate(new, open2) /\ SafetyGate(new, open2)
    BY <2>2 DEF PlanGate, SafetyGate
  <2> QED BY <1>5, <1>6, <2>3 DEF Ordered, open2
<1>8. CASE node # "critic" /\ CriticsIn(ts) # {}
  <2>1. \A p \in DOMAIN new : p \notin DOMAIN ts /\ new[p].node = "plan_candidate" =>
           /\ \A t \in DOMAIN ts : Early(ts[t]) \/ ts[t].node = "critic" => t < p /\ t \notin open
           /\ CriticsIn(ts) # {}
    BY <1>4, <1>8 DEF Early
  <2>2. \A t \in DOMAIN new : t \notin DOMAIN ts => new[t].node # "critic"
    BY <1>8
  <2>3. PlanGate(new, open2)
    BY <1>2, <1>3, <2>1, <2>2, PlanGateKept
  <2>4. CASE node = "plan_candidate" /\ DoneIn(ts, "plan_candidate") = {}
    <3>1. \A t \in DOMAIN ts : ts[t].node # "safety_review"
      BY <2>4, BeforeSafety
    <3>2. \A t \in DOMAIN new : new[t].node # "safety_review"
      BY <1>1, <2>4, <3>1 DEF GoneOn
    <3>3. SafetyGate(new, open2)
      BY <3>2 DEF SafetyGate
    <3> QED BY <1>5, <1>6, <2>3, <3>3 DEF Ordered, open2
  <2>5. CASE node = "safety_review" /\ DoneIn(ts, "plan_candidate") # {}
    <3>1. \A t \in DOMAIN new : t \notin DOMAIN ts => ~Reviewable(new[t])
      BY <2>5 DEF Reviewable
    <3>2. \A s \in DOMAIN new : s \notin DOMAIN ts /\ new[s].node = "safety_review" =>
            /\ \A t \in DOMAIN ts : Reviewable(ts[t]) => t < s /\ t \notin open
            /\ DoneIn(ts, "plan_candidate") # {}
      BY <1>4, <2>5 DEF Reviewable
    <3>3. SafetyGate(new, open2)
      BY <1>2, <1>3, <3>1, <3>2, SafetyGateKept
    <3> QED BY <1>5, <1>6, <2>3, <3>3 DEF Ordered, open2
  <2> QED BY <1>8, <2>4, <2>5
<1> QED BY <1>7, <1>8

(* What a decision has read. *)
LEMMA DecisionReads ==
  ASSUME NEW r \in Runs, NEW fresh \in BOOLEAN, NEW d, d = Decide(r, fresh)
  PROVE  LET ts == tasks[r] IN
         /\ d \in {"wait_agents", "collect_initial", "run_diagnostics", "collect_requested",
                   "rerun_diagnostics", "run_critic", "escalate", "plan", "safety_review",
                   "observe_only_stop"}
         /\ d # "wait_agents" => ~AgentsActive(r)
         /\ d = "collect_initial" => DoneIn(ts, "evidence_collection") = {}
         /\ d = "run_diagnostics" => DoneIn(ts, "evidence_collection") # {} /\ DoneIn(ts, "diagnostic") = {}
         /\ d = "collect_requested" => /\ DoneIn(ts, "evidence_collection") # {}
                                       /\ DoneIn(ts, "diagnostic") # {}
                                       /\ WantedIn(ts) /\ FollowUpsIn(ts) = {}
         /\ d = "rerun_diagnostics" => /\ DoneIn(ts, "evidence_collection") # {} /\ WantedIn(ts)
                                       /\ FollowUpsIn(ts) # {}
         /\ d \in {"run_critic", "plan", "safety_review", "observe_only_stop"} =>
              /\ DoneIn(ts, "evidence_collection") # {} /\ DoneIn(ts, "diagnostic") # {}
              /\ WantedIn(ts) => FollowUpsIn(ts) # {} /\ ~EvidenceAnswered(r)
         /\ d = "run_critic" => CriticsIn(ts) = {}
         /\ d \in {"plan", "safety_review", "observe_only_stop"} =>
              /\ CriticsIn(ts) # {} /\ "confirmable" \in ts[LatestIn(ts)].out
              /\ "reject" \notin ts[LastOf(CriticsIn(ts))].out
         /\ d = "plan" => DoneIn(ts, "plan_candidate") = {}
         /\ d \in {"safety_review", "observe_only_stop"} => DoneIn(ts, "plan_candidate") # {}
         /\ d = "observe_only_stop" => /\ DoneIn(ts, "safety_review") # {}
                                       /\ "reject" \notin ts[LastOf(DoneIn(ts, "safety_review"))].out
<1> DEFINE ts == tasks[r]
<1>1. /\ \A node : Done(r, node) = DoneIn(ts, node)
      /\ Latest(r) = LatestIn(ts) /\ Critics(r) = CriticsIn(ts) /\ FollowUps(r) = FollowUpsIn(ts)
      /\ EvidenceWanted(r) = WantedIn(ts)
  BY ReadsRows
<1>2. Confirmed(r, fresh) =>
        /\ "confirmable" \in ts[LatestIn(ts)].out
        /\ "reject" \notin ts[LastOf(CriticsIn(ts))].out
  BY <1>1 DEF Confirmed
<1>3. EvidenceAnswered(r) => FollowUpsIn(ts) # {}
  BY <1>1 DEF EvidenceAnswered
<1>4. d = IF AgentsActive(r) THEN "wait_agents"
          ELSE IF DoneIn(ts, "evidence_collection") = {} THEN "collect_initial"
          ELSE IF DoneIn(ts, "diagnostic") = {} THEN "run_diagnostics"
          ELSE IF WantedIn(ts) /\ FollowUpsIn(ts) = {} THEN "collect_requested"
          ELSE IF WantedIn(ts) /\ EvidenceAnswered(r) THEN "rerun_diagnostics"
          ELSE IF CriticsIn(ts) = {} THEN "run_critic"
          ELSE IF ~Confirmed(r, fresh) THEN "escalate"
          ELSE IF DoneIn(ts, "plan_candidate") = {} THEN "plan"
          ELSE IF DoneIn(ts, "safety_review") = {} THEN "safety_review"
          ELSE IF "reject" \in ts[LastOf(DoneIn(ts, "safety_review"))].out THEN "escalate"
          ELSE "observe_only_stop"
  <2> HIDE DEF ts
  <2> QED BY <1>1 DEF Decide, ts
<1> HIDE DEF ts
<1> QED BY <1>2, <1>3, <1>4 DEF ts

LEMMA DecisionRows ==
  ASSUME NEW r \in Runs, NEW d
  PROVE  LET todo == NextTasks(r, d)
             k == tasks[r][LatestIn(tasks[r])].round IN
         /\ d = "collect_initial" =>
              todo = OneRow("evidence_collection", 0, 100) /\ RunStatusAfter(d) = "waiting_evidence"
         /\ d = "run_diagnostics" =>
              todo = TwoRows("historical", 90, "diagnostic", 100) /\ RunStatusAfter(d) = "running"
         /\ d = "collect_requested" =>
              todo = OneRow("evidence_collection", k + 1, 80) /\ RunStatusAfter(d) = "waiting_evidence"
         /\ d = "rerun_diagnostics" =>
              todo = OneRow("diagnostic", k + 1, 100) /\ RunStatusAfter(d) = "running"
         /\ d = "run_critic" =>
              todo = OneRow("critic", k, 100) /\ RunStatusAfter(d) = "running"
         /\ d = "plan" => todo = OneRow("plan_candidate", 0, 100) /\ RunStatusAfter(d) = "running"
         /\ d = "safety_review" => todo = OneRow("safety_review", 0, 100) /\ RunStatusAfter(d) = "running"
         /\ d = "wait_agents" => todo = <<>> /\ RunStatusAfter(d) = "running"
         /\ d = "escalate" => todo = <<>> /\ RunStatusAfter(d) = "failed"
         /\ d = "observe_only_stop" => todo = <<>> /\ RunStatusAfter(d) = "completed"
<1>1. LatestRound(r) = tasks[r][LatestIn(tasks[r])].round
  BY ReadsRows
<1> DEFINE k == tasks[r][LatestIn(tasks[r])].round
<1>2. LatestRound(r) = k
  BY <1>1
<1> HIDE DEF k
<1>3. /\ d = "collect_initial" => NextTasks(r, d) = OneRow("evidence_collection", 0, 100)
      /\ d = "run_diagnostics" => NextTasks(r, d) = TwoRows("historical", 90, "diagnostic", 100)
      /\ d = "collect_requested" => NextTasks(r, d) = OneRow("evidence_collection", k + 1, 80)
      /\ d = "rerun_diagnostics" => NextTasks(r, d) = OneRow("diagnostic", k + 1, 100)
      /\ d = "run_critic" => NextTasks(r, d) = OneRow("critic", k, 100)
      /\ d = "plan" => NextTasks(r, d) = OneRow("plan_candidate", 0, 100)
      /\ d = "safety_review" => NextTasks(r, d) = OneRow("safety_review", 0, 100)
      /\ d \in {"wait_agents", "escalate", "observe_only_stop"} => NextTasks(r, d) = <<>>
  BY <1>2 DEF NextTasks, NextRound, OneRow, TwoRows
<1>4. /\ d \in {"collect_initial", "collect_requested"} => RunStatusAfter(d) = "waiting_evidence"
      /\ d \in {"run_diagnostics", "rerun_diagnostics", "run_critic", "plan", "safety_review", "wait_agents"} =>
           RunStatusAfter(d) = "running"
      /\ d = "escalate" => RunStatusAfter(d) = "failed"
      /\ d = "observe_only_stop" => RunStatusAfter(d) = "completed"
  BY DEF RunStatusAfter
<1> QED BY <1>3, <1>4 DEF k

(* Once every follow-up and diagnosis is done with, what is wanted has been answered or
   is not wanted any more: the critic is due. *)
LEMMA EvidenceIn ==
  ASSUME NEW r \in Runs, NEW ts, ts = tasks[r], RowsOK(ts), DoneIn(ts, "diagnostic") # {},
         \A t \in DOMAIN ts : Gating(ts[t]) => ts[t].status = "completed",
         WantedIn(ts) => FollowUpsIn(ts) # {} /\ ~EvidenceAnswered(r)
  PROVE  ~WantedIn(ts)
<1> SUFFICES ASSUME WantedIn(ts) PROVE FALSE
  OBVIOUS
<1>1. /\ FollowUps(r) = FollowUpsIn(ts) /\ LatestRound(r) = ts[LatestIn(ts)].round
  BY ReadsRows
<1>2. LatestIn(ts) \in DoneIn(ts, "diagnostic") /\ ComesLast(ts, LatestIn(ts))
  BY LatestComesLast
<1>3. \A t \in DOMAIN ts : ts[t].round \in Nat
  BY RowRounds
<1>4. ts[LatestIn(ts)].round \in Nat
  BY <1>2, <1>3 DEF DoneIn
<1>5. PICK f \in FollowUpsIn(ts) : TRUE
  OBVIOUS
<1>6. ts[f].status = "completed"
  <2>1. f \in DOMAIN ts /\ ts[f].node = "evidence_collection" /\ ts[f].round = ts[LatestIn(ts)].round + 1
    BY DEF FollowUpsIn
  <2>2. ts[f].round > 0
    BY <1>4, <2>1
  <2> QED BY <2>1, <2>2 DEF Gating, IsRequest
<1>7. PICK t \in DOMAIN ts : ts[t].node = "diagnostic" /\ ts[t].round > ts[LatestIn(ts)].round
  BY <1>1, <1>5, <1>6 DEF EvidenceAnswered
<1>8. t \in DoneIn(ts, "diagnostic")
  BY <1>7 DEF Gating, DoneIn
<1>9. ts[t].round <= ts[LatestIn(ts)].round
  BY <1>2, <1>3, <1>4, <1>8 DEF ComesLast
<1> QED BY <1>3, <1>4, <1>7, <1>9

LEMMA OneMore ==
  ASSUME NEW ts, NEW new, NEW h, NEW node, NEW round, NEW prio,
         Rewrites(ts, new, h, OneRow(node, round, prio))
  PROVE  /\ \A t \in DOMAIN new : t \notin DOMAIN ts => t = Len(ts) + 1 /\ new[t].node = node
         /\ \A i \in DOMAIN OneRow(node, round, prio) : OneRow(node, round, prio)[i].node = node
<1> DEFINE todo == OneRow(node, round, prio)
<1>1. DOMAIN todo = {1} /\ todo[1].node = node
  BY DEF OneRow, Todo
<1> HIDE DEF todo
<1>2. \A t \in DOMAIN new : t \notin DOMAIN ts =>
        \E i \in DOMAIN todo : i = t - Len(ts) /\ new[t].node = todo[i].node
  BY RewritesGoOn DEF todo
<1>3. Len(ts) \in Nat /\ \A t \in DOMAIN new : t \notin DOMAIN ts => t \in Nat
  BY DEF Rewrites
<1>4. ASSUME NEW t \in DOMAIN new, t \notin DOMAIN ts
      PROVE  t = Len(ts) + 1 /\ new[t].node = node
  <2>1. 1 = t - Len(ts) /\ new[t].node = node
    BY <1>1, <1>2, <1>4
  <2> QED BY <1>3, <1>4, <2>1
<1> QED BY <1>1, <1>4 DEF todo

LEMMA TwoMore ==
  ASSUME NEW ts, NEW new, NEW h, Rewrites(ts, new, h, TwoRows("historical", 90, "diagnostic", 100))
  PROVE  \A t \in DOMAIN new : t \notin DOMAIN ts =>
           \/ new[t].node = "historical"
           \/ new[t].node = "diagnostic" /\ t = Len(ts) + 2
<1> DEFINE todo == TwoRows("historical", 90, "diagnostic", 100)
<1>1. DOMAIN todo = {1, 2} /\ todo[1].node = "historical" /\ todo[2].node = "diagnostic"
  <2>1. DOMAIN <<Todo("historical", 0, 90), Todo("diagnostic", 0, 100)>> = {1, 2}
    OBVIOUS
  <2> QED BY <2>1 DEF TwoRows, Todo
<1> HIDE DEF todo
<1>2. \A t \in DOMAIN new : t \notin DOMAIN ts =>
        \E i \in DOMAIN todo : i = t - Len(ts) /\ new[t].node = todo[i].node
  BY RewritesGoOn DEF todo
<1>3. Len(ts) \in Nat /\ \A t \in DOMAIN new : t \notin DOMAIN ts => t \in Nat
  BY DEF Rewrites
<1>4. ASSUME NEW t \in DOMAIN new, t \notin DOMAIN ts
      PROVE  new[t].node = "historical" \/ (new[t].node = "diagnostic" /\ t = Len(ts) + 2)
  <2>1. PICK i \in {1, 2} : i = t - Len(ts) /\ new[t].node = todo[i].node
    BY <1>1, <1>2, <1>4
  <2>2. CASE i = 1
    BY <1>1, <2>1, <2>2
  <2>3. CASE i = 2
    <3>1. 2 = t - Len(ts) /\ new[t].node = "diagnostic" /\ t \in Nat
      BY <1>1, <1>3, <1>4, <2>1, <2>3
    <3> QED BY <1>3, <3>1
  <2> QED BY <2>2, <2>3
<1> QED BY <1>4

(* A run that the supervisor completes has passed all its gates. *)
LEMMA StopPassed ==
  ASSUME NEW ts, NEW open, RowsOK(ts), Ordered(ts, open),
         DoneIn(ts, "diagnostic") # {}, CriticsIn(ts) # {}, "confirmable" \in ts[LatestIn(ts)].out,
         "reject" \notin ts[LastOf(CriticsIn(ts))].out,
         DoneIn(ts, "plan_candidate") # {}, DoneIn(ts, "safety_review") # {},
         "reject" \notin ts[LastOf(DoneIn(ts, "safety_review"))].out
  PROVE  AllPassed(ts)
<1> DEFINE c == LastOf(CriticsIn(ts))
           s == LastOf(DoneIn(ts, "safety_review"))
<1>1. c \in CriticsIn(ts) /\ s \in DoneIn(ts, "safety_review")
  <2>1. CriticsIn(ts) \in SUBSET (DOMAIN ts) /\ DoneIn(ts, "safety_review") \in SUBSET (DOMAIN ts)
    BY DEF CriticsIn, DoneIn
  <2> QED BY <2>1, LastExists
<1> HIDE DEF c, s
<1>2. c \in DOMAIN ts /\ ts[c].node = "critic" /\ s \in DOMAIN ts /\ ts[s].node = "safety_review"
  BY <1>1 DEF CriticsIn, DoneIn
<1>3. ~WantedIn(ts)
  BY <1>2 DEF Ordered, CriticGate, DiagnosisOver
<1>4. PICK p \in DoneIn(ts, "plan_candidate") : TRUE
  OBVIOUS
<1>5. p \in DOMAIN ts /\ ts[p].node = "plan_candidate"
  BY DEF DoneIn
<1>6. c < p
  BY <1>2, <1>5 DEF Ordered, PlanGate
<1>7. p < s
  BY <1>2, <1>5 DEF Ordered, SafetyGate, Reviewable
<1>8. "reject" \notin ts[s].out /\ "reject" \notin ts[c].out
  BY DEF c, s
<1>9. ~FailedIn(ts)
  BY <1>1, <1>8 DEF Ordered, FailureGate
<1>10. \E q \in DoneIn(ts, "plan_candidate"), t \in DoneIn(ts, "safety_review") :
         c < q /\ q < t /\ "reject" \notin ts[t].out
  BY <1>1, <1>6, <1>7, <1>8
<1> QED BY <1>3, <1>8, <1>9, <1>10 DEF AllPassed, c

LEMMA SuperviseGates ==
  ASSUME RowsInv, RowsInv', LeaseInv, Attended, Calm, NEW w \in Workers, Supervise(w),
         NEW r \in Runs, wk[w].run = r, GatesOf(r)
  PROVE  GatesOf(r)'
<1> DEFINE ts == tasks[r]
           new == tasks'[r]
           h == wk[w].task
           open == OpenRows(r)
           status2 == run'[r].status
<1>1. PICK fresh \in BOOLEAN :
        Complete(w, {}, NextTasks(r, Decide(r, fresh)), RunStatusAfter(Decide(r, fresh)))
  BY DEF Supervise
<1>2. PICK d : d = Decide(r, fresh)
  OBVIOUS
<1>3. PICK todo : todo = NextTasks(r, d)
  OBVIOUS
<1>4. /\ wk[w].pc = "begun" /\ CanBegin(w) /\ TaskOf(w) = ts[h] /\ ts[h].node = "supervisor"
      /\ Acts(w) /\ RowsOK(ts)
  BY Held DEF Supervise, Executes, Acts, TaskOf
<1>5. todo \in TodoRows
  BY <1>2, <1>3, <1>4, DecisionsScheduleRows
<1>6. /\ wk'[w].pc = "finish" /\ Rewrites(ts, new, h, todo)
      /\ new[h].status = "completed" /\ new[h].out = {}
      /\ status2 = IF RunStatusAfter(d) = "running" THEN Begun(w) ELSE RunStatusAfter(d)
  <2>1. Complete(w, {}, todo, RunStatusAfter(d)) /\ {} \in SUBSET Flags
    BY <1>1, <1>2, <1>3
  <2> QED BY <1>4, <1>5, <2>1, NodeStep
<1>7. /\ h \in DOMAIN ts /\ Ordered(ts, open) /\ ActiveRows(ts) \subseteq open
      /\ \/ /\ run[r].status \in Claimable /\ Begun(w) = "running"
            /\ Whole(run[r].status, ts, InHand(r)) /\ ts[h].status = "ready"
         \/ run[r].status = "cancelled" /\ Begun(w) = "running" /\ Settled(ts, h)
         \/ run[r].status = "cancelled" /\ Begun(w) = "cancelled" /\ (Settled(ts, h) \/ NoCollect(ts))
  BY <1>4, BegunHands
<1>8. /\ GoneOn(ts, new, h) /\ h \notin DoneIn(new, "diagnostic") /\ h \notin DoneIn(new, "critic")
      /\ h \notin DoneIn(new, "safety_review")
      /\ new[h].status = "completed" => "failed" \notin new[h].out
      /\ ~Gating(ts[h])
  BY <1>4, <1>6, SupervisorDone
<1>9. /\ \A t \in DOMAIN ts : t \in ActiveRows(new) => t \in open
  BY <1>4, <1>6, <1>7, SupervisorDone
<1>10. ASSUME d # "wait_agents"
       PROVE  /\ \A t \in DOMAIN ts : ts[t].node # "supervisor" => t \notin open
              /\ Begun(w) = "running" => \A t \in DOMAIN ts : Gating(ts[t]) => ts[t].status = "completed"
  <2>1. \A t \in DOMAIN ts : ts[t].node # "supervisor" => ts[t].status \notin ActiveTask
    BY <1>2, <1>10, DecisionReads DEF AgentsActive
  <2>2. \A v \in Workers : Begins(v, r) => v = w
    BY <1>4, Alone DEF Begins, WorksOn
  <2>3. \A t \in DOMAIN ts : ts[t].node # "supervisor" => t \notin open
    BY <1>4, <2>1, <2>2 DEF OpenRows
  <2>4. ASSUME Begun(w) = "running", NEW t \in DOMAIN ts, Gating(ts[t])
        PROVE  ts[t].status = "completed"
    <3>1. ts[t].node # "supervisor" /\ t # h
      BY <1>4, <2>4 DEF Gating, IsRequest
    <3>2. CASE Settled(ts, h)
      BY <2>4, <3>1, <3>2 DEF Settled
    <3>3. CASE Whole(run[r].status, ts, InHand(r))
      BY <2>1, <2>4, <3>1, <3>3 DEF Whole, ActiveTask
    <3> QED BY <1>7, <2>4, <3>2, <3>3
  <2> QED BY <2>3, <2>4
<1>11. CASE d = "wait_agents"
  <2>1. todo = <<>> /\ status2 = Begun(w)
    BY <1>3, <1>6, <1>11, DecisionRows
  <2>2. DOMAIN <<>> = {}
    BY EmptySeq
  <2>3. DOMAIN new = DOMAIN ts
    <3> HIDE DEF ts, new, h
    <3> QED BY <1>6, <2>1, <2>2 DEF Rewrites
  <2>4. status2 # "completed" /\ (status2 \in Claimable => Begun(w) = "running")
    BY <1>7, <2>1 DEF Claimable
  <2>5. ASSUME Begun(w) = "running" PROVE Whole(status2, new, {}) /\ Ordered(new, ActiveRows(new))
    <3> DEFINE status == run[r].status
               hands == InHand(r)
               open2 == ActiveRows(new)
    <3>1. \A i \in DOMAIN todo : todo[i].node # "diagnostic" /\ todo[i].node # "evidence_collection"
      BY <2>1, <2>2
    <3>2. Whole(status2, new, {})
      <4>1. \/ Settled(ts, h)
            \/ Whole(status, ts, hands) /\ ts[h].status \in ActiveTask
        BY <1>7, <2>5 DEF ActiveTask
      <4>2. status2 = "running"
        BY <2>1, <2>5
      <4> HIDE DEF ts, new, h, status2, status, hands
      <4>3. CASE Settled(ts, h)
        BY <1>6, <3>1, <4>3, WholeAfter
      <4>4. CASE Whole(status, ts, hands) /\ ts[h].status \in ActiveTask
        BY <1>6, <3>1, <4>2, <4>4, WholeAfter
      <4> QED BY <4>1, <4>3, <4>4
    <3>3. Ordered(new, open2)
      <4> HIDE DEF ts, new, h, open, open2
      <4>1. Passing(ts, new, h, open, open2)
        BY <1>8, <1>9, <2>3 DEF Passing, open2
      <4> QED BY <1>7, <1>8, <2>3, <4>1, OrderedKept
    <3> QED BY <3>2, <3>3
  <2> QED BY <1>4, <1>6, <2>4, <2>5, FinishGates
<1>12. CASE d \in {"collect_initial", "run_diagnostics", "collect_requested", "rerun_diagnostics"}
  <2>1. /\ \/ DoneIn(ts, "evidence_collection") = {}
           \/ DoneIn(ts, "diagnostic") = {}
           \/ WantedIn(ts)
        /\ d \in {"run_diagnostics", "rerun_diagnostics"} => NoCollect(ts)
        /\ d \in {"collect_initial", "collect_requested"} => ~NoCollect(ts)
    BY <1>2, <1>12, DecisionReads DEF NoCollect
  <2>2. status2 = (IF d \in {"collect_initial", "collect_requested"} THEN "waiting_evidence" ELSE Begun(w))
    BY <1>6, <1>12, DecisionRows
  <2>3. \E g : \A t \in DOMAIN new : t \notin DOMAIN ts =>
           /\ new[t].node \in {"evidence_collection", "historical", "diagnostic"}
           /\ Gating(new[t]) => t = g
           /\ new[t].node = "diagnostic" => d \in {"run_diagnostics", "rerun_diagnostics"}
    <3>1. CASE d = "run_diagnostics"
      <4>1. todo = TwoRows("historical", 90, "diagnostic", 100)
        BY <1>3, <3>1, DecisionRows
      <4>2. \A t \in DOMAIN new : t \notin DOMAIN ts =>
              \/ new[t].node = "historical"
              \/ new[t].node = "diagnostic" /\ t = Len(ts) + 2
        <5> HIDE DEF ts, new, h
        <5> QED BY <1>6, <4>1, TwoMore
      <4> QED BY <3>1, <4>2 DEF Gating, IsRequest
    <3>2. CASE d # "run_diagnostics"
      <4>1. PICK node, round, prio :
              /\ node \in {"evidence_collection", "diagnostic"}
              /\ todo = OneRow(node, round, prio)
              /\ node = "diagnostic" => d = "rerun_diagnostics"
        BY <1>3, <1>12, <3>2, DecisionRows
      <4>2. \A t \in DOMAIN new : t \notin DOMAIN ts => t = Len(ts) + 1 /\ new[t].node = node
        <5> HIDE DEF ts, new, h
        <5> QED BY <1>6, <4>1, OneMore
      <4> DEFINE g == Len(ts) + 1
      <4>3. \A t \in DOMAIN new : t \notin DOMAIN ts =>
              /\ new[t].node \in {"evidence_collection", "historical", "diagnostic"}
              /\ Gating(new[t]) => t = g
              /\ new[t].node = "diagnostic" => d \in {"run_diagnostics", "rerun_diagnostics"}
        <5> HIDE DEF ts, new
        <5> QED BY <4>1, <4>2
      <4> HIDE DEF g
      <4> QED BY <4>3
    <3> QED BY <3>1, <3>2
  <2>4. PICK g : \A t \in DOMAIN new : t \notin DOMAIN ts =>
           /\ new[t].node \in {"evidence_collection", "historical", "diagnostic"}
           /\ Gating(new[t]) => t = g
           /\ new[t].node = "diagnostic" => d \in {"run_diagnostics", "rerun_diagnostics"}
    BY <2>3
  <2>5. status2 # "completed"
    BY <1>7, <2>2
  <2>6. ASSUME status2 \in Claimable PROVE Whole(status2, new, {}) /\ Ordered(new, ActiveRows(new))
    <3>1. Settled(ts, h)
      <4>1. CASE Begun(w) = "running"
        BY <1>10, <1>12, <4>1 DEF Settled
      <4>2. CASE Begun(w) # "running"
        BY <1>7, <1>12, <2>1, <2>2, <2>6, <4>2 DEF Claimable
      <4> QED BY <4>1, <4>2
    <3>2. d \in {"run_diagnostics", "rerun_diagnostics"} => status2 = "running" /\ NoCollect(ts)
      BY <1>7, <2>1, <2>2, <2>6 DEF Claimable
    <3> HIDE DEF ts, new, h, open, status2
    <3>3. \A t \in DOMAIN new : t \notin DOMAIN ts =>
           /\ new[t].node \in {"evidence_collection", "historical", "diagnostic"}
           /\ Gating(new[t]) => t = g
           /\ new[t].node = "diagnostic" => status2 = "running" /\ NoCollect(ts)
      BY <2>4, <3>2
    <3> QED BY <1>4, <1>6, <1>7, <2>1, <3>1, <3>3, EarlyScheduled
  <2> QED BY <1>4, <1>6, <2>5, <2>6, FinishGates
<1>13. CASE d \in {"run_critic", "plan", "safety_review"}
  <2>1. status2 = Begun(w) /\ status2 # "completed" /\ (status2 \in Claimable => Begun(w) = "running")
    BY <1>6, <1>7, <1>13, DecisionRows DEF Claimable
  <2>2. PICK node, round, prio :
          /\ todo = OneRow(node, round, prio)
          /\ node = IF d = "run_critic" THEN "critic" ELSE IF d = "plan" THEN "plan_candidate" ELSE "safety_review"
    BY <1>3, <1>13, DecisionRows
  <2>3. /\ DoneIn(ts, "evidence_collection") # {} /\ DoneIn(ts, "diagnostic") # {}
        /\ WantedIn(ts) => FollowUpsIn(ts) # {} /\ ~EvidenceAnswered(r)
        /\ \/ node = "critic" /\ CriticsIn(ts) = {}
           \/ node = "plan_candidate" /\ CriticsIn(ts) # {} /\ DoneIn(ts, "plan_candidate") = {}
           \/ node = "safety_review" /\ CriticsIn(ts) # {} /\ DoneIn(ts, "plan_candidate") # {}
    BY <1>2, <1>13, <2>2, DecisionReads
  <2>4. ASSUME Begun(w) = "running" PROVE Whole(status2, new, {}) /\ Ordered(new, ActiveRows(new))
    <3>1. /\ \A t \in DOMAIN ts : ts[t].node # "supervisor" => t \notin open
          /\ \A t \in DOMAIN ts : Gating(ts[t]) => ts[t].status = "completed"
      BY <1>10, <1>13, <2>4
    <3>2. ~WantedIn(ts)
      BY <1>4, <2>3, <3>1, EvidenceIn
    <3>3. DiagnosisOver(ts, open)
      BY <2>3, <3>1, <3>2 DEF DiagnosisOver, Early
    <3>4. Settled(ts, h)
      BY <3>1 DEF Settled
    <3> HIDE DEF ts, new, h, open, status2
    <3>5. /\ \A t \in DOMAIN new : t \notin DOMAIN ts => new[t].node = node
          /\ \A i \in DOMAIN todo : todo[i].node = node
      BY <1>6, <2>2, OneMore
    <3>6. \A i \in DOMAIN todo : todo[i].node # "diagnostic" /\ todo[i].node # "evidence_collection"
      BY <2>3, <3>5
    <3>7. Whole(status2, new, {})
      BY <1>6, <3>4, <3>6, WholeAfter
    <3>8. Ordered(new, ActiveRows(new))
      BY <1>4, <1>6, <1>7, <2>3, <3>1, <3>3, <3>5, GateScheduled
    <3> QED BY <3>7, <3>8
  <2> QED BY <1>4, <1>6, <2>1, <2>4, FinishGates
<1>14. CASE d = "escalate"
  <2>1. status2 = "failed"
    BY <1>6, <1>14, DecisionRows
  <2> QED BY <1>4, <1>6, <2>1, FinishGates DEF Claimable
<1>15. CASE d = "observe_only_stop"
  <2>1. status2 = "completed"
    BY <1>6, <1>15, DecisionRows
  <2>2. /\ DoneIn(ts, "diagnostic") # {} /\ CriticsIn(ts) # {} /\ "confirmable" \in ts[LatestIn(ts)].out
        /\ "reject" \notin ts[LastOf(CriticsIn(ts))].out
        /\ DoneIn(ts, "plan_candidate") # {} /\ DoneIn(ts, "safety_review") # {}
        /\ "reject" \notin ts[LastOf(DoneIn(ts, "safety_review"))].out
    BY <1>2, <1>15, DecisionReads
  <2>3. AllPassed(new)
    <3> HIDE DEF ts, new, h, open
    <3>1. AllPassed(ts)
      BY <1>4, <1>7, <2>2, StopPassed
    <3> QED BY <1>8, <3>1, AllPassedKept
  <2> QED BY <1>4, <1>6, <2>1, <2>3, FinishGates DEF Claimable
<1>16. d \in {"wait_agents", "collect_initial", "run_diagnostics", "collect_requested",
              "rerun_diagnostics", "run_critic", "escalate", "plan", "safety_review",
              "observe_only_stop"}
  BY <1>2, DecisionReads
<1> QED BY <1>11, <1>12, <1>13, <1>14, <1>15, <1>16

-----------------------------------------------------------------------------
(* Every step keeps the gates.                                             *)

LEMMA ActingGates ==
  ASSUME RowsInv, RowsInv', LeaseInv, Attended, Calm, Collecting, NEW w \in Workers, Acts(w),
         \A r \in Runs : GatesOf(r)
  PROVE  \A r \in Runs : GatesOf(r)'
<1>1. PICK r \in Runs : r = wk[w].run
  BY ActingStep
<1>2. /\ WorksOn(w, r) /\ wk'[w].run = r
      /\ \A v \in Workers : v # w => wk'[v] = wk[v]
      /\ \A q \in Runs : q # r => run'[q] = run[q] /\ tasks'[q] = tasks[q]
  BY <1>1, ActingStep DEF WorksOn
<1>3. ASSUME NEW q \in Runs, q # r PROVE GatesOf(q)'
  <2>1. \A v \in Workers : WorksOn(v, q)' => WorksOn(v, q) /\ wk'[v] = wk[v]
    BY <1>2, <1>3 DEF WorksOn
  <2>2. Stands(q)
    BY <1>2, <1>3, <2>1 DEF Stands
  <2> QED BY <2>2, StandingGates DEF RowsInv
<1>4. GatesOf(r)'
  <2>1. GatesOf(r) /\ wk[w].run = r
    BY <1>1
  <2>2. CASE WaitHuman(w)
    <3>1. ~run[r].cred /\ run[r].status # "absent"
      BY <1>1, <1>2, <2>2, Held DEF WaitHuman, WorksOn
    <3> QED BY <1>1, <3>1 DEF LeaseInv, CredKnown, Calm
  <2>3. CASE Reread(w)
    BY <2>1, <2>3, NotingGates
  <2>4. CASE ProbeRefused(w) \/ FinishProbe(w) \/ RenewalBlocks(w)
    BY <2>1, <2>4, WaitGates
  <2>5. CASE Commits(w)
    BY <2>1, <2>5, SessionGates
  <2>6. CASE CollectDone(w)
    BY <2>1, <2>6, CollectGates
  <2>7. CASE Exhaust(w) \/ FailTask(w)
    BY <2>1, <2>7, HandlerGates
  <2>8. CASE Normalize(w)
    BY <2>1, <2>8, NormalizeGates
  <2>9. CASE AgentNode(w)
    BY <2>1, <2>9, AgentGates
  <2>10. CASE Supervise(w)
    BY <2>1, <2>10, SuperviseGates
  <2> QED BY <2>2, <2>3, <2>4, <2>5, <2>6, <2>7, <2>8, <2>9, <2>10 DEF Acts, Collection, Commits, CommitsCall
<1> QED BY <1>3, <1>4

(* Steps that touch no row and begin nothing. *)
LEMMA QuietGates ==
  ASSUME RowsInv, RowsInv', UNCHANGED tasks, \A q \in Runs : run'[q].status = run[q].status,
         \A v \in Workers : wk'[v] = wk[v] \/ wk'[v].pc = "idle",
         \A r \in Runs : GatesOf(r)
  PROVE  \A r \in Runs : GatesOf(r)'
<1> SUFFICES ASSUME NEW r \in Runs PROVE GatesOf(r)'
  OBVIOUS
<1>1. \A v \in Workers : WorksOn(v, r)' => WorksOn(v, r) /\ wk'[v] = wk[v]
  BY DEF WorksOn
<1>2. Stands(r)
  BY <1>1 DEF Stands
<1> QED BY <1>2, StandingGates DEF RowsInv

LEMMA AllGatesStep ==
  ASSUME RowsInv, RowsInv', LeaseInv, Attended, Calm, Collecting, RequestsFirst, [Next]_vars,
         \A r \in Runs : GatesOf(r)
  PROVE  \A r \in Runs : GatesOf(r)'
<1>1. CASE \E r \in Runs : Enqueue(r)
  BY <1>1, EnqueueGates
<1>2. CASE \E r \in Runs : ResumeHuman(r)
  <2>1. PICK r \in Runs : run[r].status = "waiting_human"
    BY <1>2 DEF ResumeHuman
  <2>2. ~run[r].cred
    BY <2>1 DEF LeaseInv, GateHeld
  <2> QED BY <2>1, <2>2 DEF LeaseInv, CredKnown, Calm
<1>3. CASE \E r \in Runs : LeaseExpire(r) \/ Elapse(r)
  <2>1. PICK r \in Runs : LeaseExpire(r) \/ Elapse(r)
    BY <1>3
  <2>2. UNCHANGED <<tasks, wk>> /\ run \in [Runs -> RunRecord]
    BY <2>1 DEF LeaseExpire, Elapse, RowsInv, TypeOK
  <2>3. run' = [run EXCEPT ![r].lease = "expired"] \/ run' = [run EXCEPT ![r].over = TRUE]
    BY <2>1 DEF LeaseExpire, Elapse
  <2>4. \A q \in Runs : run'[q].status = run[q].status
    BY <2>2, <2>3 DEF RunRecord
  <2> QED BY <2>2, <2>4, QuietGates
<1>4. CASE \E w \in Workers : Claim(w)
  BY <1>4, ClaimGates
<1>5. CASE \E w \in Workers : Release(w)
  <2>1. PICK w \in Workers : Release(w)
    BY <1>5
  <2>2. /\ wk'[w].pc = "idle" /\ UNCHANGED tasks
        /\ \A v \in Workers : v # w => wk'[v] = wk[v]
        /\ \A q \in Runs : run'[q].status = run[q].status
    BY <2>1, ReleaseStep
  <2>3. \A v \in Workers : wk'[v] = wk[v] \/ wk'[v].pc = "idle"
    BY <2>2
  <2> QED BY <2>2, <2>3, QuietGates
<1>6. CASE \E w \in Workers : Acts(w)
  BY <1>6, ActingGates
<1>7. CASE \E w \in Workers : Stops(w)
  <2>1. PICK w \in Workers : Stops(w)
    BY <1>7
  <2>2. /\ wk'[w].pc = "idle" /\ UNCHANGED <<run, tasks>>
        /\ \A v \in Workers : v # w => wk'[v] = wk[v]
    BY <2>1, StoppingStep
  <2>3. \A v \in Workers : wk'[v] = wk[v] \/ wk'[v].pc = "idle"
    BY <2>2
  <2> QED BY <2>2, <2>3, QuietGates
<1>8. CASE UNCHANGED <<run, tasks, wk, used>>
  BY <1>8, QuietGates
<1> QED BY <1>1, <1>2, <1>3, <1>4, <1>5, <1>6, <1>7, <1>8, StepCases

-----------------------------------------------------------------------------
(* Requests are what has the first priority.                               *)

RequestsIn(rows) == \A i \in DOMAIN rows : IsRequest(rows[i]) <=> rows[i].prio = 80

LEMMA OneRequest ==
  ASSUME NEW node, NEW round, NEW prio,
         node = "evidence_collection" /\ round > 0 <=> prio = 80
  PROVE  RequestsIn(OneRow(node, round, prio))
<1> DEFINE one == OneRow(node, round, prio)
<1>1. DOMAIN one = {1} /\ one[1] = Todo(node, round, prio)
  BY DEF OneRow
<1> HIDE DEF one
<1>2. RequestsIn(one)
  BY <1>1 DEF RequestsIn, IsRequest, Todo
<1> QED BY <1>2 DEF one

LEMMA TwoOthers ==
  ASSUME NEW node, NEW other, NEW prio, NEW q, prio # 80, q # 80,
         node # "evidence_collection", other # "evidence_collection"
  PROVE  RequestsIn(TwoRows(node, prio, other, q))
<1> DEFINE two == TwoRows(node, prio, other, q)
<1>1. DOMAIN two = {1, 2} /\ two[1] = Todo(node, 0, prio) /\ two[2] = Todo(other, 0, q)
  BY DEF TwoRows
<1> HIDE DEF two
<1>2. RequestsIn(two)
  BY <1>1 DEF RequestsIn, IsRequest, Todo
<1> QED BY <1>2 DEF two

(* The supervisor asks for evidence first, and for nothing else. *)
LEMMA DecisionRequests ==
  ASSUME NEW r \in Runs, RowsOK(tasks[r]), NEW fresh \in BOOLEAN
  PROVE  RequestsIn(NextTasks(r, Decide(r, fresh)))
<1> DEFINE k == tasks[r][LatestIn(tasks[r])].round
<1>1. PICK d : d = Decide(r, fresh)
  OBVIOUS
<1>2. d \in {"wait_agents", "collect_initial", "run_diagnostics", "collect_requested",
             "rerun_diagnostics", "run_critic", "escalate", "plan", "safety_review",
             "observe_only_stop"}
  BY <1>1, DecisionReads
<1>3. d = "collect_requested" => k + 1 > 0
  <2> SUFFICES ASSUME d = "collect_requested" PROVE k + 1 > 0
    OBVIOUS
  <2>1. DoneIn(tasks[r], "diagnostic") # {}
    BY <1>1, DecisionReads
  <2>2. LatestIn(tasks[r]) \in DOMAIN tasks[r]
    BY <2>1, LatestComesLast DEF DoneIn
  <2>3. k \in Nat
    BY <2>2, RowRounds
  <2> QED BY <2>3
<1> HIDE DEF k
<1>4. PICK todo : todo = NextTasks(r, d)
  OBVIOUS
<1>5. /\ d = "collect_initial" => todo = OneRow("evidence_collection", 0, 100)
      /\ d = "run_diagnostics" => todo = TwoRows("historical", 90, "diagnostic", 100)
      /\ d = "collect_requested" => todo = OneRow("evidence_collection", k + 1, 80)
      /\ d = "rerun_diagnostics" => todo = OneRow("diagnostic", k + 1, 100)
      /\ d = "run_critic" => todo = OneRow("critic", k, 100)
      /\ d = "plan" => todo = OneRow("plan_candidate", 0, 100)
      /\ d = "safety_review" => todo = OneRow("safety_review", 0, 100)
      /\ d \in {"wait_agents", "escalate", "observe_only_stop"} => todo = <<>>
  BY <1>4, DecisionRows DEF k
<1>6. CASE d = "collect_initial"
  <2>1. "evidence_collection" = "evidence_collection" /\ 0 > 0 <=> 100 = 80
    OBVIOUS
  <2>2. RequestsIn(OneRow("evidence_collection", 0, 100))
    BY <2>1, OneRequest
  <2> QED BY <1>1, <1>4, <1>5, <1>6, <2>2
<1>7. CASE d = "collect_requested"
  <2>1. "evidence_collection" = "evidence_collection" /\ k + 1 > 0 <=> 80 = 80
    BY <1>3, <1>7
  <2>2. RequestsIn(OneRow("evidence_collection", k + 1, 80))
    BY <2>1, OneRequest
  <2> QED BY <1>1, <1>4, <1>5, <1>7, <2>2
<1>8. CASE d \in {"rerun_diagnostics", "run_critic", "plan", "safety_review"}
  <2>1. PICK n \in {"diagnostic", "critic", "plan_candidate", "safety_review"},
             round \in {k + 1, k, 0} : todo = OneRow(n, round, 100)
    BY <1>5, <1>8
  <2>2. n = "evidence_collection" /\ round > 0 <=> 100 = 80
    OBVIOUS
  <2>3. RequestsIn(OneRow(n, round, 100))
    BY <2>2, OneRequest
  <2> QED BY <1>1, <1>4, <2>1, <2>3
<1>9. CASE d = "run_diagnostics"
  <2>1. RequestsIn(TwoRows("historical", 90, "diagnostic", 100))
    <3>1. 90 # 80 /\ 100 # 80 /\ "historical" # "evidence_collection" /\ "diagnostic" # "evidence_collection"
      OBVIOUS
    <3> QED BY <3>1, TwoOthers
  <2> QED BY <1>1, <1>4, <1>5, <1>9, <2>1
<1>10. CASE d \in {"wait_agents", "escalate", "observe_only_stop"}
  <2>1. RequestsIn(<<>>)
    BY EmptySeq DEF RequestsIn
  <2> QED BY <1>1, <1>4, <1>5, <1>10, <2>1
<1> QED BY <1>2, <1>6, <1>7, <1>8, <1>9, <1>10

(* A step of a worker rewrites its task's row, or writes no row. *)
StepsTask(w) == \E row : \E todo \in TodoRows :
  SameTask(w, row) /\ TaskStep(w, row, todo) /\ RequestsIn(todo)

LEMMA NodeRequests ==
  ASSUME RowsInv, NEW w \in Workers, Normalize(w) \/ Supervise(w) \/ AgentNode(w)
  PROVE  StepsTask(w)
<1>1. \E out, todo, status : /\ wk[w].pc = "begun" /\ out \in SUBSET Flags
                             /\ Complete(w, out, todo, status)
                             /\ todo \in TodoRows /\ RequestsIn(todo)
  <2>1. CASE Normalize(w)
    <3>1. "triage" \in Nodes /\ "supervisor" \in Nodes /\ 100 \in {80, 90, 100}
      BY DEF Nodes
    <3>2. TwoRows("triage", 100, "supervisor", 100) \in TodoRows
      BY <3>1, RowsOf
    <3>3. RequestsIn(TwoRows("triage", 100, "supervisor", 100))
      <4>1. 100 # 80 /\ "triage" # "evidence_collection" /\ "supervisor" # "evidence_collection"
        OBVIOUS
      <4> QED BY <4>1, TwoOthers
    <3>4. wk[w].pc = "begun" /\ Complete(w, {}, TwoRows("triage", 100, "supervisor", 100), "running")
      BY <2>1 DEF Normalize, Executes, TwoRows, Supervisor
    <3> QED BY <3>2, <3>3, <3>4
  <2>2. CASE Supervise(w)
    <3>1. wk[w].pc = "begun"
      BY <2>2 DEF Supervise, Executes
    <3>2. PICK r \in Runs : r = wk[w].run /\ RowsOK(tasks[r])
      BY <3>1, Held
    <3>3. PICK fresh \in BOOLEAN :
            Complete(w, {}, NextTasks(r, Decide(r, fresh)), RunStatusAfter(Decide(r, fresh)))
      BY <2>2, <3>2 DEF Supervise
    <3>4. NextTasks(r, Decide(r, fresh)) \in TodoRows /\ RequestsIn(NextTasks(r, Decide(r, fresh)))
      BY <3>2, DecisionsScheduleRows, DecisionRequests
    <3> QED BY <3>1, <3>3, <3>4
  <2>3. CASE AgentNode(w)
    <3>1. \E node, out : out \in SUBSET Flags /\ Agent(w, node, out)
      BY <2>3 DEF AgentNode, Triage, Historical, Diagnostic, Critic, PlanCandidate, SafetyReview,
                  Outcomes, Flags
    <3>2. PICK node, out : out \in SUBSET Flags /\ Agent(w, node, out)
      BY <3>1
    <3>3. wk[w].pc = "begun" /\ Complete(w, out, OneRow("supervisor", 0, 100), "running")
      BY <3>2 DEF Agent, Executes, OneRow, Supervisor
    <3>4. "supervisor" \in Nodes /\ 0 \in Nat /\ 100 \in {80, 90, 100}
      BY DEF Nodes
    <3>5. OneRow("supervisor", 0, 100) \in TodoRows
      BY <3>4, RowOf
    <3>6. "supervisor" = "evidence_collection" /\ 0 > 0 <=> 100 = 80
      OBVIOUS
    <3>7. RequestsIn(OneRow("supervisor", 0, 100))
      BY <3>6, OneRequest
    <3> QED BY <3>2, <3>3, <3>5, <3>7
  <2> QED BY <2>1, <2>2, <2>3
<1>2. PICK out, todo, status : /\ wk[w].pc = "begun" /\ out \in SUBSET Flags
                               /\ Complete(w, out, todo, status)
                               /\ todo \in TodoRows /\ RequestsIn(todo)
  BY <1>1
<1>3. PICK row : SameTask(w, row) /\ TaskStep(w, row, todo)
  BY <1>2, CompleteTask
<1> QED BY <1>2, <1>3 DEF StepsTask

LEMMA ActingRequests ==
  ASSUME RowsInv, NEW w \in Workers, Acts(w)
  PROVE  UNCHANGED tasks \/ StepsTask(w)
<1>0. RequestsIn(<<>>)
  BY EmptySeq DEF RequestsIn
<1>1. CASE Normalize(w) \/ Supervise(w) \/ AgentNode(w)
  BY <1>1, NodeRequests
<1>2. CASE Exhaust(w) \/ FailTask(w)
  BY <1>0, <1>2, HandlerTask DEF StepsTask
<1>3. CASE WaitHuman(w)
  BY <1>0, <1>3, WaitHumanTask DEF StepsTask
<1>4. CASE Commits(w)
  <2>1. wk[w].pc # "idle" /\ \E calls \in [Calls -> CallStatus] : CommitBegin(w, calls)
    BY <1>4, GatewayCommit
  <2>2. \E row : SameTask(w, row) /\ TaskStep(w, row, <<>>) /\ <<>> \in TodoRows
    BY <2>1, CommitTask
  <2> QED BY <1>0, <2>2 DEF StepsTask
<1>5. CASE CollectDone(w)
  <2>1. "supervisor" = "evidence_collection" /\ 0 > 0 <=> 100 = 80
    OBVIOUS
  <2>2. RequestsIn(OneRow("supervisor", 0, 100))
    BY <2>1, OneRequest
  <2>3. RequestsIn(<<Supervisor>>)
    BY <2>2 DEF OneRow, Supervisor
  <2>4. \E row : \E todo \in {<<>>, <<Supervisor>>} :
          todo \in TodoRows /\ SameTask(w, row) /\ TaskStep(w, row, todo)
    BY <1>5, CollectTask
  <2> QED BY <1>0, <2>3, <2>4 DEF StepsTask
<1>6. CASE Reread(w) \/ RenewalBlocks(w) \/ ProbeRefused(w) \/ FinishProbe(w)
  BY <1>6 DEF Reread, RenewalBlocks, ProbeRefused, FinishProbe
<1> QED BY <1>1, <1>2, <1>3, <1>4, <1>5, <1>6 DEF Acts, Collection, Commits, CommitsCall

(* The rows of a run that keep what tells requests from the rest. *)
SameRequests(q) ==
  /\ DOMAIN tasks'[q] = DOMAIN tasks[q]
  /\ \A t \in DOMAIN tasks[q] :
       tasks'[q][t].node = tasks[q][t].node /\ tasks'[q][t].round = tasks[q][t].round
       /\ tasks'[q][t].prio = tasks[q][t].prio

LEMMA SameRequestsFirst ==
  ASSUME NEW q \in Runs, SameRequests(q), RequestsFirst
  PROVE  RequestsIn(tasks'[q])
  BY DEF SameRequests, RequestsFirst, RequestsIn, IsRequest

LEMMA RequestsFirstStep ==
  ASSUME RowsInv, RequestsFirst, [Next]_vars
  PROVE  RequestsFirst'
<1> SUFFICES \A q \in Runs : RequestsIn(tasks'[q])
  BY DEF RequestsFirst, RequestsIn, IsRequest
<1>1. CASE \E r \in Runs : Enqueue(r)
  <2>1. PICK r \in Runs : Enqueue(r)
    BY <1>1
  <2>2. \A q \in Runs : q # r => SameRequests(q)
    BY <2>1, EnqueuedRows DEF SameRequests, Restatus
  <2>3. RequestsIn(tasks'[r])
    <3>1. DOMAIN tasks'[r] = {1} /\ tasks'[r][1] = Fresh(Todo("normalize", 0, 100), 0)
      BY <2>1, EnqueuedRows
    <3>2. tasks'[r][1].node = "normalize" /\ tasks'[r][1].prio = 100
      BY <3>1 DEF Fresh, Todo
    <3> QED BY <3>1, <3>2 DEF RequestsIn, IsRequest
  <2> QED BY <2>2, <2>3, SameRequestsFirst
<1>2. CASE \E r \in Runs : ResumeHuman(r)
  <2>1. PICK r \in Runs : tasks' = [tasks EXCEPT ![r] = Unblocked(r)]
    BY <1>2 DEF ResumeHuman
  <2>2. tasks'[r] = Unblocked(r) /\ \A q \in Runs : q # r => tasks'[q] = tasks[q]
    BY <2>1 DEF RowsInv, TypeOK
  <2>3. SameRequests(r)
    BY <2>2, UnblockedRows DEF SameRequests, Restatus
  <2>4. \A q \in Runs : q # r => SameRequests(q)
    BY <2>2 DEF SameRequests
  <2> QED BY <2>3, <2>4, SameRequestsFirst
<1>3. CASE \E w \in Workers : Claim(w)
  <2>1. PICK w \in Workers : Claim(w)
    BY <1>3
  <2>2. PICK r \in Runs : /\ tasks' = [tasks EXCEPT ![r] = Recovered(r)]
                          /\ \A q \in Runs : q # r => tasks'[q] = tasks[q]
    BY <2>1, ClaimStep
  <2>3. tasks'[r] = Recovered(r)
    BY <2>2 DEF RowsInv, TypeOK
  <2>4. SameRequests(r)
    BY <2>3, RecoveredRows DEF SameRequests, Restatus
  <2>5. \A q \in Runs : q # r => SameRequests(q)
    BY <2>2 DEF SameRequests
  <2> QED BY <2>4, <2>5, SameRequestsFirst
<1>4. CASE \E w \in Workers : StepsTask(w) /\ Acts(w)
  <2>1. PICK w \in Workers : StepsTask(w) /\ Acts(w)
    BY <1>4
  <2>2. PICK row : \E todo \in TodoRows : SameTask(w, row) /\ TaskStep(w, row, todo) /\ RequestsIn(todo)
    BY <2>1 DEF StepsTask
  <2>3. PICK todo \in TodoRows : SameTask(w, row) /\ TaskStep(w, row, todo) /\ RequestsIn(todo)
    BY <2>2
  <2>4. PICK r \in Runs, h, n \in Nat, k \in Nat : r = wk[w].run /\ h = wk[w].task
                                                /\ n = Len(tasks[r]) /\ k = Len(todo)
    BY <2>1, <2>3, TaskStepRows, ActingStep
  <2>5. wk[w].pc # "idle"
    BY <2>1, ActingStep
  <2>6. /\ DOMAIN tasks[r] = 1 .. n /\ h \in 1 .. n /\ DOMAIN todo = 1 .. k
        /\ \A q \in Runs : q # r => tasks'[q] = tasks[q]
        /\ DOMAIN tasks'[r] = 1 .. (n + k) /\ tasks'[r][h] = row
        /\ \A t \in 1 .. n : t # h => tasks'[r][t] = tasks[r][t]
        /\ \A i \in 1 .. k : tasks'[r][n + i] = Fresh(todo[i], n)
    <3>1. SameTask(w, row) /\ TaskStep(w, row, todo)
      BY <2>3
    <3>2. LET s == wk[w].run  m == Len(tasks[s]) IN
          /\ DOMAIN tasks[s] = 1 .. m /\ wk[w].task \in 1 .. m
          /\ DOMAIN todo = 1 .. Len(todo)
          /\ \A q \in Runs : q # s => tasks'[q] = tasks[q]
          /\ DOMAIN tasks'[s] = 1 .. (m + Len(todo))
          /\ tasks'[s][wk[w].task] = row
          /\ \A t \in 1 .. m : t # wk[w].task => tasks'[s][t] = tasks[s][t]
          /\ \A i \in 1 .. Len(todo) : tasks'[s][m + i] = Fresh(todo[i], m)
      BY <2>5, <3>1, TaskStepRows
    <3> QED BY <2>4, <3>2
  <2>7. row.node = tasks[r][h].node /\ row.round = tasks[r][h].round /\ row.prio = tasks[r][h].prio
    BY <2>3, <2>4 DEF SameTask, TaskOf
  <2>8. ASSUME NEW t \in DOMAIN tasks'[r]
        PROVE  IsRequest(tasks'[r][t]) <=> tasks'[r][t].prio = 80
    <3>1. CASE t \in 1 .. n
      <4>1. /\ tasks'[r][t].node = tasks[r][t].node /\ tasks'[r][t].round = tasks[r][t].round
            /\ tasks'[r][t].prio = tasks[r][t].prio
        BY <2>6, <2>7, <3>1
      <4>2. IsRequest(tasks[r][t]) <=> tasks[r][t].prio = 80
        BY <2>6, <3>1 DEF RequestsFirst
      <4> QED BY <4>1, <4>2 DEF IsRequest
    <3>2. CASE t \notin 1 .. n
      <4>1. PICK i \in 1 .. k : n + i = t
        <5>1. n \in Nat /\ k \in Nat /\ t \in 1 .. (n + k)
          BY <2>4, <2>6
        <5>2. t - n \in 1 .. k /\ n + (t - n) = t
          BY <3>2, <5>1, Beyond
        <5> QED BY <5>2
      <4>2. tasks'[r][t] = Fresh(todo[i], n)
        BY <2>6, <4>1
      <4>3. IsRequest(todo[i]) <=> todo[i].prio = 80
        BY <2>3, <2>6 DEF RequestsIn
      <4> QED BY <4>2, <4>3 DEF Fresh, IsRequest
    <3> QED BY <3>1, <3>2
  <2>9. RequestsIn(tasks'[r])
    BY <2>8 DEF RequestsIn
  <2>10. \A q \in Runs : q # r => SameRequests(q)
    BY <2>6 DEF SameRequests
  <2> QED BY <2>9, <2>10, SameRequestsFirst
<1>5. CASE UNCHANGED tasks
  <2>1. \A q \in Runs : SameRequests(q)
    BY <1>5 DEF SameRequests
  <2> QED BY <2>1, SameRequestsFirst
<1>6. (\E r \in Runs : LeaseExpire(r) \/ Elapse(r)) => UNCHANGED tasks
  BY DEF LeaseExpire, Elapse
<1>7. (\E w \in Workers : Release(w) \/ Stops(w)) => UNCHANGED tasks
  BY DEF Release, Stops, BeginRefused, ExhaustEscapes, Crash
<1>8. \A w \in Workers : Acts(w) => UNCHANGED tasks \/ StepsTask(w)
  BY ActingRequests
<1> QED BY <1>1, <1>2, <1>3, <1>4, <1>5, <1>6, <1>7, <1>8, StepCases

LEMMA GatesInvInit ==
  ASSUME Init
  PROVE  GatesInv
<1>1. \A r \in Runs : run[r].status = "absent" /\ DOMAIN tasks[r] = {}
  BY DEF Init
<1>2. \A w \in Workers : wk[w].pc = "idle"
  BY DEF Init, IdleWorker
<1>3. RequestsFirst
  BY <1>1 DEF RequestsFirst
<1>4. ASSUME NEW r \in Runs PROVE GatesOf(r)
  <2>1. ~AtStake(r)
    BY <1>1 DEF AtStake, Claimable
  <2>2. Judged(r)
    BY <1>1, <2>1 DEF Judged, Claimable
  <2> QED BY <1>2, <2>2 DEF GatesOf, WorksOn
<1> QED BY <1>3, <1>4 DEF GatesInv

LEMMA GatesInvStep ==
  ASSUME RowsInv, RowsInv', LeaseInv, Attended, Collecting, GatesInv, [Next]_vars
  PROVE  GatesInv'
<1>1. RequestsFirst /\ RequestsFirst'
  BY RequestsFirstStep DEF GatesInv
<1>2. Calm' => \A r \in Runs : GatesOf(r)'
  <2> SUFFICES ASSUME Calm' PROVE \A r \in Runs : GatesOf(r)'
    OBVIOUS
  <2>1. Calm
    BY CalmBefore
  <2>2. \A r \in Runs : GatesOf(r)
    BY <2>1 DEF GatesInv
  <2> QED BY <1>1, <2>1, <2>2, AllGatesStep
<1> QED BY <1>1, <1>2 DEF GatesInv

(* A run that is completed has passed every gate: its latest diagnosis is
   confirmable and wants no more evidence, the critic of that round has not
   rejected it, a plan candidate was written after the critic and a review that
   did not reject it after that, and no agent failed. This holds through
   crashes, retries, takeovers and superseding runs that come back, until a live
   worker loses its lease: then two workers may complete one task, and a failed
   diagnosis may come in behind the gates. *)
THEOREM GatesHold == Spec => [](env["stall"] = 0 /\ FALSE \notin CredStart => GatesPassed)
<1>1. GatesInv => (env["stall"] = 0 /\ FALSE \notin CredStart => GatesPassed)
  <2> SUFFICES ASSUME GatesInv, Calm, NEW r \in Runs, run[r].status = "completed"
               PROVE  /\ Done(r, "diagnostic") # {} /\ Critics(r) # {}
                      /\ "confirmable" \in tasks[r][Latest(r)].out
                      /\ ~EvidenceWanted(r)
                      /\ "reject" \notin tasks[r][LastOf(Critics(r))].out
                      /\ \E p \in Done(r, "plan_candidate"), s \in Done(r, "safety_review") :
                           /\ LastOf(Critics(r)) < p /\ p < s
                           /\ "reject" \notin tasks[r][s].out
                      /\ ~AgentFailed(r)
    BY DEF GatesPassed, Calm
  <2>1. AllPassed(tasks[r])
    BY DEF GatesInv, GatesOf, Judged
  <2> QED BY <2>1, ReadsRows DEF AllPassed
<1> QED BY <1>1, RowsInvInit, RowsInvStep, CallsInvInit, CallsInvStep, LeaseInvInit, LeaseInvStep,
           AttendedInit, AttendedStep, BooksInit, CollectingStep, GatesInvInit, GatesInvStep,
           PTL DEF Spec
=============================================================================
