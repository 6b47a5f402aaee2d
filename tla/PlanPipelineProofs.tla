-------------------------- MODULE PlanPipelineProofs --------------------------
(* Proofs about PlanPipeline, for every set of requests, verifiers, keys and
   plan contents, and every bound. *)
EXTENDS PlanPipeline, SequenceTheorems, TLAPS

-----------------------------------------------------------------------------
(* Values.                                                                 *)

(* Version numbers index the sequence of versions. *)
LEMMA VersionNumbers ==
  ASSUME TypeOK
  PROVE  /\ DOMAIN versions = 1 .. Len(versions)
         /\ DOMAIN versions \subseteq Versions
         /\ \A v \in DOMAIN versions : versions[v] \in VersionRow
  BY PipelineAssumption, LenProperties, ElementOfSeq DEF TypeOK, Versions

(* A request that decides or executes names a version, one that runs a job also
   another; one that freezes holds a plan it has read. *)
LEMMA RequestTyped ==
  ASSUME NEW r \in Request
  PROVE  /\ r.doing \in {"decide", "execute", "run"} => r.version \in Versions
         /\ r.doing = "run" =>
              /\ r.active \in Versions /\ r.done \in Done
              /\ r = [doing |-> "run", version |-> r.version, active |-> r.active, done |-> r.done]
         /\ r.doing = "freeze" => r.seen \in PlanRow
  BY DEF Request, Idle

(* The actions of a content are numbered, and each is of a kind. *)
LEMMA ActionsTyped ==
  ASSUME NEW c \in Contents
  PROVE  /\ Len(Actions[c]) \in Nat /\ Len(Actions[c]) <= MaxActions /\ MaxActions \in Nat
         /\ DOMAIN Actions[c] = 1 .. Len(Actions[c])
         /\ DOMAIN Actions[c] \subseteq Indices
         /\ \A i \in 1 .. Len(Actions[c]) : Actions[c][i] \in Kinds
<1>1. Actions[c] \in Seq(Kinds) /\ Len(Actions[c]) \in 1 .. MaxActions /\ MaxActions \in Nat
  BY PipelineAssumption
<1>2. DOMAIN Actions[c] = 1 .. Len(Actions[c])
  BY <1>1, LenProperties
<1>3. \A i \in 1 .. Len(Actions[c]) : Actions[c][i] \in Kinds
  BY <1>1, ElementOfSeq
<1> QED BY <1>1, <1>2, <1>3 DEF Indices

(* A verifier at work names a verification run; once it has loaded it, it holds
   a row. *)
LEMMA VerifyingTyped ==
  ASSUME NEW r \in Verifying
  PROVE  /\ r.doing \in {"claimed", "loaded"} => r.version \in Versions /\ r.index \in Indices
         /\ r.doing = "loaded" => r.seen \in RunRow
  BY DEF Verifying, Idle

(* Whatever came of an action, its verification run is a row. *)
LEMMA RunAfterTyped ==
  ASSUME NEW kind \in Kinds, NEW outcome \in OutcomesOf(kind)
  PROVE  RunAfter(kind, outcome) \in RunRow
<1>1. CASE kind # "mutation" \/ outcome = "blocked"
  BY <1>1 DEF RunAfter, RunRow, NoRun
<1>2. CASE kind = "mutation" /\ outcome = "no_baseline"
  BY <1>2 DEF RunAfter, RunRow
<1>3. CASE kind = "mutation" /\ outcome = "failed"
  BY <1>3 DEF RunAfter, RunRow
<1>4. CASE kind = "mutation" /\ outcome \notin {"blocked", "no_baseline", "failed"}
  <2>1. outcome \in Verdict
    BY <1>4 DEF OutcomesOf, Verdicts, Verdict
  <2>2. RunAfter(kind, outcome) = [status |-> outcome, rounds |-> 1]
    BY <1>4 DEF RunAfter
  <2> QED BY <2>1, <2>2 DEF RunRow
<1> QED BY <1>1, <1>2, <1>3, <1>4

(* A verdict never sends the case outside its statuses. *)
LEMMA CaseForTyped ==
  ASSUME NEW verdict, NEW siblings
  PROVE  CaseFor(verdict, siblings) \in {"resolved", "escalated", "verifying"}
  BY DEF CaseFor

LEMMA CaseDuringTyped ==
  ASSUME NEW kinds, NEW o, NEW i
  PROVE  CaseDuring(kinds, o, i) \in {"executing", "resolved", "escalated", "verifying"}
  BY CaseForTyped DEF CaseDuring

(* A job ends as one of the statuses the rows know, and never as "none". *)
LEMMA EndsTyped ==
  ASSUME NEW content, NEW o
  PROVE  /\ Ending(content, o).plan \in {"draft", "succeeded", "failed", "rolled_back"}
         /\ Ending(content, o).case \in Status
         /\ Ending(content, o).job \in {"succeeded", "failed", "rolled_back"}
<1>1. {"planned", "executing", "resolved", "escalated", "verifying", "rolled_back"} \subseteq Status
  BY DEF Status, Allowed
<1>2. CaseDuring(Actions[content], o, Len(Actions[content])) \in Status
  BY <1>1, CaseDuringTyped
<1> QED BY <1>1, <1>2 DEF Ending, End

(* Marking open versions as superseded and appending one keeps a sequence of
   rows. *)
LEMMA FreezeTyped ==
  ASSUME TypeOK, NEW open, NEW content \in Contents, FreezeOver(open, content)
  PROVE  /\ versions' \in Seq(VersionRow)
         /\ Len(versions') = Len(versions) + 1
         /\ \A v \in DOMAIN versions :
              versions'[v] = IF v \in open THEN [versions[v] EXCEPT !.state = "superseded"]
                                           ELSE versions[v]
         /\ versions'[Len(versions) + 1] = [content |-> content, over |-> FALSE,
                                            state |-> "pending", decision |-> "none"]
<1> DEFINE older == [v \in DOMAIN versions |->
                       IF v \in open THEN [versions[v] EXCEPT !.state = "superseded"]
                                     ELSE versions[v]]
           newer == [content |-> content, over |-> FALSE, state |-> "pending", decision |-> "none"]
<1>1. DOMAIN versions = 1 .. Len(versions) /\ Len(versions) \in Nat
  BY VersionNumbers, LenProperties DEF TypeOK
<1>2. \A v \in DOMAIN versions : older[v] \in VersionRow
  BY VersionNumbers DEF VersionRow
<1>3. older \in [1 .. Len(versions) -> VersionRow]
  BY <1>1, <1>2
<1>4. older \in Seq(VersionRow)
  BY <1>1, <1>3, SeqDef
<1>5. Len(older) = Len(versions)
  BY <1>1, <1>3, <1>4, LenProperties
<1>6. newer \in VersionRow
  BY DEF VersionRow
<1>7. versions' = Append(older, newer)
  BY DEF FreezeOver
<1> HIDE DEF older, newer
<1>8. /\ versions' \in Seq(VersionRow)
      /\ Len(versions') = Len(older) + 1
      /\ \A v \in 1 .. Len(older) : versions'[v] = older[v]
      /\ versions'[Len(older) + 1] = newer
  BY <1>4, <1>6, <1>7, AppendProperties
<1> QED BY <1>1, <1>5, <1>8 DEF older, newer

-----------------------------------------------------------------------------
(* Types.                                                                  *)

(* Writing a row of a version keeps a sequence of rows. *)
LEMMA RowWritten ==
  ASSUME TypeOK, NEW v \in DOMAIN versions, NEW row \in VersionRow,
         versions' = [versions EXCEPT ![v] = row]
  PROVE  versions' \in Seq(VersionRow) /\ Len(versions') = Len(versions)
  BY VersionNumbers, ExceptSeq DEF TypeOK

(* The idle request and the requests that are made are requests. *)
LEMMA RequestsMade ==
  /\ Idle \in Request /\ Idle \in Verifying
  /\ \A v \in Versions : /\ [doing |-> "decide", version |-> v] \in Request
                         /\ [doing |-> "execute", version |-> v] \in Request
  /\ \A v, a \in Versions, d \in Done :
       [doing |-> "run", version |-> v, active |-> a, done |-> d] \in Request
  /\ \A p \in PlanRow : [doing |-> "freeze", seen |-> p] \in Request
  /\ \A v \in Versions, i \in Indices :
       [doing |-> "claimed", version |-> v, index |-> i] \in Verifying
  /\ \A v \in Versions, i \in Indices, r \in RunRow :
       [doing |-> "loaded", version |-> v, index |-> i, seen |-> r] \in Verifying
  BY DEF Idle, Request, Verifying

(* Freezing, deciding and expiring keep the types. *)
LEMMA ApprovalTyped ==
  ASSUME TypeOK, NEW u \in Users, Approval(u)
  PROVE  TypeOK'
<1>1. CASE StartFreeze(u)
  BY <1>1, RequestsMade DEF StartFreeze, Becomes, TypeOK
<1>2. CASE Freeze(u)
  <2>1. users[u].seen \in PlanRow /\ users[u].seen.content \in Contents
    BY <1>2, RequestTyped DEF Freeze, TypeOK, PlanRow
  <2>2. versions' \in Seq(VersionRow) /\ Len(versions') = Len(versions) + 1
    BY <1>2, <2>1, FreezeTyped DEF Freeze
  <2>3. Len(versions') <= MaxVersions
    BY <1>2, <2>2, PipelineAssumption, LenProperties DEF Freeze, TypeOK
  <2>4. "awaiting_approval" \in Status
    BY DEF Status, Allowed
  <2>5. plan' \in PlanRow
    BY <1>2 DEF Freeze, TypeOK, PlanRow
  <2>6. users' \in [Users -> Request]
    BY <1>2, RequestsMade DEF Freeze, Becomes, TypeOK
  <2> QED BY <1>2, <2>2, <2>3, <2>4, <2>5, <2>6 DEF Freeze, TypeOK
<1>3. CASE FreezeRefused(u) \/ DecideRefused(u)
  BY <1>3, RequestsMade DEF FreezeRefused, DecideRefused, Becomes, TypeOK
<1>4. CASE StartDecide(u)
  BY <1>4, RequestsMade DEF StartDecide, Becomes, TypeOK
<1>5. CASE Decide(u)
  <2>1. PICK v \in Versions : /\ Judged(v)
                              /\ \/ ~Usable(v) /\ CloseVersion(v)
                                 \/ Usable(v) /\ (Approve(v) \/ Reject(v))
    BY <1>5 DEF Decide
  <2>2. v \in DOMAIN versions /\ versions[v] \in VersionRow
    BY <2>1, VersionNumbers DEF Judged, IsNewest, In
  <2>3. "planning" \in Status
    BY DEF Status, Allowed
  <2>4. plan' \in PlanRow /\ case' \in Status
    BY <2>1, <2>3 DEF CloseVersion, Approve, Reject, TypeOK, PlanRow
  <2>5. PICK row \in VersionRow : versions' = [versions EXCEPT ![v] = row]
    <3>1. CASE CloseVersion(v)
      <4> DEFINE row == [versions[v] EXCEPT !.state = IF versions[v].over THEN "expired"
                                                                         ELSE "superseded"]
      <4>1. row \in VersionRow
        BY <2>2 DEF VersionRow
      <4>2. versions' = [versions EXCEPT ![v] = row]
        BY <3>1 DEF CloseVersion
      <4> QED BY <4>1, <4>2
    <3>2. CASE Approve(v) \/ Reject(v)
      <4>1. PICK d \in {"approved", "rejected"} : Decided(v, d)
        BY <3>2 DEF Approve, Reject
      <4> DEFINE row == [versions[v] EXCEPT !.state = d, !.decision = d]
      <4>2. row \in VersionRow
        BY <2>2 DEF VersionRow
      <4>3. versions' = [versions EXCEPT ![v] = row]
        BY <2>2, <4>1 DEF Decided, VersionRow
      <4> QED BY <4>2, <4>3
    <3> QED BY <2>1, <3>1, <3>2
  <2>6. versions' \in Seq(VersionRow) /\ Len(versions') = Len(versions)
    BY <2>2, <2>5, RowWritten
  <2>7. users' \in [Users -> Request]
    BY <1>5, RequestsMade DEF Decide, Becomes, TypeOK
  <2> QED BY <1>5, <2>4, <2>6, <2>7 DEF Decide, TypeOK
<1> QED BY <1>1, <1>2, <1>3, <1>4, <1>5 DEF Approval

(* A job is run of a version there is, and its actions came out as actions of
   their kind do. *)
RunsTyped ==
  \A u \in Users : Running(u) =>
    /\ users[u].active \in DOMAIN versions
    /\ Taken(u) <= Len(Steps(u)) + 1
    /\ \A i \in 1 .. Len(Steps(u)) :
         i <= Taken(u) => users[u].done[i] \in OutcomesOf(Steps(u)[i])

LEMMA RunTyped ==
  ASSUME TypeOK, RunsTyped, NEW u \in Users, Running(u)
  PROVE  /\ users[u].version \in Versions /\ users[u].active \in DOMAIN versions
         /\ users[u].active \in Versions /\ users[u].done \in Done /\ Taken(u) \in Nat
         /\ users[u] = [doing |-> "run", version |-> users[u].version,
                        active |-> users[u].active, done |-> users[u].done]
         /\ Content(u) \in Contents /\ Steps(u) = Actions[Content(u)]
<1>1. users[u] \in Request /\ users[u].doing = "run"
  BY DEF Running, TypeOK
<1>2. users[u].active \in DOMAIN versions
  BY DEF RunsTyped
<1>3. Content(u) \in Contents
  BY <1>2, VersionNumbers DEF Content, VersionRow
<1>4. users[u].done \in Done
  BY <1>1, RequestTyped
<1>5. Taken(u) \in Nat
  BY <1>4, LenProperties DEF Taken, Done
<1> QED BY <1>1, <1>2, <1>3, <1>4, <1>5, RequestTyped DEF Steps

(* What a device is told is on the record of the job's version, after the rest. *)
LEMMA TouchTyped ==
  ASSUME TypeOK, RunsTyped, NEW u \in Users, Running(u), Taken(u) <= Len(Steps(u)),
         Touch(u, Taken(u) + 1)
  PROVE  LET change == [content |-> Content(u), action |-> Taken(u) + 1] IN
         /\ change \in Change
         /\ changed' \in [Versions -> Seq(Change)]
         /\ changed'[users[u].version] = Append(changed[users[u].version], change)
         /\ \A v \in Versions \ {users[u].version} : changed'[v] = changed[v]
<1> DEFINE change == [content |-> Content(u), action |-> Taken(u) + 1]
<1>1. /\ Content(u) \in Contents /\ users[u].version \in Versions /\ Taken(u) \in Nat
      /\ Len(Steps(u)) \in Nat /\ Len(Steps(u)) <= MaxActions /\ MaxActions \in Nat
  BY RunTyped, ActionsTyped
<1>2. change \in Change
  BY <1>1 DEF Change
<1> HIDE DEF change
<1>3. changed \in [Versions -> Seq(Change)]
  BY DEF TypeOK
<1>4. Append(changed[users[u].version], change) \in Seq(Change)
  BY <1>1, <1>2, <1>3, AppendProperties
<1>5. changed' = [changed EXCEPT ![users[u].version] = Append(@, change)]
  BY DEF Touch, change
<1>6. /\ change \in Change
      /\ changed' \in [Versions -> Seq(Change)]
      /\ changed'[users[u].version] = Append(changed[users[u].version], change)
      /\ \A v \in Versions \ {users[u].version} : changed'[v] = changed[v]
  BY <1>1, <1>2, <1>3, <1>4, <1>5
<1> QED BY <1>6 DEF change

(* A run that goes on, by an action or the rollback, has one more outcome, and told
   a device nothing or this. *)
LEMMA RunGoesOn ==
  ASSUME TypeOK, RunsTyped, NEW u \in Users, Take(u) \/ RollBack(u)
  PROVE  /\ Running(u) /\ Taken(u) <= Len(Steps(u))
         /\ UNCHANGED changed \/ Touch(u, Taken(u) + 1)
         /\ UNCHANGED <<case, plan, versions, jobs, checks, verifiers, env>>
         /\ \E done \in Done :
              /\ Len(done) = Taken(u) + 1
              /\ \A i \in 1 .. Taken(u) : done[i] = users[u].done[i]
              /\ Taken(u) < Len(Steps(u)) =>
                   done[Taken(u) + 1] \in OutcomesOf(Steps(u)[Taken(u) + 1])
              /\ \/ Becomes(u, Idle)
                 \/ Becomes(u, [doing |-> "run", version |-> users[u].version,
                                active |-> users[u].active, done |-> done])
<1>1. Running(u)
  BY DEF Take, RollBack
<1>2. /\ Taken(u) \in Nat /\ users[u].done \in Done /\ Len(Steps(u)) \in Nat
      /\ \A i \in 1 .. Len(Steps(u)) : Steps(u)[i] \in Kinds
  BY <1>1, RunTyped, ActionsTyped
<1>3. Taken(u) <= Len(Steps(u)) /\ UNCHANGED <<case, plan, versions, jobs, checks, verifiers, env>>
  BY <1>2 DEF Take, RollBack
<1>4. UNCHANGED changed \/ Touch(u, Taken(u) + 1)
  BY <1>2 DEF Take, RollBack
<1>5. PICK outcome \in Outcome \cup {"undone", "not_undone"} :
        /\ Taken(u) < Len(Steps(u)) => outcome \in OutcomesOf(Steps(u)[Taken(u) + 1])
        /\ \/ Becomes(u, Idle)
           \/ Becomes(u, [users[u] EXCEPT !.done = Append(users[u].done, outcome)])
  <2>1. CASE Take(u)
    <3>1. PICK outcome \in OutcomesOf(Steps(u)[Taken(u) + 1]) :
            \/ Becomes(u, Idle)
            \/ Becomes(u, [users[u] EXCEPT !.done = Append(users[u].done, outcome)])
      BY <2>1 DEF Take
    <3>2. Steps(u)[Taken(u) + 1] \in Kinds
      BY <1>2, <2>1 DEF Take
    <3>3. outcome \in Outcome
      BY <3>2 DEF OutcomesOf, Verdicts, Outcome, Verdict, Kinds
    <3> QED BY <3>1, <3>3
  <2>2. CASE RollBack(u)
    <3>1. PICK outcome \in {"undone", "not_undone"} :
            Becomes(u, [users[u] EXCEPT !.done = Append(users[u].done, outcome)])
      BY <2>2 DEF RollBack
    <3>2. ~(Taken(u) < Len(Steps(u)))
      BY <1>2, <2>2 DEF RollBack
    <3> QED BY <3>1, <3>2
  <2> QED BY <2>1, <2>2
<1> DEFINE done == Append(users[u].done, outcome)
<1>6. /\ done \in Done
      /\ Len(done) = Taken(u) + 1
      /\ \A i \in 1 .. Taken(u) : done[i] = users[u].done[i]
      /\ done[Taken(u) + 1] = outcome
  BY <1>2, AppendProperties DEF Done, Taken
<1>7. [users[u] EXCEPT !.done = done] = [doing |-> "run", version |-> users[u].version,
                                         active |-> users[u].active, done |-> done]
  <2>1. users[u] = [doing |-> "run", version |-> users[u].version,
                    active |-> users[u].active, done |-> users[u].done]
    BY <1>1, RunTyped
  <2> HIDE DEF done
  <2> QED BY <2>1
<1> HIDE DEF done
<1>8. \/ Becomes(u, Idle)
      \/ Becomes(u, [users[u] EXCEPT !.done = done])
  BY <1>5 DEF done
<1> QED BY <1>1, <1>3, <1>4, <1>5, <1>6, <1>7, <1>8

(* What a job that is through has for each action. *)
LEMMA RunIsThrough ==
  ASSUME TypeOK, RunsTyped, NEW u \in Users, Through(u)
  PROVE  /\ Running(u)
         /\ \A i \in 1 .. Len(Steps(u)) : users[u].done[i] \in OutcomesOf(Steps(u)[i])
         /\ ~Rolls(Content(u), users[u].done) => Len(users[u].done) = Len(Steps(u))
<1>1. Running(u)
  BY DEF Through
<1>2. Taken(u) \in Nat /\ Len(Steps(u)) \in Nat
  BY <1>1, RunTyped, ActionsTyped
<1>3. Len(Steps(u)) <= Taken(u) /\ (~Rolls(Content(u), users[u].done) => Taken(u) = Len(Steps(u)))
  BY <1>2 DEF Through
<1>4. \A i \in 1 .. Len(Steps(u)) : users[u].done[i] \in OutcomesOf(Steps(u)[i])
  BY <1>1, <1>2, <1>3 DEF RunsTyped
<1> QED BY <1>1, <1>3, <1>4 DEF Taken

(* Accepting, running and abandoning a job keep the types. *)
LEMMA ExecutionTyped ==
  ASSUME TypeOK, RunsTyped, NEW u \in Users, Execution(u)
  PROVE  TypeOK'
<1>b. users[u].doing = "execute" => users[u].version \in Versions
  BY RequestTyped DEF TypeOK
<1>c. Becomes(u, Idle) => users' \in [Users -> Request]
  BY RequestsMade DEF Becomes, TypeOK
<1>1. CASE \E key \in Keys : Accept(u, key)
  <2>1. PICK key \in Keys : Accept(u, key)
    BY <1>1
  <2>2. PICK v \in Versions : /\ jobs' = [jobs EXCEPT ![v] = [status |-> "running", key |-> key]]
                              /\ Becomes(u, [doing |-> "execute", version |-> v])
    BY <2>1 DEF Accept
  <2>3. jobs' \in [Versions -> JobRow]
    BY <2>2 DEF TypeOK, JobRow
  <2>4. users' \in [Users -> Request]
    BY <2>2, RequestsMade DEF Becomes, TypeOK
  <2> QED BY <2>1, <2>3, <2>4 DEF Accept, TypeOK
<1>2. CASE RecheckFails(u)
  <2>1. jobs' \in [Versions -> JobRow]
    BY <1>2, <1>b DEF RecheckFails, Finished, TypeOK, JobRow
  <2> QED BY <1>2, <1>c, <2>1 DEF RecheckFails, TypeOK
<1>3. CASE StartRun(u)
  <2>1. <<>> \in Done
    BY EmptySeq DEF Done
  <2>2. PICK active \in Versions :
          Becomes(u, [doing |-> "run", version |-> users[u].version, active |-> active, done |-> <<>>])
    BY <1>3 DEF StartRun
  <2>3. users[u].version \in Versions
    BY <1>3, <1>b DEF StartRun
  <2>4. users' \in [Users -> Request]
    BY <2>1, <2>2, <2>3, RequestsMade DEF Becomes, TypeOK
  <2> QED BY <1>3, <2>4 DEF StartRun, TypeOK
<1>4. CASE Take(u) \/ RollBack(u)
  <2>0. Running(u) /\ users[u].version \in Versions /\ users[u].active \in Versions
    BY <1>4, RunGoesOn, RunTyped
  <2>1. users' \in [Users -> Request]
    <3>1. PICK done \in Done :
            \/ Becomes(u, Idle)
            \/ Becomes(u, [doing |-> "run", version |-> users[u].version,
                           active |-> users[u].active, done |-> done])
      BY <1>4, RunGoesOn
    <3>2. [doing |-> "run", version |-> users[u].version, active |-> users[u].active,
           done |-> done] \in Request
      BY <2>0, RequestsMade
    <3> QED BY <1>c, <3>1, <3>2 DEF Becomes, TypeOK
  <2>2. changed' \in [Versions -> Seq(Change)]
    BY <1>4, RunGoesOn, TouchTyped DEF TypeOK
  <2> QED BY <1>4, <2>1, <2>2, RunGoesOn DEF TypeOK
<1>5. CASE Commit(u)
  <2> DEFINE row(i) == IF i <= Len(Steps(u)) THEN RunAfter(Steps(u)[i], users[u].done[i]) ELSE NoRun
             end    == Ending(Content(u), users[u].done)
  <2>1. Through(u) /\ Running(u)
    BY <1>5 DEF Commit, Through
  <2>2. users[u].version \in Versions
    BY <2>1, RunTyped
  <2>3. \A i \in Indices : row(i) \in RunRow
    <3>1. \A i \in 1 .. Len(Steps(u)) : RunAfter(Steps(u)[i], users[u].done[i]) \in RunRow
      BY <2>1, RunTyped, ActionsTyped, RunIsThrough, RunAfterTyped
    <3>2. NoRun \in RunRow
      BY DEF NoRun, RunRow
    <3>3. \A i \in Indices : i <= Len(Steps(u)) => i \in 1 .. Len(Steps(u))
      BY <2>1, RunTyped, ActionsTyped DEF Indices
    <3> QED BY <3>1, <3>2, <3>3
  <2>4. checks' = [checks EXCEPT ![users[u].version] = [i \in Indices |-> row(i)]]
    BY <1>5 DEF Commit
  <2>5. case' = end.case /\ plan' = [plan EXCEPT !.status = end.plan]
        /\ Finished(users[u].version, end.job)
    BY <1>5 DEF Commit
  <2> HIDE DEF row, end
  <2>6. checks' \in [Versions -> [Indices -> RunRow]]
    BY <2>2, <2>3, <2>4 DEF TypeOK
  <2>7. case' \in Status /\ plan' \in PlanRow /\ jobs' \in [Versions -> JobRow]
    <3>1. /\ end.plan \in {"draft", "succeeded", "failed", "rolled_back"}
          /\ end.case \in Status
          /\ end.job \in {"succeeded", "failed", "rolled_back"}
      BY EndsTyped DEF end
    <3>2. jobs' \in [Versions -> JobRow]
      BY <2>2, <2>5, <3>1 DEF Finished, TypeOK, JobRow
    <3>3. plan' \in PlanRow
      BY <2>5, <3>1 DEF TypeOK, PlanRow
    <3> QED BY <2>5, <3>1, <3>2, <3>3
  <2> QED BY <1>5, <1>c, <2>6, <2>7 DEF Commit, TypeOK
<1>6. CASE StartRaises(u) \/ CommitRaises(u) \/ CrashRequest(u)
  <2>1. env' \in [EnvKinds -> Nat]
    BY <1>6 DEF StartRaises, CommitRaises, CrashRequest, Happens, TypeOK, EnvKinds
  <2> QED BY <1>6, <1>c, <2>1 DEF StartRaises, CommitRaises, CrashRequest, TypeOK
<1> QED BY <1>1, <1>2, <1>3, <1>4, <1>5, <1>6 DEF Execution

(* Claiming, loading and evaluating keep the types. *)
LEMMA VerificationTyped ==
  ASSUME TypeOK, NEW w \in Verifiers, Verification(w)
  PROVE  TypeOK'
<1>a. Sees(w, Idle) => verifiers' \in [Verifiers -> Verifying]
  BY RequestsMade DEF Sees, TypeOK
<1>b. verifiers[w].doing \in {"claimed", "loaded"} =>
        verifiers[w].version \in Versions /\ verifiers[w].index \in Indices
  BY VerifyingTyped DEF TypeOK
<1>c. \A kind \in EnvKinds : Happens(kind) => env' \in [EnvKinds -> Nat]
  BY DEF Happens, TypeOK
<1>1. ASSUME NEW v \in Versions, NEW i \in Indices, Claim(w, v, i)
      PROVE  TypeOK'
  <2> DEFINE row == [checks[v][i] EXCEPT !.status = "checking"]
  <2>a. row \in RunRow
    <3>1. checks[v][i] \in RunRow
      BY DEF TypeOK
    <3> QED BY <3>1 DEF RunRow
  <2>b. checks' = [checks EXCEPT ![v] = [checks[v] EXCEPT ![i] = row]]
    BY <1>1 DEF Claim
  <2> HIDE DEF row
  <2>1. checks' \in [Versions -> [Indices -> RunRow]]
    BY <2>a, <2>b DEF TypeOK
  <2>2. verifiers' \in [Verifiers -> Verifying]
    BY <1>1, RequestsMade DEF Claim, Sees, TypeOK
  <2>3. env' \in [EnvKinds -> Nat]
    BY <1>1, <1>c DEF Claim, Due, TypeOK, EnvKinds
  <2> QED BY <1>1, <2>1, <2>2, <2>3 DEF Claim, TypeOK
<1>2. ASSUME NEW v \in Versions, NEW i \in Indices, Recheck(w, v, i)
      PROVE  TypeOK'
  <2>1. checks[v][i] \in RunRow
    BY DEF TypeOK
  <2>2. verifiers' \in [Verifiers -> Verifying]
    BY <1>2, <2>1, RequestsMade DEF Recheck, Sees, Loaded, TypeOK
  <2>3. env' \in [EnvKinds -> Nat]
    BY <1>2, <1>c DEF Recheck, EnvKinds
  <2> QED BY <1>2, <2>2, <2>3 DEF Recheck, TypeOK
<1>3. CASE Load(w)
  <2>1. checks[verifiers[w].version][verifiers[w].index] \in RunRow
    BY <1>3, <1>b DEF Load, TypeOK
  <2>2. verifiers' \in [Verifiers -> Verifying]
    BY <1>3, <1>b, <2>1, RequestsMade DEF Load, Sees, Loaded, TypeOK
  <2> QED BY <1>3, <2>2 DEF Load, TypeOK
<1>4. CASE Evaluate(w)
  <2> DEFINE v == verifiers[w].version
             i == verifiers[w].index
             seen == verifiers[w].seen
  <2>1. v \in Versions /\ i \in Indices /\ seen \in RunRow
    BY <1>4, VerifyingTyped DEF Evaluate, TypeOK
  <2>2. PICK verdict \in Verdicts(seen.rounds + 1) :
          /\ case' = CaseFor(verdict, Siblings(v, i))
          /\ checks' = [checks EXCEPT ![v][i] =
               [status |-> IF verdict = seen.status THEN @.status ELSE verdict,
                rounds |-> seen.rounds + 1]]
    BY <1>4 DEF Evaluate
  <2>3. verdict \in Verdict /\ seen.rounds + 1 \in Nat
    BY <2>1 DEF Verdicts, Verdict, RunRow
  <2>4. case' \in Status
    BY <2>2, CaseForTyped DEF Status, Allowed
  <2> DEFINE row == [status |-> IF verdict = seen.status THEN checks[v][i].status ELSE verdict,
                     rounds |-> seen.rounds + 1]
  <2>5. row \in RunRow
    BY <2>1, <2>3 DEF TypeOK, RunRow
  <2>6. checks' = [checks EXCEPT ![v] = [checks[v] EXCEPT ![i] = row]]
    BY <2>1, <2>2 DEF TypeOK
  <2> HIDE DEF row
  <2>7. checks' \in [Versions -> [Indices -> RunRow]]
    BY <2>1, <2>5, <2>6 DEF TypeOK
  <2> QED BY <1>4, <1>a, <2>4, <2>7 DEF Evaluate, TypeOK
<1>5. CASE EvaluateInVain(w) \/ CrashVerifier(w)
  <2>1. env' \in [EnvKinds -> Nat]
    BY <1>5, <1>c DEF EvaluateInVain, CrashVerifier, TypeOK, EnvKinds
  <2> QED BY <1>5, <1>a, <2>1 DEF EvaluateInVain, CrashVerifier, TypeOK
<1> QED BY <1>1, <1>2, <1>3, <1>4, <1>5 DEF Verification

(* An expiry and the graph keep the types. *)
LEMMA OthersTyped ==
  ASSUME TypeOK, (\E v \in Versions : Expire(v)) \/ GraphWritesPlan \/ GraphMovesCase
  PROVE  TypeOK'
<1>1. ASSUME NEW v \in Versions, Expire(v)
      PROVE  TypeOK'
  <2>1. v \in DOMAIN versions /\ versions[v] \in VersionRow
    BY <1>1, VersionNumbers DEF Expire, In
  <2> DEFINE row == [versions[v] EXCEPT !.over = TRUE]
  <2>2. row \in VersionRow
    BY <2>1 DEF VersionRow
  <2>3. versions' = [versions EXCEPT ![v] = row]
    BY <1>1 DEF Expire
  <2>4. versions' \in Seq(VersionRow) /\ Len(versions') = Len(versions)
    BY <2>1, <2>2, <2>3, RowWritten
  <2> QED BY <1>1, <2>4 DEF Expire, TypeOK
<1>2. CASE GraphWritesPlan
  <2>1. plan' \in PlanRow
    BY <1>2 DEF GraphWritesPlan, TypeOK, PlanRow
  <2>2. env' \in [EnvKinds -> Nat]
    BY <1>2 DEF GraphWritesPlan, Happens, TypeOK, EnvKinds
  <2> QED BY <1>2, <2>1, <2>2 DEF GraphWritesPlan, TypeOK
<1>3. CASE GraphMovesCase
  <2>1. case' \in Status
    BY <1>3 DEF GraphMovesCase, Status, Allowed
  <2>2. env' \in [EnvKinds -> Nat]
    BY <1>3 DEF GraphMovesCase, Happens, TypeOK, EnvKinds
  <2> QED BY <1>3, <2>1, <2>2 DEF GraphMovesCase, TypeOK
<1> QED BY <1>1, <1>2, <1>3

LEMMA InitTyped == Init => TypeOK
<1> SUFFICES ASSUME Init PROVE TypeOK
  OBVIOUS
<1>1. case \in Status /\ plan \in PlanRow
  BY PipelineAssumption DEF Init, PlanRow
<1>2. versions \in Seq(VersionRow) /\ Len(versions) <= MaxVersions
  BY PipelineAssumption, EmptySeq DEF Init
<1>3. jobs \in [Versions -> JobRow] /\ checks \in [Versions -> [Indices -> RunRow]]
  BY DEF Init, JobRow, RunRow, NoRun
<1>4. users \in [Users -> Request] /\ verifiers \in [Verifiers -> Verifying]
  BY RequestsMade DEF Init
<1>5. changed \in [Versions -> Seq(Change)] /\ env \in [EnvKinds -> Nat]
  BY EmptySeq DEF Init
<1> QED BY <1>1, <1>2, <1>3, <1>4, <1>5 DEF TypeOK

(* The state of a version agrees with the decision on record. *)
StatesDecided ==
  \A v \in DOMAIN versions :
    /\ versions[v].state = "approved" => versions[v].decision = "approved"
    /\ versions[v].state = "pending" => versions[v].decision = "none"

(* What never changes of the versions there are: the content, and an approval. *)
ApprovalsKept ==
  /\ DOMAIN versions \subseteq DOMAIN versions'
  /\ \A v \in DOMAIN versions :
       /\ versions'[v].content = versions[v].content
       /\ versions[v].decision = "approved" => versions'[v].decision = "approved"

(* Every step keeps them, and the states agree with the decisions after it. *)
LEMMA StepKeepsApprovals ==
  ASSUME TypeOK, StatesDecided, [Next]_vars
  PROVE  ApprovalsKept /\ StatesDecided'
<1>0. TypeOK /\ StatesDecided
  OBVIOUS
<1>1. CASE UNCHANGED versions
  BY <1>0, <1>1 DEF ApprovalsKept, StatesDecided
<1>2. ASSUME NEW u \in Users, Freeze(u)
      PROVE  ApprovalsKept /\ StatesDecided'
  <2>1. users[u].seen.content \in Contents
    BY <1>0, <1>2, RequestTyped DEF Freeze, TypeOK, PlanRow
  <2>2. FreezeOver(In({"pending", "approved"}), users[u].seen.content)
    BY <1>2 DEF Freeze
  <2>3. /\ versions' \in Seq(VersionRow)
        /\ Len(versions') = Len(versions) + 1
        /\ \A v \in DOMAIN versions :
             versions'[v] = IF v \in In({"pending", "approved"})
                              THEN [versions[v] EXCEPT !.state = "superseded"] ELSE versions[v]
        /\ versions'[Len(versions) + 1] = [content |-> users[u].seen.content, over |-> FALSE,
                                           state |-> "pending", decision |-> "none"]
    <3> DEFINE open    == In({"pending", "approved"})
               content == users[u].seen.content
    <3>1. TypeOK /\ content \in Contents /\ FreezeOver(open, content)
      BY <1>0, <2>1, <2>2
    <3> HIDE DEF open, content
    <3>2. /\ versions' \in Seq(VersionRow)
          /\ Len(versions') = Len(versions) + 1
          /\ \A v \in DOMAIN versions :
               versions'[v] = IF v \in open THEN [versions[v] EXCEPT !.state = "superseded"]
                                            ELSE versions[v]
          /\ versions'[Len(versions) + 1] = [content |-> content, over |-> FALSE,
                                             state |-> "pending", decision |-> "none"]
      BY ONLY <3>1, FreezeTyped
    <3> QED BY <3>2 DEF open, content
  <2> DEFINE n == Len(versions)
  <2>4. DOMAIN versions = 1 .. n /\ DOMAIN versions' = 1 .. n + 1 /\ n \in Nat
    BY <1>0, <2>3, LenProperties DEF TypeOK
  <2>5. \A v \in DOMAIN versions : versions[v] \in VersionRow
    BY <1>0, VersionNumbers
  <2>6. ApprovalsKept
    <3>1. \A v \in DOMAIN versions :
            /\ [versions[v] EXCEPT !.state = "superseded"].content = versions[v].content
            /\ [versions[v] EXCEPT !.state = "superseded"].decision = versions[v].decision
      BY <2>5 DEF VersionRow
    <3>2. \A v \in DOMAIN versions : /\ versions'[v].content = versions[v].content
                                     /\ versions'[v].decision = versions[v].decision
      BY <2>3, <3>1
    <3>3. DOMAIN versions \subseteq DOMAIN versions'
      BY <2>4
    <3> QED BY <3>2, <3>3 DEF ApprovalsKept
  <2>7. ASSUME NEW v \in DOMAIN versions'
        PROVE  /\ versions'[v].state = "approved" => versions'[v].decision = "approved"
               /\ versions'[v].state = "pending" => versions'[v].decision = "none"
    <3>1. CASE v = n + 1
      BY <2>3, <3>1
    <3>2. CASE v \in DOMAIN versions
      BY <1>0, <2>3, <2>5, <3>2 DEF StatesDecided, VersionRow
    <3> QED BY <2>4, <3>1, <3>2
  <2> QED BY <2>6, <2>7 DEF StatesDecided
<1>3. ASSUME NEW u \in Users, Decide(u)
      PROVE  ApprovalsKept /\ StatesDecided'
  <2>1. PICK v \in Versions : /\ Judged(v)
                              /\ CloseVersion(v) \/ Approve(v) \/ Reject(v)
    BY <1>3 DEF Decide
  <2>2. v \in DOMAIN versions /\ versions[v] \in VersionRow /\ versions[v].decision = "none"
    BY <1>0, <2>1, VersionNumbers DEF Judged, IsNewest, In, StatesDecided
  <2>3. CASE CloseVersion(v)
    <3> DEFINE row == [versions[v] EXCEPT !.state = IF versions[v].over THEN "expired"
                                                                       ELSE "superseded"]
    <3>1. row.content = versions[v].content /\ row.state \in {"expired", "superseded"}
      BY <2>2 DEF VersionRow
    <3>2. versions' = [versions EXCEPT ![v] = row]
      BY <2>3 DEF CloseVersion
    <3> HIDE DEF row
    <3> QED BY <1>0, <2>2, <3>1, <3>2 DEF ApprovalsKept, StatesDecided
  <2>4. CASE Approve(v) \/ Reject(v)
    <3>1. PICK d \in {"approved", "rejected"} : Decided(v, d)
      BY <2>4 DEF Approve, Reject
    <3> DEFINE row == [versions[v] EXCEPT !.state = d, !.decision = d]
    <3>2. row.content = versions[v].content /\ row.state = d /\ row.decision = d
      BY <2>2 DEF VersionRow
    <3>3. versions' = [versions EXCEPT ![v] = row]
      BY <2>2, <3>1 DEF Decided, VersionRow
    <3> HIDE DEF row
    <3> QED BY <1>0, <2>2, <3>2, <3>3 DEF ApprovalsKept, StatesDecided
  <2> QED BY <2>1, <2>3, <2>4
<1>4. ASSUME NEW v \in Versions, Expire(v)
      PROVE  ApprovalsKept /\ StatesDecided'
  <2>1. v \in DOMAIN versions /\ versions[v] \in VersionRow
    BY <1>0, <1>4, VersionNumbers DEF Expire, In
  <2> DEFINE row == [versions[v] EXCEPT !.over = TRUE]
  <2>2. /\ row.content = versions[v].content
        /\ row.state = versions[v].state
        /\ row.decision = versions[v].decision
    BY <2>1 DEF VersionRow
  <2>3. versions' = [versions EXCEPT ![v] = row]
    BY <1>4 DEF Expire
  <2> HIDE DEF row
  <2> QED BY <1>0, <2>1, <2>2, <2>3 DEF ApprovalsKept, StatesDecided
<1>5. ASSUME NEW u \in Users, Approval(u)
      PROVE  UNCHANGED versions \/ Freeze(u) \/ Decide(u)
  BY <1>5 DEF Approval, StartFreeze, FreezeRefused, StartDecide, DecideRefused
<1>6. ASSUME NEW u \in Users, Execution(u)
      PROVE  UNCHANGED versions
  BY <1>6 DEF Execution, Accept, RecheckFails, StartRun, StartRaises, Take, RollBack, Commit,
              CommitRaises, CrashRequest
<1>7. ASSUME NEW w \in Verifiers, Verification(w)
      PROVE  UNCHANGED versions
  BY <1>7 DEF Verification, Claim, Recheck, Load, Evaluate, EvaluateInVain, CrashVerifier
<1>8. GraphWritesPlan \/ GraphMovesCase \/ UNCHANGED vars => UNCHANGED versions
  BY DEF GraphWritesPlan, GraphMovesCase, vars
<1> QED BY <1>1, <1>2, <1>3, <1>4, <1>5, <1>6, <1>7, <1>8 DEF Next

(* What a step does to a request that is to run a job after it. *)
LEMMA StepOfRun ==
  ASSUME TypeOK, [Next]_vars, NEW u \in Users, users'[u].doing = "run"
  PROVE  StartRun(u) \/ Take(u) \/ RollBack(u) \/ users'[u] = users[u]
<1>1. users \in [Users -> Request]
  BY DEF TypeOK
<1>2. ASSUME NEW x \in Users, Approval(x) \/ Execution(x), x # u
      PROVE  users'[u] = users[u]
  BY <1>1, <1>2 DEF Approval, StartFreeze, Freeze, FreezeRefused, StartDecide, Decide, DecideRefused,
              Execution, Accept, RecheckFails, StartRun, StartRaises, Take, RollBack, Commit,
              CommitRaises, CrashRequest, Becomes
<1>3. ASSUME Approval(u)
      PROVE  FALSE
  BY <1>1, <1>3 DEF Approval, StartFreeze, Freeze, FreezeRefused, StartDecide, Decide, DecideRefused,
              Becomes, Idle
<1>4. ASSUME Execution(u)
      PROVE  StartRun(u) \/ Take(u) \/ RollBack(u)
  BY <1>1, <1>4 DEF Execution, Accept, RecheckFails, StartRaises, Commit, CommitRaises,
              CrashRequest, Becomes, Idle
<1>5. ASSUME NEW w \in Verifiers, Verification(w)
      PROVE  UNCHANGED users
  BY <1>5 DEF Verification, Claim, Recheck, Load, Evaluate, EvaluateInVain, CrashVerifier
<1>6. (\E v \in Versions : Expire(v)) \/ GraphWritesPlan \/ GraphMovesCase \/ UNCHANGED vars
        => UNCHANGED users
  BY DEF Expire, GraphWritesPlan, GraphMovesCase, vars
<1> QED BY <1>2, <1>3, <1>4, <1>5, <1>6 DEF Next

TypedInv == TypeOK /\ StatesDecided /\ RunsTyped

LEMMA RunsTypedKept ==
  ASSUME TypedInv, [Next]_vars
  PROVE  RunsTyped'
<1>1. ApprovalsKept
  BY StepKeepsApprovals DEF TypedInv
<1> SUFFICES ASSUME NEW u \in Users, users'[u].doing = "run"
             PROVE  LET r     == users'[u]
                        steps == Actions[versions'[r.active].content] IN
                    /\ r.active \in DOMAIN versions'
                    /\ Len(r.done) <= Len(steps) + 1
                    /\ \A i \in 1 .. Len(steps) : i <= Len(r.done) => r.done[i] \in OutcomesOf(steps[i])
  BY DEF RunsTyped, Running, Taken, Steps, Content
<1>2. users \in [Users -> Request]
  BY DEF TypedInv, TypeOK
<1>3. CASE users'[u] = users[u]
  <2>1. Running(u)
    BY <1>3 DEF Running
  <2>2. users[u].active \in DOMAIN versions /\ users[u].active \in DOMAIN versions'
    BY <1>1, <2>1 DEF TypedInv, RunsTyped, ApprovalsKept
  <2>3. Actions[versions'[users[u].active].content] = Steps(u)
    BY <1>1, <2>2 DEF ApprovalsKept, Steps, Content
  <2> QED BY <1>3, <2>1, <2>2, <2>3 DEF TypedInv, RunsTyped, Taken
<1>4. CASE StartRun(u)
  <2>1. PICK active \in Versions : /\ Rechecked(u, active)
                                   /\ users'[u].active = active /\ users'[u].done = <<>>
    BY <1>2, <1>4 DEF StartRun, Becomes
  <2>2. active \in DOMAIN versions /\ UNCHANGED versions
    BY <1>4, <2>1 DEF Rechecked, Active, IsNewest, In, StartRun
  <2>3. versions[active].content \in Contents
    BY <2>2, VersionNumbers DEF TypedInv, VersionRow
  <2>4. Len(Actions[versions[active].content]) \in Nat
    BY <2>3, ActionsTyped
  <2>5. Len(users'[u].done) = 0
    BY <2>1
  <2> QED BY <2>1, <2>2, <2>4, <2>5
<1>5. CASE Take(u) \/ RollBack(u)
  <2>1. /\ TypeOK /\ RunsTyped /\ Running(u)
        /\ Taken(u) \in Nat /\ Taken(u) <= Len(Steps(u)) /\ Len(Steps(u)) \in Nat
        /\ users[u].active \in DOMAIN versions /\ UNCHANGED versions
    BY <1>5, RunGoesOn, RunTyped, ActionsTyped DEF TypedInv
  <2>2. PICK done \in Done :
          /\ Len(done) = Taken(u) + 1
          /\ \A i \in 1 .. Taken(u) : done[i] = users[u].done[i]
          /\ Taken(u) < Len(Steps(u)) => done[Taken(u) + 1] \in OutcomesOf(Steps(u)[Taken(u) + 1])
          /\ \/ Becomes(u, Idle)
             \/ Becomes(u, [doing |-> "run", version |-> users[u].version,
                            active |-> users[u].active, done |-> done])
    BY <1>5, <2>1, RunGoesOn
  <2>3. users'[u].active = users[u].active /\ users'[u].done = done
    BY <1>2, <2>2 DEF Becomes, Idle
  <2>4. \A i \in 1 .. Len(Steps(u)) : i <= Taken(u) => users[u].done[i] \in OutcomesOf(Steps(u)[i])
    BY <2>1 DEF RunsTyped
  <2>5. \A i \in 1 .. Len(Steps(u)) : i <= Len(done) => done[i] \in OutcomesOf(Steps(u)[i])
    BY <2>1, <2>2, <2>4
  <2>6. Actions[versions'[users[u].active].content] = Steps(u)
    BY <2>1 DEF Steps, Content
  <2> QED BY <2>1, <2>2, <2>3, <2>5, <2>6
<1> QED BY <1>3, <1>4, <1>5, StepOfRun DEF TypedInv

LEMMA TypedInit == Init => TypedInv
  BY InitTyped DEF Init, TypedInv, StatesDecided, RunsTyped, Running, Idle

LEMMA TypedNext == TypedInv /\ [Next]_vars => TypedInv'
<1> SUFFICES ASSUME TypedInv, [Next]_vars PROVE TypedInv'
  OBVIOUS
<1>1. TypeOK'
  <2>1. CASE UNCHANGED vars
    BY <2>1 DEF vars, TypeOK, TypedInv
  <2> QED BY <2>1, ApprovalTyped, ExecutionTyped, VerificationTyped, OthersTyped DEF Next, TypedInv
<1> QED BY <1>1, StepKeepsApprovals, RunsTypedKept DEF TypedInv

(* Every row, request and record keeps its type, whatever is refused, rolled
   back, raced or lost. *)
THEOREM PipelineTypeCorrect == Spec => []TypeOK
  BY TypedInit, TypedNext, PTL DEF Spec, TypedInv

-----------------------------------------------------------------------------
(* Changes are paid for by approvals.                                      *)

(* A job exists only for an approved version, and a key belongs to one job. *)
JobsApproved ==
  \A v \in Versions : jobs[v].status # "none" =>
    /\ v \in DOMAIN versions
    /\ versions[v].decision = "approved"
    /\ \A w \in Versions : jobs[w].status # "none" /\ jobs[w].key = jobs[v].key => w = v

(* What a job told devices are actions of its version's content, in order. *)
ChangesOfJobs ==
  \A v \in Versions : changed[v] # <<>> =>
    /\ jobs[v].status # "none"
    /\ \A n \in DOMAIN changed[v] :
         /\ changed[v][n].content = versions[v].content
         /\ \A m \in 1 .. n - 1 : changed[v][m].action < changed[v][n].action

(* A request at work on a job is the only one, and has done nothing before the job
   runs. *)
AtWork(request) == request.doing \in {"execute", "run"}

RunningOnce ==
  \A u \in Users : AtWork(users[u]) =>
    LET v == users[u].version IN
      /\ jobs[v].status # "none"
      /\ users[u].doing = "execute" => changed[v] = <<>>
      /\ \A x \in Users : AtWork(users[x]) /\ users[x].version = v => x = u

(* One job is run at a time, of a case that may be executed.  The version it was
   checked against is approved, and says what the plan and the job's own version
   say; devices were told no more than the actions taken. *)
RunsCovered ==
  \A u \in Users : Running(u) =>
    /\ \A x \in Users : Running(x) => x = u
    /\ CanMove(case, "executing")
    /\ versions[users[u].active].state = "approved"
    /\ Content(u) = plan.content
    /\ Content(u) = versions[users[u].version].content
    /\ \A n \in DOMAIN changed[users[u].version] : changed[users[u].version][n].action <= Taken(u)

PaidInv == TypedInv /\ JobsApproved /\ ChangesOfJobs /\ RunningOnce /\ RunsCovered

(* Where no job, change or request at work is new, the rest follows. *)
LEMMA PaidKept ==
  ASSUME PaidInv, ApprovalsKept,
         \A v \in Versions : /\ (jobs'[v].status = "none") <=> (jobs[v].status = "none")
                             /\ jobs'[v].key = jobs[v].key,
         changed' = changed,
         \A u \in Users : AtWork(users'[u]) =>
           /\ AtWork(users[u]) /\ users'[u].version = users[u].version
           /\ users'[u].doing = "execute" => users[u].doing = "execute"
  PROVE  JobsApproved' /\ ChangesOfJobs' /\ RunningOnce'
<1>1. JobsApproved'
  BY DEF PaidInv, JobsApproved, ApprovalsKept
<1>2. ChangesOfJobs'
  BY DEF PaidInv, JobsApproved, ChangesOfJobs, ApprovalsKept
<1>3. RunningOnce'
  <2> SUFFICES ASSUME NEW u \in Users, AtWork(users'[u])
               PROVE  /\ jobs'[users'[u].version].status # "none"
                      /\ users'[u].doing = "execute" => changed'[users'[u].version] = <<>>
                      /\ \A x \in Users : AtWork(users'[x])
                           /\ users'[x].version = users'[u].version => x = u
    BY DEF RunningOnce
  <2>1. AtWork(users[u]) /\ users'[u].version = users[u].version /\ users[u].version \in Versions
    BY RequestTyped DEF PaidInv, TypedInv, TypeOK, AtWork
  <2> QED BY <2>1 DEF PaidInv, RunningOnce
<1> QED BY <1>1, <1>2, <1>3

(* A job that is run tells devices one thing more. *)
LEMMA PaidOnTouch ==
  ASSUME PaidInv, NEW u \in Users, Running(u), Taken(u) <= Len(Steps(u)),
         Touch(u, Taken(u) + 1), UNCHANGED <<versions, jobs>>,
         \A x \in Users \ {u} : users'[x] = users[x],
         AtWork(users'[u]) => users'[u].doing = "run" /\ users'[u].version = users[u].version
  PROVE  JobsApproved' /\ ChangesOfJobs' /\ RunningOnce'
<1> DEFINE v == users[u].version
           change == [content |-> Content(u), action |-> Taken(u) + 1]
<1>1. /\ v \in Versions /\ AtWork(users[u]) /\ jobs[v].status # "none" /\ Taken(u) \in Nat
      /\ change.content = versions[v].content
      /\ \A n \in DOMAIN changed[v] : changed[v][n].action <= Taken(u)
  BY RunTyped DEF PaidInv, TypedInv, RunningOnce, RunsCovered, Running, AtWork
<1>2. /\ changed'[v] = Append(changed[v], change)
      /\ \A x \in Versions \ {v} : changed'[x] = changed[x]
      /\ changed[v] \in Seq(Change) /\ change \in Change
  BY <1>1, TouchTyped DEF PaidInv, TypedInv, TypeOK
<1>3. change.action = Taken(u) + 1
  OBVIOUS
<1> HIDE DEF change
<1>4. JobsApproved'
  BY DEF PaidInv, JobsApproved
<1>5. ASSUME NEW n \in DOMAIN changed'[v]
      PROVE  /\ changed'[v][n].content = versions[v].content
             /\ \A m \in 1 .. n - 1 : changed'[v][m].action < changed'[v][n].action
  <2> DEFINE len == Len(changed[v])
  <2>1. /\ len \in Nat /\ DOMAIN changed[v] = 1 .. len /\ DOMAIN changed'[v] = 1 .. len + 1
        /\ \A m \in 1 .. len : changed'[v][m] = changed[v][m]
        /\ changed'[v][len + 1] = change
    BY <1>2, AppendProperties, LenProperties
  <2>2. changed[v] # <<>> => \A k \in 1 .. len :
          /\ changed[v][k].content = versions[v].content
          /\ \A m \in 1 .. k - 1 : changed[v][m].action < changed[v][k].action
    BY <1>1, <2>1 DEF PaidInv, ChangesOfJobs
  <2>3. \A m \in 1 .. len : changed[v][m].action \in Nat
    <3>1. \A c \in Change : c.action \in Nat
      BY PipelineAssumption DEF Change
    <3> QED BY <1>2, <2>1, <3>1, ElementOfSeq
  <2>4. CASE n = len + 1
    <3>1. changed'[v][n] = change /\ \A m \in 1 .. n - 1 : m \in DOMAIN changed[v]
      BY <2>1, <2>4
    <3>2. \A m \in 1 .. n - 1 : changed'[v][m].action < changed'[v][n].action
      <4> SUFFICES ASSUME NEW m \in 1 .. n - 1
                   PROVE  changed'[v][m].action < changed'[v][n].action
        OBVIOUS
      <4>1. m \in DOMAIN changed[v] /\ changed'[v][m] = changed[v][m]
        BY <2>1, <3>1
      <4>2. changed[v][m].action \in Nat /\ changed[v][m].action <= Taken(u)
        BY <1>1, <2>1, <2>3, <4>1
      <4> HIDE DEF v
      <4> QED BY <1>1, <1>3, <3>1, <4>1, <4>2
    <3> QED BY <1>1, <3>1, <3>2 DEF change
  <2>5. CASE n \in 1 .. len
    <3>1. changed[v] # <<>>
      BY <2>1, <2>5
    <3>2. changed'[v][n] = changed[v][n] /\ \A m \in 1 .. n - 1 : m \in 1 .. len
      BY <2>1, <2>5
    <3>3. /\ changed[v][n].content = versions[v].content
          /\ \A m \in 1 .. n - 1 : changed[v][m].action < changed[v][n].action
      BY <2>2, <2>5, <3>1
    <3> HIDE DEF len
    <3> QED BY <2>1, <3>2, <3>3
  <2> QED BY <1>5, <2>1, <2>4, <2>5
<1>6. ChangesOfJobs'
  BY <1>1, <1>2, <1>5 DEF PaidInv, ChangesOfJobs
<1>7. RunningOnce'
  <2> SUFFICES ASSUME NEW x \in Users, AtWork(users'[x])
               PROVE  /\ jobs'[users'[x].version].status # "none"
                      /\ users'[x].doing = "execute" => changed'[users'[x].version] = <<>>
                      /\ \A y \in Users : AtWork(users'[y])
                           /\ users'[y].version = users'[x].version => y = x
    BY DEF RunningOnce
  <2>1. \A y \in Users : AtWork(users'[y]) => AtWork(users[y]) /\ users'[y].version = users[y].version
    BY <1>1
  <2>2. \A y \in Users \ {u} : AtWork(users[y]) => users[y].version \in Versions \ {v}
    BY <1>1, RequestTyped DEF PaidInv, TypedInv, TypeOK, RunningOnce, AtWork
  <2>3. CASE x = u
    BY <1>1, <2>1, <2>2, <2>3
  <2>4. CASE x # u
    BY <1>2, <2>1, <2>2, <2>4 DEF PaidInv, RunningOnce
  <2> QED BY <2>3, <2>4
<1> QED BY <1>4, <1>6, <1>7

(* A new job is the only one of its version and of its key. *)
LEMMA PaidOnAccept ==
  ASSUME PaidInv, NEW u \in Users, NEW key \in Keys, Accept(u, key)
  PROVE  JobsApproved' /\ ChangesOfJobs' /\ RunningOnce'
<1>1. PICK v \in Versions : /\ Active(v)
                            /\ KeyAndJobAreNew(v, key)
                            /\ jobs' = [jobs EXCEPT ![v] = [status |-> "running", key |-> key]]
                            /\ Becomes(u, [doing |-> "execute", version |-> v])
  BY DEF Accept
<1>2. v \in DOMAIN versions /\ versions[v].decision = "approved"
  BY <1>1 DEF Active, IsNewest, In, PaidInv, TypedInv, StatesDecided
<1>3. jobs[v].status = "none" /\ \A w \in Versions : jobs[w].key # key
  BY <1>1 DEF KeyAndJobAreNew
<1>4. /\ jobs'[v] = [status |-> "running", key |-> key]
      /\ \A w \in Versions \ {v} : jobs'[w] = jobs[w]
      /\ UNCHANGED <<versions, changed>>
  BY <1>1 DEF Accept, PaidInv, TypedInv, TypeOK
<1>5. JobsApproved'
  BY <1>2, <1>3, <1>4 DEF PaidInv, JobsApproved
<1>6. changed[v] = <<>>
  BY <1>3 DEF PaidInv, ChangesOfJobs
<1>7. ChangesOfJobs'
  BY <1>4, <1>6 DEF PaidInv, ChangesOfJobs
<1>8. /\ users'[u] = [doing |-> "execute", version |-> v]
      /\ \A x \in Users \ {u} : users'[x] = users[x]
  BY <1>1 DEF Becomes, PaidInv, TypedInv, TypeOK
<1>9. \A x \in Users : AtWork(users[x]) => users[x].version \in Versions \ {v}
  BY <1>3, RequestTyped DEF PaidInv, TypedInv, TypeOK, RunningOnce, AtWork
<1>10. RunningOnce'
  <2> SUFFICES ASSUME NEW x \in Users, AtWork(users'[x])
               PROVE  /\ jobs'[users'[x].version].status # "none"
                      /\ users'[x].doing = "execute" => changed'[users'[x].version] = <<>>
                      /\ \A y \in Users : AtWork(users'[y])
                           /\ users'[y].version = users'[x].version => y = x
    BY DEF RunningOnce
  <2>1. CASE x = u
    BY <1>4, <1>6, <1>8, <1>9, <2>1
  <2>2. CASE x # u
    BY <1>4, <1>8, <1>9, <2>2 DEF PaidInv, RunningOnce
  <2> QED BY <2>1, <2>2
<1> QED BY <1>5, <1>7, <1>10

(* A step with a request leaves the others alone; what it becomes is not at work
   unless it was, or is accepted. *)
LEMMA RequestsApart ==
  ASSUME TypedInv, NEW u \in Users, Approval(u) \/ Execution(u)
  PROVE  /\ \A x \in Users \ {u} : users'[x] = users[x]
         /\ \/ \E key \in Keys : Accept(u, key)
            \/ ~AtWork(users'[u])
            \/ /\ AtWork(users[u]) /\ users'[u].version = users[u].version
               /\ users'[u].doing = "run"
<1>1. users \in [Users -> Request]
  BY DEF TypedInv, TypeOK
<1>2. CASE Approval(u)
  BY <1>1, <1>2 DEF Approval, StartFreeze, Freeze, FreezeRefused, StartDecide, Decide, DecideRefused,
              Becomes, Idle, AtWork
<1>3. CASE \E key \in Keys : Accept(u, key)
  BY <1>1, <1>3 DEF Accept, Becomes
<1>4. CASE RecheckFails(u) \/ StartRaises(u) \/ Commit(u) \/ CommitRaises(u) \/ CrashRequest(u)
  BY <1>1, <1>4 DEF RecheckFails, StartRaises, Commit, CommitRaises, CrashRequest, Becomes, Idle, AtWork
<1>5. CASE StartRun(u)
  <2>1. PICK active \in Versions :
          Becomes(u, [doing |-> "run", version |-> users[u].version, active |-> active, done |-> <<>>])
    BY <1>5 DEF StartRun
  <2> QED BY <1>1, <1>5, <2>1 DEF StartRun, Becomes, AtWork
<1>6. CASE Take(u) \/ RollBack(u)
  <2>1. Running(u)
    BY <1>6 DEF Take, RollBack
  <2>2. PICK done : \/ Becomes(u, Idle)
                    \/ Becomes(u, [doing |-> "run", version |-> users[u].version,
                                   active |-> users[u].active, done |-> done])
    BY <1>6, RunGoesOn DEF TypedInv
  <2> QED BY <1>1, <2>1, <2>2 DEF Becomes, Idle, Running, AtWork
<1> QED BY <1>2, <1>3, <1>4, <1>5, <1>6 DEF Execution

(* Every step of a request. *)
LEMMA PaidOnRequest ==
  ASSUME PaidInv, ApprovalsKept, NEW u \in Users, Approval(u) \/ Execution(u)
  PROVE  JobsApproved' /\ ChangesOfJobs' /\ RunningOnce'
<1>a. /\ \A x \in Users \ {u} : users'[x] = users[x]
      /\ \/ \E key \in Keys : Accept(u, key)
         \/ ~AtWork(users'[u])
         \/ /\ AtWork(users[u]) /\ users'[u].version = users[u].version
            /\ users'[u].doing = "run"
  BY RequestsApart DEF PaidInv
<1>1. CASE \E key \in Keys : Accept(u, key)
  BY <1>1, PaidOnAccept
<1>2. ASSUME ~\E key \in Keys : Accept(u, key), UNCHANGED changed,
             \A v \in Versions : /\ (jobs'[v].status = "none") <=> (jobs[v].status = "none")
                                 /\ jobs'[v].key = jobs[v].key
      PROVE  JobsApproved' /\ ChangesOfJobs' /\ RunningOnce'
  <2>1. \A x \in Users : AtWork(users'[x]) =>
           /\ AtWork(users[x]) /\ users'[x].version = users[x].version
           /\ users'[x].doing = "execute" => users[x].doing = "execute"
    BY <1>a, <1>2
  <2> QED BY <1>2, <2>1, PaidKept
<1>3. ASSUME NEW status \in {"succeeded", "failed", "rolled_back"},
             users[u].doing \in {"execute", "run"}, Finished(users[u].version, status)
      PROVE  \A v \in Versions : /\ (jobs'[v].status = "none") <=> (jobs[v].status = "none")
                                 /\ jobs'[v].key = jobs[v].key
  <2>1. users[u].version \in Versions /\ jobs[users[u].version].status # "none"
    BY <1>3, RequestTyped DEF PaidInv, TypedInv, TypeOK, RunningOnce, AtWork
  <2> QED BY <1>3, <2>1 DEF Finished, PaidInv, TypedInv, TypeOK, JobRow
<1>4. CASE RecheckFails(u)
  BY <1>1, <1>2, <1>3, <1>4 DEF RecheckFails
<1>5. CASE Commit(u)
  <2>1. Ending(Content(u), users[u].done).job \in {"succeeded", "failed", "rolled_back"}
    BY EndsTyped
  <2>2. /\ Finished(users[u].version, Ending(Content(u), users[u].done).job)
        /\ users[u].doing = "run" /\ UNCHANGED changed
    BY <1>5 DEF Commit, Through, Running
  <2> HIDE DEF Ending
  <2>3. \A v \in Versions : /\ (jobs'[v].status = "none") <=> (jobs[v].status = "none")
                            /\ jobs'[v].key = jobs[v].key
    BY <1>3, <2>1, <2>2
  <2> QED BY <1>1, <1>2, <2>2, <2>3
<1>6. CASE Take(u) \/ RollBack(u)
  <2>1. /\ Running(u) /\ Taken(u) <= Len(Steps(u)) /\ UNCHANGED <<versions, jobs>>
        /\ UNCHANGED changed \/ Touch(u, Taken(u) + 1)
    BY <1>6, RunGoesOn DEF PaidInv, TypedInv
  <2>2. CASE Touch(u, Taken(u) + 1)
    <3>1. AtWork(users'[u]) => users'[u].doing = "run" /\ users'[u].version = users[u].version
      BY <1>a, <1>6, <2>1 DEF Accept, Idle, Running
    <3> QED BY <1>a, <2>1, <2>2, <3>1, PaidOnTouch
  <2> QED BY <1>1, <1>2, <2>1, <2>2
<1>7. CASE StartRun(u) \/ StartRaises(u) \/ CommitRaises(u) \/ CrashRequest(u)
  <2>1. UNCHANGED <<jobs, changed>>
    BY <1>7 DEF StartRun, StartRaises, CommitRaises, CrashRequest
  <2> QED BY <1>1, <1>2, <2>1
<1>8. CASE Approval(u)
  <2>1. UNCHANGED <<jobs, changed>>
    BY <1>8 DEF Approval, StartFreeze, Freeze, FreezeRefused, StartDecide, Decide, DecideRefused
  <2> QED BY <1>1, <1>2, <2>1
<1> QED BY <1>1, <1>4, <1>5, <1>6, <1>7, <1>8 DEF Execution

(* While a job is run and goes on, nobody else writes the plan, moves the case or
   replaces the version: the rows are locked. *)
LEMMA RowsStayLocked ==
  ASSUME PaidInv, [Next]_vars, NEW u \in Users, Running(u), users'[u].doing = "run"
  PROVE  /\ UNCHANGED <<case, plan>>
         /\ DOMAIN versions' = DOMAIN versions
         /\ \A v \in DOMAIN versions : /\ versions'[v].state = versions[v].state
                                       /\ versions'[v].content = versions[v].content
         /\ UNCHANGED changed \/ Take(u) \/ RollBack(u)
<1>1. /\ ~Unlocked /\ users \in [Users -> Request]
      /\ \A x \in Users : Running(x) => x = u
      /\ \A v \in DOMAIN versions : versions[v] \in VersionRow
  BY VersionNumbers DEF PaidInv, TypedInv, TypeOK, RunsCovered, Running, Unlocked
<1>2. ASSUME NEW x \in Users, Approval(x)
      PROVE  UNCHANGED <<case, plan, versions, changed>>
  BY <1>1, <1>2 DEF Approval, StartFreeze, Freeze, FreezeRefused, StartDecide, Decide, DecideRefused
<1>3. ASSUME NEW x \in Users, Execution(x)
      PROVE  UNCHANGED <<case, plan, versions>> /\ (UNCHANGED changed \/ Take(u) \/ RollBack(u))
  <2>1. ~Commit(x)
    BY <1>1 DEF Commit, Through, Becomes, Idle
  <2>2. Take(x) \/ RollBack(x) => x = u
    BY <1>1 DEF Take, RollBack
  <2> QED BY <1>3, <2>1, <2>2 DEF Execution, Accept, RecheckFails, StartRun, StartRaises, Take,
             RollBack, CommitRaises, CrashRequest
<1>4. ASSUME NEW w \in Verifiers, Verification(w)
      PROVE  UNCHANGED <<case, plan, versions, changed>>
  BY <1>1, <1>4 DEF Verification, Claim, Recheck, Load, Evaluate, EvaluateInVain, CrashVerifier
<1>5. ASSUME NEW v \in Versions, Expire(v)
      PROVE  /\ UNCHANGED <<case, plan, changed>>
             /\ DOMAIN versions' = DOMAIN versions
             /\ \A x \in DOMAIN versions : /\ versions'[x].state = versions[x].state
                                           /\ versions'[x].content = versions[x].content
  <2> DEFINE row == [versions[v] EXCEPT !.over = TRUE]
  <2>1. v \in DOMAIN versions /\ versions' = [versions EXCEPT ![v] = row]
    BY <1>5 DEF Expire, In
  <2>2. row.state = versions[v].state /\ row.content = versions[v].content
    BY <1>1, <2>1 DEF VersionRow
  <2> HIDE DEF row
  <2>3. DOMAIN versions' = DOMAIN versions
    BY <2>1
  <2>4. \A x \in DOMAIN versions : versions'[x] = IF x = v THEN row ELSE versions[x]
    BY <2>1
  <2> QED BY <1>5, <2>2, <2>3, <2>4 DEF Expire
<1>6. ~GraphWritesPlan /\ ~GraphMovesCase
  BY <1>1 DEF GraphWritesPlan, GraphMovesCase
<1>7. CASE UNCHANGED vars
  BY <1>7 DEF vars
<1> QED BY <1>2, <1>3, <1>4, <1>5, <1>6, <1>7 DEF Next

(* What a job is run under is what it was checked against. *)
LEMMA RunsStayCovered ==
  ASSUME PaidInv, [Next]_vars
  PROVE  RunsCovered'
<1> SUFFICES ASSUME NEW u \in Users, users'[u].doing = "run"
             PROVE  LET r == users'[u] IN
                    /\ \A x \in Users : users'[x].doing = "run" => x = u
                    /\ CanMove(case', "executing")
                    /\ versions'[r.active].state = "approved"
                    /\ versions'[r.active].content = plan'.content
                    /\ versions'[r.active].content = versions'[r.version].content
                    /\ \A n \in DOMAIN changed'[r.version] : changed'[r.version][n].action <= Len(r.done)
  BY DEF RunsCovered, Running, Taken, Content, CanMove
<1>1. users \in [Users -> Request] /\ TypeOK /\ RunsTyped
  BY DEF PaidInv, TypedInv, TypeOK
<1>2. CASE Running(u)
  <2>1. /\ \A x \in Users : Running(x) => x = u
        /\ CanMove(case, "executing")
        /\ versions[users[u].active].state = "approved"
        /\ Content(u) = plan.content
        /\ Content(u) = versions[users[u].version].content
        /\ \A n \in DOMAIN changed[users[u].version] : changed[users[u].version][n].action <= Taken(u)
    BY <1>2 DEF PaidInv, RunsCovered
  <2>2. /\ UNCHANGED <<case, plan>>
        /\ \A v \in DOMAIN versions : /\ versions'[v].state = versions[v].state
                                      /\ versions'[v].content = versions[v].content
        /\ UNCHANGED changed \/ Take(u) \/ RollBack(u)
    BY <1>2, RowsStayLocked
  <2>3. /\ users[u].active \in DOMAIN versions /\ users[u].version \in DOMAIN versions
        /\ users[u].version \in Versions /\ Taken(u) \in Nat
    BY <1>1, <1>2, RunTyped DEF PaidInv, JobsApproved, RunningOnce, AtWork, Running
  <2>4. \A x \in Users : users'[x].doing = "run" => x = u
    <3> SUFFICES ASSUME NEW x \in Users, users'[x].doing = "run", x # u PROVE FALSE
      OBVIOUS
    <3>1. ~Running(x)
      BY <2>1
    <3>2. ~StartRun(x)
      BY <1>2 DEF StartRun, Unlocked, Running
    <3>3. ~Take(x) /\ ~RollBack(x) /\ users'[x] # users[x]
      BY <3>1 DEF Take, RollBack, Running
    <3> QED BY <1>1, <3>2, <3>3, StepOfRun
  <2>5. /\ users'[u].active = users[u].active /\ users'[u].version = users[u].version
        /\ \/ users'[u] = users[u] /\ UNCHANGED changed
           \/ /\ Len(users'[u].done) = Taken(u) + 1 /\ Taken(u) <= Len(Steps(u))
              /\ UNCHANGED changed \/ Touch(u, Taken(u) + 1)
    <3>1. CASE Take(u) \/ RollBack(u)
      <4>1. PICK done \in Done :
              /\ Len(done) = Taken(u) + 1
              /\ \/ Becomes(u, Idle)
                 \/ Becomes(u, [doing |-> "run", version |-> users[u].version,
                                active |-> users[u].active, done |-> done])
        BY <1>1, <3>1, RunGoesOn
      <4>2. users'[u] = [doing |-> "run", version |-> users[u].version,
                         active |-> users[u].active, done |-> done]
        BY <1>1, <4>1 DEF Becomes, Idle
      <4>3. Taken(u) <= Len(Steps(u)) /\ (UNCHANGED changed \/ Touch(u, Taken(u) + 1))
        BY <1>1, <3>1, RunGoesOn
      <4> QED BY <4>1, <4>2, <4>3
    <3>2. CASE ~(Take(u) \/ RollBack(u))
      <4>1. ~StartRun(u)
        BY <1>2 DEF StartRun, Running
      <4> QED BY <1>1, <2>2, <3>2, <4>1, StepOfRun
    <3> QED BY <3>1, <3>2
  <2>6. \A n \in DOMAIN changed'[users[u].version] :
          changed'[users[u].version][n].action <= Len(users'[u].done)
    <3> DEFINE v == users[u].version
    <3>0. changed[v] \in Seq(Change) /\ \A n \in DOMAIN changed[v] : changed[v][n].action \in Nat
      <4>1. changed[v] \in Seq(Change)
        BY <2>3 DEF PaidInv, TypedInv, TypeOK
      <4>2. \A c \in Change : c.action \in Nat
        BY PipelineAssumption DEF Change
      <4> QED BY <4>1, <4>2, LenProperties, ElementOfSeq
    <3>1. CASE UNCHANGED changed
      BY <2>1, <2>3, <2>5, <3>0, <3>1 DEF Taken
    <3>2. CASE Touch(u, Taken(u) + 1) /\ Taken(u) <= Len(Steps(u)) /\ Len(users'[u].done) = Taken(u) + 1
      <4> DEFINE change == [content |-> Content(u), action |-> Taken(u) + 1]
      <4>1. changed'[v] = Append(changed[v], change) /\ change \in Change
        BY <1>1, <1>2, <3>2, TouchTyped
      <4>2. change.action = Taken(u) + 1
        OBVIOUS
      <4> HIDE DEF change
      <4>3. /\ DOMAIN changed'[v] = 1 .. Len(changed[v]) + 1 /\ Len(changed[v]) \in Nat
            /\ DOMAIN changed[v] = 1 .. Len(changed[v])
            /\ \A n \in 1 .. Len(changed[v]) : changed'[v][n] = changed[v][n]
            /\ changed'[v][Len(changed[v]) + 1] = change
        BY <3>0, <4>1, AppendProperties, LenProperties
      <4>4. ASSUME NEW n \in DOMAIN changed'[v]
            PROVE  changed'[v][n].action <= Taken(u) + 1
        <5>1. CASE n = Len(changed[v]) + 1
          BY <2>3, <4>2, <4>3, <5>1
        <5>2. CASE n \in DOMAIN changed[v]
          <6>1. changed[v][n].action <= Taken(u) /\ changed[v][n].action \in Nat
            BY <2>1, <3>0, <5>2
          <6>2. changed'[v][n] = changed[v][n]
            BY <4>3, <5>2
          <6> QED BY <2>3, <6>1, <6>2
        <5> QED BY <4>3, <4>4, <5>1, <5>2
      <4> QED BY <3>2, <4>4
    <3> QED BY <2>5, <3>1, <3>2
  <2> QED BY <2>1, <2>2, <2>3, <2>4, <2>5, <2>6 DEF Content
<1>3. CASE ~Running(u)
  <2>1. StartRun(u)
    <3>1. users'[u] # users[u] /\ ~Take(u) /\ ~RollBack(u)
      BY <1>3 DEF Running, Take, RollBack
    <3> QED BY <1>1, <3>1, StepOfRun
  <2>2. PICK active \in Versions :
          /\ Rechecked(u, active)
          /\ Becomes(u, [doing |-> "run", version |-> users[u].version, active |-> active,
                         done |-> <<>>])
    BY <2>1 DEF StartRun
  <2>3. /\ users'[u] = [doing |-> "run", version |-> users[u].version, active |-> active,
                        done |-> <<>>]
        /\ \A x \in Users \ {u} : users'[x] = users[x]
    BY <1>1, <2>2 DEF Becomes
  <2>4. \A x \in Users : users'[x].doing = "run" => x = u
    BY <2>1, <2>3 DEF StartRun, Unlocked
  <2>5. /\ versions[active].state = "approved" /\ versions[active].content = plan.content
        /\ versions[active].content = versions[users[u].version].content
    BY <2>2 DEF Rechecked, Active, IsNewest, In, Usable
  <2>6. CanMove(case, "executing") /\ UNCHANGED <<case, plan, versions, changed>>
    BY <2>1 DEF StartRun
  <2>7. changed[users[u].version] = <<>>
    BY <2>1 DEF StartRun, PaidInv, RunningOnce, AtWork
  <2>8. DOMAIN changed[users[u].version] = {}
    BY <2>7
  <2>9. changed' = changed /\ versions' = versions /\ plan' = plan /\ case' = case
    BY <2>6
  <2>10. users'[u].active = active /\ users'[u].version = users[u].version
    BY <2>3
  <2> QED BY <2>4, <2>5, <2>6, <2>8, <2>9, <2>10
<1> QED BY <1>2, <1>3

LEMMA PaidInit == Init => PaidInv
<1> SUFFICES ASSUME Init PROVE PaidInv
  OBVIOUS
<1>1. TypedInv
  BY TypedInit
<1>2. /\ \A v \in Versions : jobs[v].status = "none" /\ changed[v] = <<>>
      /\ \A u \in Users : users[u].doing = "nothing"
  BY DEF Init, Idle
<1>3. JobsApproved /\ ChangesOfJobs /\ RunningOnce /\ RunsCovered
  BY <1>2 DEF JobsApproved, ChangesOfJobs, RunningOnce, RunsCovered, Running, AtWork
<1> QED BY <1>1, <1>3 DEF PaidInv

LEMMA PaidNext == PaidInv /\ [Next]_vars => PaidInv'
<1> SUFFICES ASSUME PaidInv, [Next]_vars PROVE PaidInv'
  OBVIOUS
<1>1. TypedInv' /\ RunsCovered'
  BY TypedNext, RunsStayCovered DEF PaidInv
<1>2. ApprovalsKept
  BY StepKeepsApprovals DEF PaidInv, TypedInv
<1>3. ASSUME UNCHANGED <<jobs, changed, users>>
      PROVE  JobsApproved' /\ ChangesOfJobs' /\ RunningOnce'
  BY <1>2, <1>3, PaidKept
<1>4. ASSUME NEW w \in Verifiers, Verification(w)
      PROVE  UNCHANGED <<jobs, changed, users>>
  BY <1>4 DEF Verification, Claim, Recheck, Load, Evaluate, EvaluateInVain, CrashVerifier
<1>5. (\E v \in Versions : Expire(v)) \/ GraphWritesPlan \/ GraphMovesCase \/ UNCHANGED vars
        => UNCHANGED <<jobs, changed, users>>
  BY DEF Expire, GraphWritesPlan, GraphMovesCase, vars
<1>6. JobsApproved' /\ ChangesOfJobs' /\ RunningOnce'
  BY <1>2, <1>3, <1>4, <1>5, PaidOnRequest DEF Next
<1> QED BY <1>1, <1>6 DEF PaidInv

(* A device is changed only as a human approved it and once: by every job each
   action at most once and in order, of the approved content of its version, and
   for every key by at most one job; whatever requests race, repeat, raise or die,
   and wherever in a run. *)
THEOREM PaidByApprovals == Spec => []ChangesPaidByApprovals
<1>1. PaidInv => ChangesPaidByApprovals
  BY DEF PaidInv, JobsApproved, ChangesOfJobs, ChangesPaidByApprovals
<1> QED BY PaidInit, PaidNext, <1>1, PTL DEF Spec

-----------------------------------------------------------------------------
(* Changes are covered by an approval that stands.                         *)

(* Whatever reaches a device in the middle of a run, before the rollback as in it,
   is said by an approved version that nobody replaced and by the plan as it is
   then, although requests, verifiers and the graph go on meanwhile: the check that
   begins the run covers all of it, because the rows it read stay locked.  No run
   begins under an expired approval; that one may expire later is not excluded. *)
THEOREM CoveredByApproval == Spec => ChangesUnderApproval
<1> DEFINE Covered ==
      /\ \A v \in Versions : changed'[v] # changed[v] =>
           \E a \in DOMAIN versions, n \in 1 .. MaxActions + 1 :
             /\ versions[a].state = "approved" /\ versions[a].decision = "approved"
             /\ versions[a].content = plan.content
             /\ changed'[v] = Append(changed[v], [content |-> versions[a].content, action |-> n])
      /\ \A u \in Users : users'[u].doing = "run" /\ ~Running(u) => ~versions[users'[u].active].over
<1>1. PaidInv /\ [Next]_vars => Covered
  <2> SUFFICES ASSUME PaidInv, [Next]_vars PROVE Covered
    OBVIOUS
  <2>0. TypeOK /\ RunsTyped /\ StatesDecided /\ users \in [Users -> Request]
    BY DEF PaidInv, TypedInv, TypeOK
  <2>1. ASSUME NEW u \in Users, Take(u) \/ RollBack(u), NEW v \in Versions, changed'[v] # changed[v]
        PROVE  \E a \in DOMAIN versions, n \in 1 .. MaxActions + 1 :
             /\ versions[a].state = "approved" /\ versions[a].decision = "approved"
             /\ versions[a].content = plan.content
             /\ changed'[v] = Append(changed[v], [content |-> versions[a].content, action |-> n])
    <3>1. Running(u) /\ Taken(u) <= Len(Steps(u)) /\ Touch(u, Taken(u) + 1)
      BY <2>0, <2>1, RunGoesOn
    <3>2. v = users[u].version /\
          changed'[v] = Append(changed[v], [content |-> Content(u), action |-> Taken(u) + 1])
      BY <2>0, <2>1, <3>1, TouchTyped
    <3>3. /\ users[u].active \in DOMAIN versions /\ Taken(u) \in Nat
          /\ Len(Steps(u)) \in Nat /\ Len(Steps(u)) <= MaxActions /\ MaxActions \in Nat
      BY <2>0, <3>1, RunTyped, ActionsTyped
    <3>4. versions[users[u].active].state = "approved" /\ Content(u) = plan.content
      BY <3>1 DEF PaidInv, RunsCovered
    <3>5. versions[users[u].active].decision = "approved"
      BY <2>0, <3>3, <3>4 DEF StatesDecided
    <3>6. Taken(u) + 1 \in 1 .. MaxActions + 1
      BY <3>1, <3>3
    <3> QED BY <3>2, <3>3, <3>4, <3>5, <3>6 DEF Content
  <2>2. ASSUME NEW u \in Users, Approval(u) \/ Execution(u)
        PROVE  UNCHANGED changed \/ Take(u) \/ RollBack(u)
    BY <2>2 DEF Approval, StartFreeze, Freeze, FreezeRefused, StartDecide, Decide, DecideRefused,
                Execution, Accept, RecheckFails, StartRun, StartRaises, Commit, CommitRaises,
                CrashRequest
  <2>3. ASSUME NEW w \in Verifiers, Verification(w)
        PROVE  UNCHANGED changed
    BY <2>3 DEF Verification, Claim, Recheck, Load, Evaluate, EvaluateInVain, CrashVerifier
  <2>4. (\E v \in Versions : Expire(v)) \/ GraphWritesPlan \/ GraphMovesCase \/ UNCHANGED vars
          => UNCHANGED changed
    BY DEF Expire, GraphWritesPlan, GraphMovesCase, vars
  <2>5. UNCHANGED changed \/ \E u \in Users : Take(u) \/ RollBack(u)
    BY <2>2, <2>3, <2>4 DEF Next
  <2>6. ASSUME NEW u \in Users, users'[u].doing = "run", ~Running(u)
        PROVE  ~versions[users'[u].active].over
    <3>1. StartRun(u)
      <4>1. users'[u] # users[u] /\ ~Take(u) /\ ~RollBack(u)
        BY <2>6 DEF Running, Take, RollBack
      <4> QED BY <2>0, <2>6, <4>1, StepOfRun
    <3>2. PICK active \in Versions :
            /\ Rechecked(u, active)
            /\ Becomes(u, [doing |-> "run", version |-> users[u].version, active |-> active,
                           done |-> <<>>])
      BY <3>1 DEF StartRun
    <3>3. users'[u].active = active
      BY <2>0, <3>2 DEF Becomes
    <3> QED BY <3>2, <3>3 DEF Rechecked, Usable
  <2> QED BY <2>1, <2>5, <2>6
<1>2. PaidInv /\ [Next]_vars => [Covered]_vars
  BY <1>1
<1> QED BY PaidInit, PaidNext, <1>2, PTL DEF Spec, ChangesUnderApproval

-----------------------------------------------------------------------------
(* Verdicts are final.                                                     *)

(* A job that has not run to its end has no verification runs: those of its
   transaction come with its commit. *)
RunsOfEndedJobs ==
  /\ \A v \in Versions, i \in Indices : jobs[v].status = "none" => checks[v][i].status = "none"
  /\ \A u \in Users : AtWork(users[u]) =>
       \A i \in Indices : checks[users[u].version][i].status = "none"

(* A verifier is at work on a run there is. *)
VerifiersOnRuns ==
  \A w \in Verifiers : verifiers[w].doing \in {"claimed", "loaded"} =>
    checks[verifiers[w].version][verifiers[w].index].status # "none"

(* The row a verifier holds is not ahead of the database, and behind it where
   the database has a final verdict the row does not have. *)
RowsBehind ==
  \A w \in Verifiers : verifiers[w].doing = "loaded" =>
    LET seen == verifiers[w].seen
        run  == checks[verifiers[w].version][verifiers[w].index] IN
      /\ seen.rounds <= run.rounds
      /\ run.status \in Final /\ seen.status \notin Final => seen.rounds < run.rounds

FinalInv == PaidInv /\ RunsOfEndedJobs /\ VerifiersOnRuns /\ RowsBehind

(* What happens to a verification run in a step that is not a job's end: it
   stays what it is, keeps its rounds or gains some, and comes from nowhere. *)
RunOn(before, after) ==
  /\ before.status = "none" <=> after.status = "none"
  /\ before.rounds <= after.rounds
  /\ after.status \in Final /\ before.status \notin Final => before.rounds < after.rounds
  /\ before.status \in Final => after = before

(* A claim, and an evaluation that goes through, are such steps. *)
LEMMA ClaimRunsOn ==
  ASSUME FinalInv, NEW w \in Verifiers, NEW v \in Versions, NEW i \in Indices, Claim(w, v, i)
  PROVE  \A x \in Versions, j \in Indices : RunOn(checks[x][j], checks'[x][j])
<1>1. \A x \in Versions, j \in Indices : checks[x][j] \in RunRow
  BY DEF FinalInv, PaidInv, TypedInv, TypeOK
<1> DEFINE row == [checks[v][i] EXCEPT !.status = "checking"]
<1>2. /\ checks[v][i].status \in {"pending", "checking"}
      /\ checks' = [checks EXCEPT ![v] = [checks[v] EXCEPT ![i] = row]]
  BY DEF Claim, Due
<1>3. row.status = "checking" /\ row.rounds = checks[v][i].rounds
  BY <1>1 DEF RunRow
<1> HIDE DEF row
<1>4. /\ checks'[v][i] = row
      /\ \A x \in Versions, j \in Indices :
           x # v \/ j # i => checks'[x][j] = checks[x][j]
  BY <1>2 DEF FinalInv, PaidInv, TypedInv, TypeOK
<1>5. RunOn(checks[v][i], checks'[v][i])
  BY <1>1, <1>2, <1>3, <1>4 DEF RunOn, RunRow, Final
<1>6. \A x \in Versions, j \in Indices : RunOn(checks[x][j], checks[x][j])
  BY <1>1 DEF RunOn, RunRow
<1> QED BY <1>4, <1>5, <1>6

LEMMA EvaluationRunsOn ==
  ASSUME FinalInv, NEW w \in Verifiers, Evaluate(w)
  PROVE  \A x \in Versions, j \in Indices : RunOn(checks[x][j], checks'[x][j])
<1> DEFINE v == verifiers[w].version
           i == verifiers[w].index
           seen == verifiers[w].seen
<1>1. \A x \in Versions, j \in Indices : checks[x][j] \in RunRow
  BY DEF FinalInv, PaidInv, TypedInv, TypeOK
<1>2. v \in Versions /\ i \in Indices /\ seen \in RunRow
  BY VerifyingTyped DEF Evaluate, FinalInv, PaidInv, TypedInv, TypeOK
<1>3. /\ checks[v][i].status # "none"
      /\ seen.rounds <= checks[v][i].rounds
      /\ checks[v][i].status \in Final /\ seen.status \notin Final =>
           seen.rounds < checks[v][i].rounds
  BY DEF Evaluate, FinalInv, VerifiersOnRuns, RowsBehind
<1>4. seen.status \notin Final /\ checks[v][i].rounds < seen.rounds + 1
  BY DEF Evaluate, NewRound
<1>5. checks[v][i].rounds = seen.rounds /\ checks[v][i].status \notin Final
  BY <1>1, <1>2, <1>3, <1>4 DEF RunRow
<1>6. PICK verdict \in Verdicts(seen.rounds + 1) :
        checks' = [checks EXCEPT ![v][i] =
          [status |-> IF verdict = seen.status THEN @.status ELSE verdict,
           rounds |-> seen.rounds + 1]]
  BY DEF Evaluate
<1> DEFINE row == [status |-> IF verdict = seen.status THEN checks[v][i].status ELSE verdict,
                   rounds |-> seen.rounds + 1]
<1>7. row.status # "none" /\ row.rounds = checks[v][i].rounds + 1
  BY <1>3, <1>5 DEF Verdicts
<1>8. checks' = [checks EXCEPT ![v] = [checks[v] EXCEPT ![i] = row]]
  BY <1>6
<1> HIDE DEF row
<1>9. /\ checks'[v][i] = row
      /\ \A x \in Versions, j \in Indices :
           x # v \/ j # i => checks'[x][j] = checks[x][j]
  BY <1>2, <1>8 DEF FinalInv, PaidInv, TypedInv, TypeOK
<1>10. RunOn(checks[v][i], checks'[v][i])
  BY <1>1, <1>2, <1>3, <1>5, <1>7, <1>9 DEF RunOn, RunRow
<1>11. \A x \in Versions, j \in Indices : RunOn(checks[x][j], checks[x][j])
  BY <1>1 DEF RunOn, RunRow
<1> QED BY <1>9, <1>10, <1>11

(* A job that commits writes its own verification runs, of which there were none. *)
LEMMA CommitWritesOwn ==
  ASSUME FinalInv, NEW u \in Users, Commit(u)
  PROVE  \A x \in Versions, j \in Indices :
           /\ x # users[u].version => checks'[x][j] = checks[x][j]
           /\ x = users[u].version => checks[x][j].status = "none"
<1>1. AtWork(users[u]) /\ users[u].version \in Versions
  BY RequestTyped DEF Commit, Through, Running, AtWork, FinalInv, PaidInv, TypedInv, TypeOK
<1>2. \A j \in Indices : checks[users[u].version][j].status = "none"
  BY <1>1 DEF FinalInv, RunsOfEndedJobs
<1>3. PICK row : checks' = [checks EXCEPT ![users[u].version] = row]
  BY DEF Commit
<1>4. \A x \in Versions \ {users[u].version} : checks'[x] = checks[x]
  BY <1>3 DEF FinalInv, PaidInv, TypedInv, TypeOK
<1> QED BY <1>2, <1>4

(* What a step does to the verification runs: the end of a job's, or not. *)
LEMMA StepRunsOn ==
  ASSUME FinalInv, [Next]_vars
  PROVE  \A x \in Versions, j \in Indices :
           RunOn(checks[x][j], checks'[x][j]) \/ checks[x][j].status = "none"
<1>1. \A x \in Versions, j \in Indices : checks[x][j] \in RunRow
  BY DEF FinalInv, PaidInv, TypedInv, TypeOK
<1>2. \A x \in Versions, j \in Indices : RunOn(checks[x][j], checks[x][j])
  BY <1>1 DEF RunOn, RunRow
<1>3. ASSUME NEW u \in Users, Approval(u) \/ Execution(u)
      PROVE  UNCHANGED checks \/ Commit(u)
  BY <1>3 DEF Approval, StartFreeze, Freeze, FreezeRefused, StartDecide, Decide, DecideRefused,
              Execution, Accept, RecheckFails, StartRun, StartRaises, Take, RollBack,
              CommitRaises, CrashRequest
<1>4. ASSUME NEW w \in Verifiers, Verification(w)
      PROVE  UNCHANGED checks \/ Evaluate(w) \/ \E v \in Versions, i \in Indices : Claim(w, v, i)
  BY <1>4 DEF Verification, Recheck, Load, EvaluateInVain, CrashVerifier
<1>5. (\E v \in Versions : Expire(v)) \/ GraphWritesPlan \/ GraphMovesCase \/ UNCHANGED vars
        => UNCHANGED checks
  BY DEF Expire, GraphWritesPlan, GraphMovesCase, vars
<1>6. \/ UNCHANGED checks
      \/ \E u \in Users : Commit(u)
      \/ \E w \in Verifiers : Evaluate(w) \/ \E v \in Versions, i \in Indices : Claim(w, v, i)
  BY <1>3, <1>4, <1>5 DEF Next
<1>7. CASE UNCHANGED checks
  BY <1>2, <1>7
<1>8. CASE \E u \in Users : Commit(u)
  BY <1>2, <1>8, CommitWritesOwn
<1>9. CASE \E w \in Verifiers : Evaluate(w) \/ \E v \in Versions, i \in Indices : Claim(w, v, i)
  BY <1>9, EvaluationRunsOn, ClaimRunsOn
<1> QED BY <1>6, <1>7, <1>8, <1>9

(* What a verifier holds after a step: what it held, nothing, a claim on a run
   there is, or the row as it is now. *)
LEMMA StepVerifiers ==
  ASSUME FinalInv, [Next]_vars, NEW w \in Verifiers
  PROVE  \/ verifiers'[w] = verifiers[w]
         \/ verifiers'[w].doing = "nothing"
         \/ \E v \in Versions, i \in Indices :
              /\ checks'[v][i].status # "none"
              /\ \/ verifiers'[w] = [doing |-> "claimed", version |-> v, index |-> i]
                 \/ verifiers'[w] = [doing |-> "loaded", version |-> v, index |-> i,
                                     seen |-> checks'[v][i]]
<1>1. verifiers \in [Verifiers -> Verifying] /\ checks \in [Versions -> [Indices -> RunRow]]
  BY DEF FinalInv, PaidInv, TypedInv, TypeOK
<1>2. ASSUME NEW x \in Verifiers, Verification(x)
      PROVE  \/ verifiers'[x].doing = "nothing"
             \/ \E v \in Versions, i \in Indices :
                  /\ checks'[v][i].status # "none"
                  /\ \/ verifiers'[x] = [doing |-> "claimed", version |-> v, index |-> i]
                     \/ verifiers'[x] = [doing |-> "loaded", version |-> v, index |-> i,
                                         seen |-> checks'[v][i]]
  <2>1. ASSUME NEW v \in Versions, NEW i \in Indices, Claim(x, v, i)
        PROVE  /\ verifiers'[x] = [doing |-> "claimed", version |-> v, index |-> i]
               /\ checks'[v][i].status # "none"
    <3>1. verifiers'[x] = [doing |-> "claimed", version |-> v, index |-> i]
      BY <1>1, <2>1 DEF Claim, Sees
    <3>2. RunOn(checks[v][i], checks'[v][i]) /\ checks[v][i].status # "none"
      BY <2>1, ClaimRunsOn DEF Claim, Due
    <3> QED BY <3>1, <3>2 DEF RunOn
  <2>2. ASSUME NEW v \in Versions, NEW i \in Indices, Recheck(x, v, i)
        PROVE  /\ verifiers'[x] = [doing |-> "loaded", version |-> v, index |-> i,
                                   seen |-> checks'[v][i]]
               /\ checks'[v][i].status # "none"
    BY <1>1, <2>2 DEF Recheck, Sees, Loaded, Verdict
  <2>3. CASE Load(x)
    <3> DEFINE v == verifiers[x].version
               i == verifiers[x].index
    <3>1. v \in Versions /\ i \in Indices
      BY <1>1, <2>3, VerifyingTyped DEF Load
    <3>2. checks'[v][i].status # "none"
      BY <2>3 DEF Load, FinalInv, VerifiersOnRuns
    <3>3. verifiers'[x] = [doing |-> "loaded", version |-> v, index |-> i, seen |-> checks'[v][i]]
      BY <1>1, <2>3 DEF Load, Sees, Loaded
    <3> QED BY <3>1, <3>2, <3>3
  <2>4. CASE Evaluate(x) \/ EvaluateInVain(x) \/ CrashVerifier(x)
    BY <1>1, <2>4 DEF Evaluate, EvaluateInVain, CrashVerifier, Sees, Idle
  <2> QED BY <1>2, <2>1, <2>2, <2>3, <2>4 DEF Verification
<1>3. ASSUME NEW x \in Verifiers, Verification(x), x # w
      PROVE  verifiers'[w] = verifiers[w]
  BY <1>1, <1>3 DEF Verification, Claim, Recheck, Load, Evaluate, EvaluateInVain, CrashVerifier, Sees
<1>4. ASSUME NEW u \in Users, Approval(u) \/ Execution(u)
      PROVE  UNCHANGED verifiers
  BY <1>4 DEF Approval, StartFreeze, Freeze, FreezeRefused, StartDecide, Decide, DecideRefused,
              Execution, Accept, RecheckFails, StartRun, StartRaises, Take, RollBack, Commit,
              CommitRaises, CrashRequest
<1>5. (\E v \in Versions : Expire(v)) \/ GraphWritesPlan \/ GraphMovesCase \/ UNCHANGED vars
        => UNCHANGED verifiers
  BY DEF Expire, GraphWritesPlan, GraphMovesCase, vars
<1> QED BY <1>2, <1>3, <1>4, <1>5 DEF Next

(* No verifier is left without its run, or with a row that is ahead of it. *)
LEMMA VerifiersKept ==
  ASSUME FinalInv, [Next]_vars, TypeOK'
  PROVE  VerifiersOnRuns' /\ RowsBehind'
<1>1. \A x \in Versions, j \in Indices : checks[x][j] \in RunRow /\ checks'[x][j] \in RunRow
  BY DEF FinalInv, PaidInv, TypedInv, TypeOK
<1>2. ASSUME NEW w \in Verifiers, verifiers'[w].doing \in {"claimed", "loaded"}
      PROVE  LET before == checks[verifiers'[w].version][verifiers'[w].index]
                 after  == checks'[verifiers'[w].version][verifiers'[w].index]
                 seen   == verifiers'[w].seen IN
             /\ after.status # "none"
             /\ verifiers'[w].doing = "loaded" =>
                  /\ seen.rounds <= after.rounds
                  /\ after.status \in Final /\ seen.status \notin Final =>
                       seen.rounds < after.rounds
  <2> DEFINE v == verifiers'[w].version
             i == verifiers'[w].index
             seen == verifiers'[w].seen
  <2>1. v \in Versions /\ i \in Indices /\ (verifiers'[w].doing = "loaded" => seen \in RunRow)
    BY <1>2, VerifyingTyped DEF TypeOK
  <2>2. CASE verifiers'[w] = verifiers[w]
    <3>1. /\ checks[v][i].status # "none"
          /\ verifiers[w].doing = "loaded" =>
               /\ seen.rounds <= checks[v][i].rounds
               /\ checks[v][i].status \in Final /\ seen.status \notin Final =>
                    seen.rounds < checks[v][i].rounds
      BY <1>2, <2>2 DEF FinalInv, VerifiersOnRuns, RowsBehind
    <3>2. RunOn(checks[v][i], checks'[v][i])
      BY <2>1, <3>1, StepRunsOn
    <3>3. checks[v][i].rounds \in Nat /\ checks'[v][i].rounds \in Nat
      BY <1>1, <2>1 DEF RunRow
    <3>4. verifiers'[w].doing = "loaded" => seen.rounds \in Nat
      BY <2>1 DEF RunRow
    <3>5. checks'[v][i].status # "none"
      BY <3>1, <3>2 DEF RunOn
    <3>6. verifiers'[w].doing = "loaded" => seen.rounds <= checks'[v][i].rounds
      BY <2>2, <3>1, <3>2, <3>3, <3>4 DEF RunOn
    <3>7. ASSUME verifiers'[w].doing = "loaded", checks'[v][i].status \in Final,
                 seen.status \notin Final
          PROVE  seen.rounds < checks'[v][i].rounds
      <4>1. CASE checks[v][i].status \in Final
        BY <2>2, <3>1, <3>2, <3>3, <3>4, <3>7, <4>1 DEF RunOn
      <4>2. CASE checks[v][i].status \notin Final
        BY <2>2, <3>1, <3>2, <3>3, <3>4, <3>7, <4>2 DEF RunOn
      <4> QED BY <4>1, <4>2
    <3> QED BY <3>5, <3>6, <3>7
  <2>3. CASE verifiers'[w] # verifiers[w]
    <3>1. PICK x \in Versions, j \in Indices :
            /\ checks'[x][j].status # "none"
            /\ \/ verifiers'[w] = [doing |-> "claimed", version |-> x, index |-> j]
               \/ verifiers'[w] = [doing |-> "loaded", version |-> x, index |-> j,
                                   seen |-> checks'[x][j]]
      BY <1>2, <2>3, StepVerifiers
    <3>2. v = x /\ i = j /\ (verifiers'[w].doing = "loaded" => seen = checks'[x][j])
      BY <3>1
    <3>3. checks'[x][j].rounds \in Nat
      BY <1>1 DEF RunRow
    <3> QED BY <3>1, <3>2, <3>3
  <2> QED BY <2>2, <2>3
<1> QED BY <1>2 DEF VerifiersOnRuns, RowsBehind

(* Verification runs come with the end of a job, and not before. *)
LEMMA RunsKept ==
  ASSUME FinalInv, [Next]_vars
  PROVE  RunsOfEndedJobs'
<1>1. TypedInv /\ jobs \in [Versions -> JobRow] /\ users \in [Users -> Request]
  BY DEF FinalInv, PaidInv, TypedInv, TypeOK
<1>a. \A u \in Users : AtWork(users[u]) => users[u].version \in Versions
  BY <1>1, RequestTyped DEF AtWork
<1>2. ASSUME \A x \in Versions, j \in Indices :
               checks[x][j].status = "none" => checks'[x][j].status = "none",
             \A x \in Versions : jobs'[x].status = "none" => jobs[x].status = "none",
             \A u \in Users : AtWork(users'[u]) =>
               \/ AtWork(users[u]) /\ users'[u].version = users[u].version
               \/ users'[u].version \in Versions /\ jobs[users'[u].version].status = "none"
      PROVE  RunsOfEndedJobs'
  BY <1>2, <1>a DEF FinalInv, RunsOfEndedJobs
<1>3. ASSUME NEW u \in Users, Commit(u)
      PROVE  RunsOfEndedJobs'
  <2> DEFINE v == users[u].version
  <2>1. AtWork(users[u]) /\ v \in Versions
    BY <1>3, <1>a DEF Commit, Through, Running, AtWork
  <2>2. PICK status : status # "none" /\ Finished(v, status)
    BY <1>3, EndsTyped DEF Commit
  <2>3. jobs'[v].status # "none" /\ \A x \in Versions \ {v} : jobs'[x] = jobs[x]
    BY <1>1, <2>1, <2>2 DEF Finished, JobRow
  <2>4. \A x \in Users : AtWork(users'[x]) =>
          AtWork(users[x]) /\ users'[x] = users[x] /\ users[x].version # v
    BY <1>1, <1>3, <2>1 DEF Commit, Becomes, Idle, AtWork, FinalInv, PaidInv, RunningOnce
  <2>5. \A x \in Versions \ {v}, j \in Indices : checks'[x][j] = checks[x][j]
    BY <1>3, CommitWritesOwn
  <2> QED BY <1>a, <2>3, <2>4, <2>5 DEF FinalInv, RunsOfEndedJobs
<1>4. ASSUME NEW u \in Users, NEW key \in Keys, Accept(u, key)
      PROVE  RunsOfEndedJobs'
  <2>1. PICK v \in Versions : /\ jobs[v].status = "none"
                              /\ jobs' = [jobs EXCEPT ![v] = [status |-> "running", key |-> key]]
                              /\ Becomes(u, [doing |-> "execute", version |-> v])
    BY <1>4 DEF Accept, KeyAndJobAreNew
  <2>2. \A x \in Versions : jobs'[x].status = "none" => jobs[x].status = "none"
    BY <1>1, <2>1
  <2>3. \A x \in Users : users'[x] = users[x] \/ users'[x] = [doing |-> "execute", version |-> v]
    BY <1>1, <2>1 DEF Becomes
  <2> QED BY <1>2, <1>4, <2>1, <2>2, <2>3 DEF Accept
<1>5. ASSUME NEW u \in Users, Approval(u) \/ Execution(u), ~Commit(u),
             ~\E key \in Keys : Accept(u, key)
      PROVE  RunsOfEndedJobs'
  <2>1. UNCHANGED checks
    BY <1>5 DEF Approval, StartFreeze, Freeze, FreezeRefused, StartDecide, Decide, DecideRefused,
                Execution, RecheckFails, StartRun, StartRaises, Take, RollBack, CommitRaises,
                CrashRequest
  <2>2. \A x \in Users : AtWork(users'[x]) =>
          AtWork(users[x]) /\ users'[x].version = users[x].version
    BY <1>1, <1>5, RequestsApart
  <2>3. UNCHANGED jobs \/ RecheckFails(u)
    BY <1>5 DEF Approval, StartFreeze, Freeze, FreezeRefused, StartDecide, Decide, DecideRefused,
                Execution, StartRun, StartRaises, Take, RollBack, CommitRaises, CrashRequest
  <2>4. \A x \in Versions : jobs'[x].status = "none" => jobs[x].status = "none"
    <3>1. CASE RecheckFails(u)
      <4>1. users[u].version \in Versions
        BY <1>a, <3>1 DEF RecheckFails, AtWork
      <4> QED BY <1>1, <3>1, <4>1 DEF RecheckFails, Finished, JobRow
    <3> QED BY <2>3, <3>1
  <2> QED BY <1>2, <2>1, <2>2, <2>4
<1>7. ASSUME NEW w \in Verifiers, Verification(w)
      PROVE  RunsOfEndedJobs'
  <2>1. UNCHANGED <<jobs, users>>
    BY <1>7 DEF Verification, Claim, Recheck, Load, Evaluate, EvaluateInVain, CrashVerifier
  <2>2. \A x \in Versions, j \in Indices :
          checks[x][j].status = "none" => checks'[x][j].status = "none"
    <3>1. UNCHANGED checks \/ Evaluate(w) \/ \E v \in Versions, i \in Indices : Claim(w, v, i)
      BY <1>7 DEF Verification, Recheck, Load, EvaluateInVain, CrashVerifier
    <3> QED BY <3>1, EvaluationRunsOn, ClaimRunsOn DEF RunOn
  <2> QED BY <1>2, <2>1, <2>2
<1>8. (\E v \in Versions : Expire(v)) \/ GraphWritesPlan \/ GraphMovesCase \/ UNCHANGED vars
        => UNCHANGED <<jobs, checks, users>>
  BY DEF Expire, GraphWritesPlan, GraphMovesCase, vars
<1> QED BY <1>2, <1>3, <1>4, <1>5, <1>7, <1>8 DEF Next

LEMMA FinalInit == Init => FinalInv
<1> SUFFICES ASSUME Init PROVE FinalInv
  OBVIOUS
<1>1. RunsOfEndedJobs
  BY DEF Init, RunsOfEndedJobs, NoRun, Idle, AtWork
<1>2. VerifiersOnRuns /\ RowsBehind
  BY DEF Init, VerifiersOnRuns, RowsBehind, Idle
<1> QED BY <1>1, <1>2, PaidInit DEF FinalInv

LEMMA FinalNext == FinalInv /\ [Next]_vars => FinalInv'
<1> SUFFICES ASSUME FinalInv, [Next]_vars PROVE FinalInv'
  OBVIOUS
<1>1. PaidInv'
  BY PaidNext DEF FinalInv
<1>2. RunsOfEndedJobs' /\ VerifiersOnRuns' /\ RowsBehind'
  BY <1>1, RunsKept, VerifiersKept DEF PaidInv, TypedInv
<1> QED BY <1>1, <1>2 DEF FinalInv

(* A verdict is never taken back, by however many verifiers, stalled or by hand,
   and not by a job that ends: the unique index on the rounds stops every
   evaluation of an old row. *)
THEOREM VerdictsAreFinal == Spec => VerdictsFinal
<1> DEFINE Kept == \A v \in Versions, i \in Indices :
                     checks[v][i].status \in {"verified", "regressed"} => checks'[v][i] = checks[v][i]
<1>1. FinalInv /\ [Next]_vars => [Kept]_vars
  BY StepRunsOn DEF RunOn, Final
<1> QED BY FinalInit, FinalNext, <1>1, PTL DEF Spec, VerdictsFinal

-----------------------------------------------------------------------------
(* A case is resolved on evidence only.                                    *)

(* Where a case is once something was verified on its behalf. *)
Settled == {"verifying", "resolved", "rolled_back", "escalated", "failed"}

(* One job of a case at most has verification runs: it needs a case that may
   be executed, which a case with verification runs never is again. *)
OneJobJudged ==
  \A v, x \in Versions, i, j \in Indices :
    checks[v][i].status # "none" /\ checks[x][j].status # "none" => v = x

JudgedCaseSettled ==
  \A v \in Versions, i \in Indices : checks[v][i].status # "none" => case \in Settled

(* The case is resolved with the verdicts it needs, and those are final. *)
EvidenceInv == FinalInv /\ OneJobJudged /\ JudgedCaseSettled /\ ResolvedMeansVerified

(* What it says, run by run. *)
LEMMA EvidenceOfRuns ==
  ResolvedMeansVerified <=>
    (case = "resolved" =>
       /\ \A v \in Versions, i \in Indices : checks[v][i].status \in {"none", "verified"}
       /\ \E v \in Versions, i \in Indices : checks[v][i].status = "verified")
<1> DEFINE all == {checks[v][i].status : v \in Versions, i \in Indices}
<1>1. \A s : s \in all <=> \E v \in Versions, i \in Indices : s = checks[v][i].status
  OBVIOUS
<1>2. ResolvedMeansVerified <=> (case = "resolved" => all \ {"none"} = {"verified"})
  BY DEF ResolvedMeansVerified
<1> HIDE DEF all
<1>3. all \ {"none"} = {"verified"} <=> all \subseteq {"none", "verified"} /\ "verified" \in all
  OBVIOUS
<1>4. all \subseteq {"none", "verified"} <=>
        \A v \in Versions, i \in Indices : checks[v][i].status \in {"none", "verified"}
  <2>1. ASSUME all \subseteq {"none", "verified"}, NEW v \in Versions, NEW i \in Indices
        PROVE  checks[v][i].status \in {"none", "verified"}
    BY <1>1, <2>1
  <2>2. ASSUME \A v \in Versions, i \in Indices : checks[v][i].status \in {"none", "verified"},
               NEW s \in all
        PROVE  s \in {"none", "verified"}
    <3>1. PICK v \in Versions, i \in Indices : s = checks[v][i].status
      BY <1>1, <2>2
    <3> QED BY <2>2, <3>1
  <2> QED BY <2>1, <2>2
<1>5. "verified" \in all <=> \E v \in Versions, i \in Indices : checks[v][i].status = "verified"
  BY <1>1
<1> QED BY <1>2, <1>3, <1>4, <1>5

(* No status of a settled case leads to an execution, to an approval or back
   to the planning. *)
LEMMA SettledStays ==
  ASSUME NEW c \in Settled
  PROVE  /\ ~CanMove(c, "executing") /\ ~CanMove(c, "awaiting_approval") /\ ~CanMove(c, "planning")
         /\ Allowed[c] \subseteq Settled
  BY DEF Settled, CanMove, Allowed, GiveUp

(* How an outcome without a failure leaves its verification run. *)
LEMMA RunsWithoutFailure ==
  ASSUME NEW kind \in Kinds, NEW outcome \in OutcomesOf(kind),
         outcome \notin {"blocked", "no_baseline", "failed"}
  PROVE  /\ outcome \in {"skipped", "done"} => RunAfter(kind, outcome).status = "none"
         /\ outcome = "verified" => RunAfter(kind, outcome).status = "verified"
         /\ outcome \in {"skipped", "done"} \cup Verdict
<1>1. CASE kind = "manual"
  BY <1>1 DEF OutcomesOf, RunAfter, NoRun
<1>2. CASE kind = "readonly"
  BY <1>2 DEF OutcomesOf, RunAfter, NoRun
<1>3. CASE kind = "mutation"
  BY <1>3 DEF OutcomesOf, RunAfter, Verdicts, Verdict
<1> QED BY <1>1, <1>2, <1>3 DEF Kinds

(* A job that ends with verification runs settles the case, and resolves it
   only if all of them, and one at least, are verified. *)
LEMMA EndsOnEvidence ==
  ASSUME NEW content \in Contents, NEW o \in Done,
         \A i \in 1 .. Len(Actions[content]) : o[i] \in OutcomesOf(Actions[content][i]),
         ~Rolls(content, o) => Len(o) = Len(Actions[content])
  PROVE  LET kinds == Actions[content]
             After(i) == RunAfter(kinds[i], o[i]).status
             end == Ending(content, o) IN
         /\ \/ end.case \in Settled
            \/ \A i \in DOMAIN kinds : After(i) = "none"
         /\ end.case = "resolved" =>
              /\ \A i \in DOMAIN kinds : After(i) \in {"none", "verified"}
              /\ \E i \in DOMAIN kinds : After(i) = "verified"
<1> DEFINE kinds == Actions[content]
           After(i) == RunAfter(kinds[i], o[i]).status
           judged == {i \in DOMAIN o : o[i] \in Verdict}
           end == Ending(content, o)
<1>1. /\ DOMAIN kinds = 1 .. Len(kinds)
      /\ \A i \in DOMAIN kinds : kinds[i] \in Kinds /\ o[i] \in OutcomesOf(kinds[i])
  BY ActionsTyped
<1>0. ~Failed(o) => DOMAIN o = DOMAIN kinds
  BY <1>1, LenProperties DEF Rolls, Done
<1>2. ASSUME ~Failed(o), NEW i \in DOMAIN kinds
      PROVE  /\ o[i] \in {"skipped", "done"} => After(i) = "none"
             /\ o[i] = "verified" => After(i) = "verified"
             /\ o[i] \in {"skipped", "done"} \cup Verdict
  BY <1>0, <1>1, <1>2, RunsWithoutFailure DEF Failed
<1>3. CASE Failed(o)
  <2>1. end.case \in {"rolled_back", "escalated", "verifying"}
    BY <1>3 DEF Ending, End
  <2> QED BY <2>1 DEF Settled
<1>4. CASE Succeeded(o) /\ ~Failed(o) /\ ~AllVerified(kinds, o)
  <2>1. end.case = "verifying"
    BY <1>4 DEF Ending, End, Rolls
  <2> QED BY <2>1 DEF Settled
<1>5. CASE Succeeded(o) /\ ~Failed(o) /\ AllVerified(kinds, o)
  <2>1. end.case = CaseDuring(kinds, o, Len(kinds))
    BY <1>5 DEF Ending, End, Rolls
  <2>2. judged # {} /\ \A i \in judged : o[i] = "verified"
    BY <1>5 DEF AllVerified
  <2>4. {j \in 1 .. Len(kinds) : o[j] \in Verdict} # {}
    BY <1>0, <1>1, <1>5, <2>2
  <2>5. end.case \in Settled
    BY <2>1, <2>4, CaseForTyped DEF CaseDuring, Settled
  <2>6. \A i \in DOMAIN kinds : After(i) \in {"none", "verified"}
    BY <1>0, <1>1, <1>2, <1>5, <2>2
  <2>7. \E i \in DOMAIN kinds : After(i) = "verified"
    BY <1>0, <1>1, <1>2, <1>5, <2>2
  <2> QED BY <2>5, <2>6, <2>7
<1>6. CASE ~Succeeded(o) /\ ~Failed(o)
  <2>1. end.case = "planned"
    BY <1>6 DEF Ending, End, Rolls
  <2>2. \A i \in DOMAIN kinds : After(i) = "none"
    BY <1>0, <1>1, <1>2, <1>6 DEF Succeeded
  <2> QED BY <2>1, <2>2
<1> QED BY <1>3, <1>4, <1>5, <1>6

(* The end of a job brings the first verification runs of the case. *)
LEMMA CommitOnEvidence ==
  ASSUME EvidenceInv, NEW u \in Users, Commit(u)
  PROVE  OneJobJudged' /\ JudgedCaseSettled' /\ ResolvedMeansVerified'
<1> DEFINE v == users[u].version
           o == users[u].done
           content == Content(u)
           kinds == Actions[content]
<1>0. TypeOK /\ RunsTyped /\ Running(u) /\ Through(u)
  BY DEF Commit, Through, EvidenceInv, FinalInv, PaidInv, TypedInv
<1>1. CanMove(case, "executing")
  BY <1>0 DEF EvidenceInv, FinalInv, PaidInv, RunsCovered
<1>2. \A x \in Versions, j \in Indices : checks[x][j].status = "none"
  BY <1>1, SettledStays DEF EvidenceInv, JudgedCaseSettled
<1>3. /\ v \in Versions /\ checks \in [Versions -> [Indices -> RunRow]]
      /\ content \in Contents /\ o \in Done /\ Steps(u) = kinds
  BY <1>0, RunTyped DEF TypeOK
<1>4. /\ case' = Ending(content, o).case
      /\ checks' = [checks EXCEPT ![v] =
           [i \in Indices |-> IF i <= Len(kinds) THEN RunAfter(kinds[i], o[i]) ELSE NoRun]]
  BY <1>3 DEF Commit
<1>5. /\ \A i \in 1 .. Len(kinds) : o[i] \in OutcomesOf(kinds[i])
      /\ ~Rolls(content, o) => Len(o) = Len(kinds)
  BY <1>0, <1>3, RunIsThrough
<1>7. /\ DOMAIN kinds = 1 .. Len(kinds) /\ Len(kinds) \in Nat
      /\ DOMAIN kinds \subseteq Indices
      /\ \A i \in Indices : i <= Len(kinds) <=> i \in DOMAIN kinds
  BY <1>3, ActionsTyped DEF Indices
<1>8. /\ \A x \in Versions \ {v} : checks'[x] = checks[x]
      /\ \A i \in Indices : checks'[v][i] = IF i <= Len(kinds) THEN RunAfter(kinds[i], o[i]) ELSE NoRun
  BY <1>3, <1>4
<1>9. /\ \A x \in Versions \ {v}, j \in Indices : checks'[x][j].status = "none"
      /\ \A i \in DOMAIN kinds : checks'[v][i].status = RunAfter(kinds[i], o[i]).status
      /\ \A i \in Indices \ DOMAIN kinds : checks'[v][i].status = "none"
  BY <1>2, <1>7, <1>8 DEF NoRun
<1>10. /\ \/ case' \in Settled
          \/ \A i \in DOMAIN kinds : RunAfter(kinds[i], o[i]).status = "none"
       /\ case' = "resolved" =>
            /\ \A i \in DOMAIN kinds : RunAfter(kinds[i], o[i]).status \in {"none", "verified"}
            /\ \E i \in DOMAIN kinds : RunAfter(kinds[i], o[i]).status = "verified"
  <2> HIDE DEF content, o
  <2> QED BY <1>3, <1>4, <1>5, EndsOnEvidence
<1> HIDE DEF kinds, content, v, o
<1>11. OneJobJudged'
  <2>1. \A x \in Versions, j \in Indices : checks'[x][j].status # "none" => x = v
    BY <1>9
  <2> QED BY <2>1 DEF OneJobJudged
<1>12. JudgedCaseSettled'
  BY <1>9, <1>10 DEF JudgedCaseSettled
<1>13. case' = "resolved" =>
         /\ \A x \in Versions, j \in Indices : checks'[x][j].status \in {"none", "verified"}
         /\ \E x \in Versions, j \in Indices : checks'[x][j].status = "verified"
  BY <1>3, <1>7, <1>9, <1>10
<1>14. ResolvedMeansVerified'
  BY <1>13 DEF ResolvedMeansVerified
<1> QED BY <1>11, <1>12, <1>14

(* An evaluation that goes through is of a run without a final verdict, so of a
   case that is not resolved; it resolves the case as the last of its job's. *)
LEMMA EvaluationOnEvidence ==
  ASSUME EvidenceInv, NEW w \in Verifiers, Evaluate(w)
  PROVE  OneJobJudged' /\ JudgedCaseSettled' /\ ResolvedMeansVerified'
<1> DEFINE v == verifiers[w].version
           i == verifiers[w].index
           seen == verifiers[w].seen
<1>1. \A x \in Versions, j \in Indices : checks[x][j] \in RunRow
  BY DEF EvidenceInv, FinalInv, PaidInv, TypedInv, TypeOK
<1>2. v \in Versions /\ i \in Indices /\ seen \in RunRow
  BY VerifyingTyped DEF Evaluate, EvidenceInv, FinalInv, PaidInv, TypedInv, TypeOK
<1>3. checks[v][i].status # "none"
  BY DEF Evaluate, EvidenceInv, FinalInv, VerifiersOnRuns
<1>4. PICK verdict \in Verdicts(seen.rounds + 1) :
        /\ case' = CaseFor(verdict, Siblings(v, i))
        /\ checks' = [checks EXCEPT ![v][i] =
             [status |-> IF verdict = seen.status THEN @.status ELSE verdict,
              rounds |-> seen.rounds + 1]]
  BY DEF Evaluate
<1> DEFINE row == [status |-> IF verdict = seen.status THEN checks[v][i].status ELSE verdict,
                   rounds |-> seen.rounds + 1]
<1>5. row.status # "none" /\ (verdict = "verified" => row.status = "verified")
  BY <1>3 DEF Verdicts, Evaluate, Final
<1>6. checks' = [checks EXCEPT ![v] = [checks[v] EXCEPT ![i] = row]]
  BY <1>4
<1>7. Siblings(v, i) = {checks[v][j].status : j \in Indices \ {i}}
  BY DEF Siblings
<1> HIDE DEF row, v, i
<1>8. /\ checks'[v][i] = row
      /\ \A x \in Versions, j \in Indices : x # v \/ j # i => checks'[x][j] = checks[x][j]
  BY <1>2, <1>6 DEF EvidenceInv, FinalInv, PaidInv, TypedInv, TypeOK
<1>9. \A x \in Versions, j \in Indices : checks'[x][j].status # "none" <=> checks[x][j].status # "none"
  BY <1>3, <1>5, <1>8
<1>10. \A x \in Versions, j \in Indices : checks[x][j].status # "none" => x = v
  BY <1>2, <1>3 DEF EvidenceInv, OneJobJudged
<1>11. OneJobJudged'
  BY <1>9, <1>10 DEF OneJobJudged
<1>12. JudgedCaseSettled'
  BY <1>4, CaseForTyped DEF JudgedCaseSettled, Settled
<1>13. ASSUME case' = "resolved"
       PROVE  /\ \A x \in Versions, j \in Indices : checks'[x][j].status \in {"none", "verified"}
              /\ \E x \in Versions, j \in Indices : checks'[x][j].status = "verified"
  <2>1. verdict = "verified" /\ Siblings(v, i) \subseteq {"none", "verified"}
    BY <1>4, <1>13 DEF CaseFor
  <2>2. checks'[v][i].status = "verified"
    BY <1>5, <1>8, <2>1
  <2>3. \A j \in Indices \ {i} : checks'[v][j].status \in {"none", "verified"}
    BY <1>2, <1>7, <1>8, <2>1
  <2>4. \A x \in Versions \ {v}, j \in Indices : checks'[x][j].status = "none"
    BY <1>9, <1>10
  <2> QED BY <1>2, <2>2, <2>3, <2>4
<1>14. ResolvedMeansVerified'
  BY <1>13 DEF ResolvedMeansVerified
<1> QED BY <1>11, <1>12, <1>14

(* A run that can be claimed has no verdict, so the case is not resolved. *)
LEMMA ClaimOnEvidence ==
  ASSUME EvidenceInv, NEW w \in Verifiers, NEW v \in Versions, NEW i \in Indices, Claim(w, v, i)
  PROVE  OneJobJudged' /\ JudgedCaseSettled' /\ ResolvedMeansVerified'
<1>1. \A x \in Versions, j \in Indices : RunOn(checks[x][j], checks'[x][j])
  BY ClaimRunsOn DEF EvidenceInv
<1>2. \A x \in Versions, j \in Indices : checks'[x][j].status # "none" <=> checks[x][j].status # "none"
  BY <1>1 DEF RunOn
<1>3. case' = case /\ checks[v][i].status \in {"pending", "checking"}
  BY DEF Claim, Due
<1>4. case # "resolved"
  BY <1>3, EvidenceOfRuns DEF EvidenceInv
<1>5. OneJobJudged' /\ JudgedCaseSettled'
  BY <1>2, <1>3 DEF EvidenceInv, OneJobJudged, JudgedCaseSettled
<1> QED BY <1>3, <1>4, <1>5 DEF ResolvedMeansVerified

(* Whoever else moves the case does not resolve it, nor takes it from where
   verification left it. *)
LEMMA CaseMovesOn ==
  ASSUME EvidenceInv, [Next]_vars,
         \A u \in Users : ~Commit(u), \A w \in Verifiers : ~Evaluate(w)
  PROVE  \/ UNCHANGED case
         \/ case' # "resolved" /\ (case \in Settled => case' \in Settled)
<1>1. ASSUME NEW u \in Users, Approval(u) \/ Execution(u)
      PROVE  UNCHANGED case \/ (case' # "resolved" /\ case \notin Settled)
  <2>1. CASE Freeze(u)
    BY <2>1, SettledStays DEF Freeze
  <2>2. CASE Decide(u)
    <3>1. UNCHANGED case \/ (CanMove(case, "planning") /\ case' = "planning")
      BY <2>2 DEF Decide, CloseVersion, Approve, Reject
    <3> QED BY <3>1, SettledStays
  <2>3. CASE ~(Freeze(u) \/ Decide(u))
    BY <1>1, <2>3 DEF Approval, StartFreeze, FreezeRefused, StartDecide, DecideRefused,
                      Execution, Accept, RecheckFails, StartRun, StartRaises, Take, RollBack,
                      CommitRaises, CrashRequest
  <2> QED BY <2>1, <2>2, <2>3
<1>2. ASSUME NEW w \in Verifiers, Verification(w)
      PROVE  UNCHANGED case
  BY <1>2 DEF Verification, Claim, Recheck, Load, EvaluateInVain, CrashVerifier
<1>3. GraphMovesCase => case' # "resolved" /\ (case \in Settled => case' \in Settled)
  BY SettledStays DEF GraphMovesCase
<1>4. (\E v \in Versions : Expire(v)) \/ GraphWritesPlan \/ UNCHANGED vars => UNCHANGED case
  BY DEF Expire, GraphWritesPlan, vars
<1> QED BY <1>1, <1>2, <1>3, <1>4 DEF Next

LEMMA EvidenceNext ==
  ASSUME EvidenceInv, [Next]_vars
  PROVE  EvidenceInv'
<1>1. FinalInv'
  BY FinalNext DEF EvidenceInv
<1>2. CASE \E u \in Users : Commit(u)
  BY <1>1, <1>2, CommitOnEvidence DEF EvidenceInv
<1>3. CASE \E w \in Verifiers : Evaluate(w)
  BY <1>1, <1>3, EvaluationOnEvidence DEF EvidenceInv
<1>4. CASE \E w \in Verifiers, v \in Versions, i \in Indices : Claim(w, v, i)
  BY <1>1, <1>4, ClaimOnEvidence DEF EvidenceInv
<1>5. CASE /\ \A u \in Users : ~Commit(u)
           /\ \A w \in Verifiers : ~Evaluate(w)
           /\ \A w \in Verifiers, v \in Versions, i \in Indices : ~Claim(w, v, i)
  <2>1. UNCHANGED checks
    <3>1. ASSUME NEW u \in Users, Approval(u) \/ Execution(u)
          PROVE  UNCHANGED checks
      BY <1>5, <3>1 DEF Approval, StartFreeze, Freeze, FreezeRefused, StartDecide, Decide,
                  DecideRefused, Execution, Accept, RecheckFails, StartRun, StartRaises, Take,
                  RollBack, CommitRaises, CrashRequest
    <3>2. ASSUME NEW w \in Verifiers, Verification(w)
          PROVE  UNCHANGED checks
      BY <1>5, <3>2 DEF Verification, Recheck, Load, EvaluateInVain, CrashVerifier
    <3>3. (\E v \in Versions : Expire(v)) \/ GraphWritesPlan \/ GraphMovesCase \/ UNCHANGED vars
            => UNCHANGED checks
      BY DEF Expire, GraphWritesPlan, GraphMovesCase, vars
    <3> QED BY <3>1, <3>2, <3>3 DEF Next
  <2>2. UNCHANGED case \/ (case' # "resolved" /\ (case \in Settled => case' \in Settled))
    BY <1>5, CaseMovesOn
  <2>3. OneJobJudged' /\ JudgedCaseSettled'
    BY <2>1, <2>2 DEF EvidenceInv, OneJobJudged, JudgedCaseSettled
  <2>4. ResolvedMeansVerified'
    BY <2>1, <2>2 DEF EvidenceInv, ResolvedMeansVerified
  <2> QED BY <1>1, <2>3, <2>4 DEF EvidenceInv
<1> QED BY <1>2, <1>3, <1>4, <1>5

LEMMA EvidenceInit ==
  ASSUME "resolved" \notin CaseStart, Init
  PROVE  EvidenceInv
<1>1. \A v \in Versions, i \in Indices : checks[v][i].status = "none"
  BY DEF Init, NoRun
<1>2. case # "resolved"
  BY DEF Init
<1> QED BY <1>1, <1>2, FinalInit DEF EvidenceInv, OneJobJudged, JudgedCaseSettled,
                                     ResolvedMeansVerified

(* A case that was not resolved when its plan came up is resolved only on
   evidence: there is a verification run, and all there are, of whatever job, are
   verified; whatever else happens, nothing is left of a job that failed, is
   pending or was taken over by another verifier. *)
THEOREM ResolvedOnEvidence ==
  ASSUME "resolved" \notin CaseStart
  PROVE  Spec => []ResolvedMeansVerified
<1>1. Init => EvidenceInv
  BY EvidenceInit
<1>2. EvidenceInv /\ [Next]_vars => EvidenceInv'
  BY EvidenceNext
<1>3. EvidenceInv => ResolvedMeansVerified
  BY DEF EvidenceInv
<1> QED BY <1>1, <1>2, <1>3, PTL DEF Spec
=============================================================================
