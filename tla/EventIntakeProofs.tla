-------------------------- MODULE EventIntakeProofs --------------------------
(* Proofs about EventIntake, for every set of events, devices and handlers,
   every topology and threshold, and every bound. *)
EXTENDS EventIntake, SequenceTheorems, FiniteSetTheorems, TLAPS

-----------------------------------------------------------------------------
(* Least and greatest elements.                                            *)

(* A set of naturals has a least element: the intervals below its elements are
   finite, and strict inclusion of finite sets is well-founded. *)
LEMMA LeastOf ==
  ASSUME NEW S \in SUBSET Nat, S # {}
  PROVE  Min(S) \in S /\ \A x \in S : Min(S) <= x
<1> DEFINE below == {0 .. x : x \in S}
<1>1. below \subseteq FiniteSubsetsOf(Nat) /\ below # {}
  <2>1. ASSUME NEW x \in S
        PROVE  0 .. x \in FiniteSubsetsOf(Nat)
    <3>1. x \in Nat /\ 0 \in Int /\ x \in Int
      OBVIOUS
    <3>2. IsFiniteSet(0 .. x) /\ 0 .. x \in SUBSET Nat
      BY <3>1, FS_Interval
    <3> QED BY <3>1, <3>2 DEF FiniteSubsetsOf
  <2> QED BY <2>1
<1>2. IsWellFoundedOn(StrictSubsetOrdering(Nat), FiniteSubsetsOf(Nat))
  BY FS_StrictSubsetOrderingWellFounded
<1> HIDE DEF below
<1>3. PICK least \in below : \A b \in below : ~ (<<b, least>> \in StrictSubsetOrdering(Nat))
  BY <1>1, <1>2, WFMin
<1> USE DEF below
<1>4. PICK m \in S : least = 0 .. m
  BY <1>3
<1>5. ASSUME NEW x \in S, x < m
      PROVE  FALSE
  <2>1. 0 .. x \subseteq 0 .. m /\ 0 .. x # 0 .. m /\ 0 .. m \subseteq Nat
    BY <1>5
  <2>2. <<0 .. x, 0 .. m>> \in StrictSubsetOrdering(Nat)
    BY <2>1 DEF StrictSubsetOrdering
  <2> QED BY <1>3, <1>4, <2>2
<1>6. \A x \in S : m <= x
  BY <1>5
<1> QED BY <1>6 DEF Min

(* A bounded set of naturals has a greatest one: what it lacks of the bound is
   least. *)
LEMMA GreatestOf ==
  ASSUME NEW n \in Nat, NEW S \in SUBSET (1 .. n), S # {}
  PROVE  Max(S) \in S /\ \A x \in S : x <= Max(S)
<1> DEFINE lacks == {n - x : x \in S}
<1>1. lacks \in SUBSET Nat /\ lacks # {}
  <2>1. ASSUME NEW x \in S
        PROVE  n - x \in Nat
    <3>1. x \in 1 .. n
      OBVIOUS
    <3> QED BY <3>1
  <2> QED BY <2>1
<1>2. PICK k \in lacks : \A l \in lacks : k <= l
  <2> HIDE DEF lacks
  <2> QED BY <1>1, LeastOf
<1>3. PICK m \in S : k = n - m
  BY <1>2
<1>4. \A x \in S : m >= x
  <2>1. ASSUME NEW x \in S
        PROVE  m >= x
    <3>1. n - m <= n - x
      BY <1>2, <1>3
    <3> QED BY <3>1
  <2> QED BY <2>1
<1> QED BY <1>4 DEF Max

-----------------------------------------------------------------------------
(* What holds of a handler's work.                                         *)

(* Everything the types say, with the event loop's one runner put as a fact about
   any two of them. *)
Typed ==
  /\ rows \in [Events -> Row]
  /\ canonical \in [Events -> Dispositions \cup {"none"}]
  /\ cases \in Seq(Case)
  /\ graphs \subseteq DOMAIN cases
  /\ requests \in [Requests -> Request]
  /\ modes \in [auto : BOOLEAN, external : BOOLEAN]
  /\ env \in [EnvKinds -> Nat]

OneRuns ==
  \A p, q \in Requests : requests[p].at \notin Waiting /\ requests[q].at \notin Waiting => p = q

(* The case of this number is there, and is the event's own or took its evidence. *)
Backed(e, c) == c \in DOMAIN cases /\ (cases[c].event = e \/ e \in cases[c].derived)

(* What a handler remembers was read from the store or written there by itself:
   the row it loaded, the case it found or opened, the cases it may merge into.
   Cases are never deleted and evidence is never taken back, so it stays true
   however long the handler waits. *)
Remembered(r) ==
  /\ r.seen.case # 0 => Backed(r.event, r.seen.case)
  /\ r.at \in {"projecting", "dispatching", "triggering"} => Backed(r.event, r.case)
  /\ r.parents \subseteq DOMAIN cases

RowsBacked == \A e \in Events : rows[e].case # 0 => Backed(e, rows[e].case)

IntakeInv ==
  /\ Typed /\ OneRuns
  /\ \A q \in Requests : Remembered(requests[q])
  /\ RowsBacked
  /\ OneCasePerEvent

(* The cases only grow: none goes, none changes its event, no evidence is lost. *)
Grown ==
  /\ DOMAIN cases \subseteq DOMAIN cases'
  /\ \A c \in DOMAIN cases : /\ cases'[c].event = cases[c].event
                             /\ cases[c].derived \subseteq cases'[c].derived

LEMMA BackedStays ==
  ASSUME Grown, NEW e, NEW c, Backed(e, c)
  PROVE  Backed(e, c)'
BY DEF Grown, Backed

LEMMA RememberedStays ==
  ASSUME Grown, NEW r, Remembered(r)
  PROVE  Remembered(r)'
<1>1. r.seen.case # 0 => Backed(r.event, r.seen.case)'
  BY BackedStays DEF Remembered
<1>2. r.at \in {"projecting", "dispatching", "triggering"} => Backed(r.event, r.case)'
  BY BackedStays DEF Remembered
<1>3. r.parents \subseteq DOMAIN cases'
  BY DEF Remembered, Grown
<1> QED BY <1>1, <1>2, <1>3 DEF Remembered

LEMMA IdleRemembered == Idle \in Request /\ Idle.at = "idle" /\ Remembered(Idle)
BY IntakeAssumption DEF Idle, Request, NoRow, Row, Remembered, Dispositions

LEMMA IdleRememberedNext == Remembered(Idle)'
<1>1. Idle.seen.case = 0 /\ Idle.at = "idle" /\ Idle.parents = {}
  BY DEF Idle, NoRow
<1> QED BY <1>1 DEF Remembered

(* A row that the store takes over is backed if its writer's was. *)
LEMMA RowsBackedStep ==
  ASSUME IntakeInv, Grown, NEW e \in Events, NEW row \in Row,
         rows' = [rows EXCEPT ![e] = row],
         row.case # 0 => Backed(e, row.case)'
  PROVE  RowsBacked'
<1>1. ASSUME NEW f \in Events, NEW k, k = rows'[f].case, k # 0
      PROVE  Backed(f, k)'
  <2>1. CASE f = e
    <3>1. rows'[f] = row
      BY <2>1 DEF IntakeInv, Typed
    <3>2. k = row.case
      BY <1>1, <3>1
    <3> QED BY <1>1, <2>1, <3>2
  <2>2. CASE f # e
    <3>1. rows'[f] = rows[f]
      BY <2>2 DEF IntakeInv, Typed
    <3>2. Backed(f, k)
      BY <1>1, <3>1 DEF IntakeInv, RowsBacked
    <3> QED BY <3>2, BackedStays
  <2> QED BY <2>1, <2>2
<1> QED BY <1>1 DEF RowsBacked, Backed

LEMMA RowsKeptBacked ==
  ASSUME IntakeInv, Grown, UNCHANGED rows
  PROVE  RowsBacked'
<1>1. ASSUME NEW f \in Events, NEW k, k = rows'[f].case, k # 0
      PROVE  Backed(f, k)'
  <2>1. Backed(f, k)
    BY <1>1 DEF IntakeInv, RowsBacked
  <2> QED BY <2>1, BackedStays
<1> QED BY <1>1 DEF RowsBacked, Backed

(* One handler goes from its row to the next; the others stand where they are. *)
LEMMA RequestsStep ==
  ASSUME IntakeInv, Grown, NEW q \in Requests, NEW r \in Request,
         requests' = [requests EXCEPT ![q] = r],
         \/ r.at \in Waiting
         \/ \A p \in Requests \ {q} : requests[p].at \in Waiting,
         Remembered(r)'
  PROVE  /\ requests' \in [Requests -> Request]
         /\ OneRuns'
         /\ (\A p \in Requests : Remembered(requests[p]))'
<1>1. requests \in [Requests -> Request]
  BY DEF IntakeInv, Typed
<1>2. requests' \in [Requests -> Request]
  BY <1>1
<1>3. \A p \in Requests : requests'[p] = IF p = q THEN r ELSE requests[p]
  BY <1>1
<1>7. \A p, o \in Requests :
        requests[p].at \notin Waiting /\ requests[o].at \notin Waiting => p = o
  BY DEF IntakeInv, OneRuns
<1>4. OneRuns'
  <2>1. ASSUME NEW p \in Requests, NEW o \in Requests,
               requests'[p].at \notin Waiting, requests'[o].at \notin Waiting
        PROVE  p = o
    BY <1>3, <1>7, <2>1
  <2> QED BY <2>1 DEF OneRuns
<1>5. ASSUME NEW p \in Requests, NEW row, row = requests'[p]
      PROVE  Remembered(row)'
  <2>1. CASE p = q
    <3>1. row = r
      BY <1>3, <1>5, <2>1
    <3> QED BY <3>1
  <2>2. CASE p # q
    <3>1. row = requests[p]
      BY <1>3, <1>5, <2>2
    <3>2. Remembered(row)
      BY <3>1 DEF IntakeInv
    <3> QED BY <3>2, RememberedStays
  <2> QED BY <2>1, <2>2
<1>6. (\A p \in Requests : Remembered(requests[p]))'
  BY <1>5 DEF Remembered, Backed
<1> QED BY <1>2, <1>4, <1>6

-----------------------------------------------------------------------------
(* What the handlers compute.                                              *)

(* A case never goes when one is opened, closed or given evidence. *)
LEMMA SameCasesGrown ==
  ASSUME UNCHANGED cases
  PROVE  Grown
BY DEF Grown

LEMMA AppendGrown ==
  ASSUME NEW case \in Case, cases \in Seq(Case), cases' = Append(cases, case)
  PROVE  /\ Grown /\ cases' \in Seq(Case)
         /\ Len(cases') = Len(cases) + 1 /\ cases'[Len(cases) + 1] = case
         /\ \A c \in DOMAIN cases : cases'[c] = cases[c]
         /\ DOMAIN cases = 1 .. Len(cases) /\ DOMAIN cases' = 1 .. Len(cases) + 1
         /\ Len(cases) \in Nat
BY DEF Grown

LEMMA ChangeGrown ==
  ASSUME cases \in Seq(Case), NEW c \in DOMAIN cases, NEW row \in Case,
         cases' = [cases EXCEPT ![c] = row],
         row.event = cases[c].event, cases[c].derived \subseteq row.derived
  PROVE  /\ Grown /\ cases' \in Seq(Case) /\ DOMAIN cases' = DOMAIN cases
         /\ cases'[c] = row /\ \A d \in DOMAIN cases : cases'[d].event = cases[d].event
BY DEF Grown

(* Once filed, an event keeps the one case it has. *)
LEMMA OneCaseStays ==
  ASSUME OneCasePerEvent, DOMAIN cases' = DOMAIN cases,
         \A c \in DOMAIN cases : cases'[c].event = cases[c].event
  PROVE  OneCasePerEvent'
BY DEF OneCasePerEvent

(* Whatever is reached has a distance. *)
LEMMA UpstreamIsAway ==
  ASSUME NEW start, NEW silent, NEW p \in DOMAIN Upstream(start, silent)
  PROVE  Upstream(start, silent)[p] \in Nat
<1> DEFINE Away(W) == [d \in W[MaxHops] \ {start} |-> Min({n \in 1 .. MaxHops : d \in W[n]})]
<1>1. PICK W : Upstream(start, silent) = Away(W)
  BY DEF Upstream
<1>2. p \in W[MaxHops] \ {start}
  BY <1>1
<1>3. MaxHops \in {n \in 1 .. MaxHops : p \in W[n]}
  BY <1>2, IntakeAssumption
<1>4. {n \in 1 .. MaxHops : p \in W[n]} \in SUBSET Nat
  OBVIOUS
<1>5. Min({n \in 1 .. MaxHops : p \in W[n]}) \in Nat
  BY <1>3, <1>4, LeastOf
<1> QED BY <1>1, <1>2, <1>5

(* The parent is one of the open cases that the handler found. *)
LEMMA ParentWasFound ==
  ASSUME NEW n \in Nat, NEW parents \in SUBSET (1 .. n), NEW hops,
         \A p \in DOMAIN hops : hops[p] \in Nat,
         Parent(parents, hops) # 0
  PROVE  Parent(parents, hops) \in parents
<1> DEFINE upstream == {c \in parents : Anchor(c) \in DOMAIN hops}
           nearest  == {c \in upstream : \A d \in upstream : hops[Anchor(c)] <= hops[Anchor(d)]}
           distances == {hops[Anchor(c)] : c \in upstream}
<1>1. upstream # {} /\ Parent(parents, hops) = Max(nearest)
  BY DEF Parent
<1>2. distances \in SUBSET Nat /\ distances # {}
  BY <1>1
<1>3. Min(distances) \in distances /\ \A x \in distances : Min(distances) <= x
  <2> HIDE DEF distances
  <2> QED BY <1>2, LeastOf
<1>4. nearest # {}
  <2>1. PICK c \in upstream : hops[Anchor(c)] = Min(distances)
    BY <1>3
  <2>2. \A d \in upstream : hops[Anchor(c)] <= hops[Anchor(d)]
    BY <1>3, <2>1
  <2> QED BY <2>2
<1>5. nearest \in SUBSET (1 .. n) /\ nearest \subseteq parents
  OBVIOUS
<1>6. Max(nearest) \in nearest
  <2> HIDE DEF nearest
  <2> QED BY <1>4, <1>5, GreatestOf
<1> QED BY <1>1, <1>5, <1>6

LEMMA HitWasFound ==
  ASSUME IntakeInv, NEW q \in Requests, NEW silent, Hit(q, silent) # 0
  PROVE  Hit(q, silent) \in DOMAIN cases
<1> DEFINE hops == Upstream(DeviceOf[requests[q].event], silent)
<1>1. DOMAIN cases = 1 .. Len(cases) /\ Len(cases) \in Nat
  BY DEF IntakeInv, Typed
<1>2. requests[q].parents \in SUBSET (1 .. Len(cases))
  BY <1>1 DEF IntakeInv, Remembered
<1>3. \A p \in DOMAIN hops : hops[p] \in Nat
  BY UpstreamIsAway
<1>4. Parent(requests[q].parents, hops) # 0 /\ Hit(q, silent) = Parent(requests[q].parents, hops)
  BY DEF Hit
<1> HIDE DEF hops
<1>5. Parent(requests[q].parents, hops) \in requests[q].parents
  BY <1>1, <1>2, <1>3, <1>4, ParentWasFound
<1> QED BY <1>1, <1>2, <1>4, <1>5

(* The case an event already has is a case, and its own. *)
LEMMA OwnCaseIsOwn ==
  ASSUME cases \in Seq(Case), NEW e, OwnCases(e) # {}
  PROVE  Max(OwnCases(e)) \in DOMAIN cases /\ cases[Max(OwnCases(e))].event = e
<1>1. DOMAIN cases = 1 .. Len(cases) /\ Len(cases) \in Nat
  OBVIOUS
<1>2. OwnCases(e) \in SUBSET (1 .. Len(cases))
  BY <1>1 DEF OwnCases
<1>3. Max(OwnCases(e)) \in OwnCases(e)
  BY <1>1, <1>2, GreatestOf
<1> QED BY <1>3 DEF OwnCases

(* A decision is one of the three. *)
LEMMA DecisionTyped ==
  ASSUME NEW e, NEW row \in Row
  PROVE  Enriched(e, row) \in Dispositions
<1>1. Evaluate(e, row) \in Dispositions
  BY DEF Evaluate, Row, Dispositions
<1>2. \A judged \in Dispositions : judged \in Dispositions /\ "ticket_only" \in Dispositions
                                    /\ "case_required" \in Dispositions
  BY DEF Dispositions
<1> QED BY <1>1, <1>2 DEF Enriched

LEMMA HappensTyped ==
  ASSUME Typed, NEW kind \in EnvKinds, Happens(kind)
  PROVE  env' \in [EnvKinds -> Nat]
BY DEF Typed, Happens

LEMMA CaseRow ==
  ASSUME NEW e \in Events
  PROVE  [event |-> e, open |-> TRUE, derived |-> {}] \in Case
BY DEF Case

-----------------------------------------------------------------------------
(* Each handler keeps the invariant.                                       *)

LEMMA RowFields ==
  ASSUME NEW row \in Row
  PROVE  /\ row.case \in Nat
         /\ \A st \in {"none", "new", "correlated", "case_created", "closed"} :
              [row EXCEPT !.status = st] \in Row /\ [row EXCEPT !.status = st].case = row.case
         /\ Ticketed(row) \in Row /\ Ticketed(row).case = row.case
         /\ \A d \in Dispositions, st \in {"closed", "correlated"} :
              LET new == [row EXCEPT !.decision = d, !.status = st] IN
              new \in Row /\ new.case = row.case
         /\ \A c \in Nat, st \in {"correlated", "case_created"} :
              LET new == [row EXCEPT !.case = c, !.decision = "case_required", !.status = st] IN
              new \in Row /\ new.case = c
BY DEF Row, Ticketed, Dispositions

LEMMA RequestFields ==
  ASSUME IntakeInv, NEW q \in Requests
  PROVE  /\ requests[q] \in Request /\ Remembered(requests[q])
         /\ requests[q].event \in Events /\ requests[q].seen \in Row /\ requests[q].case \in Nat
         /\ requests[q].parents \subseteq DOMAIN cases
BY DEF IntakeInv, Typed, Request, Remembered

LEMMA OthersWait ==
  ASSUME IntakeInv, NEW q \in Requests, requests[q].at \notin Waiting \/ LoopFree
  PROVE  \A p \in Requests \ {q} : requests[p].at \in Waiting
BY DEF IntakeInv, OneRuns, LoopFree

(* A delivery, a disposal, a dispatch: the handler starts from the row it loads. *)
LEMMA Starts ==
  ASSUME IntakeInv, NEW q \in Requests, Free(q), UNCHANGED cases,
         NEW r \in Request, requests' = [requests EXCEPT ![q] = r], Remembered(r)
  PROVE  /\ Grown
         /\ requests' \in [Requests -> Request]
         /\ OneRuns'
         /\ (\A p \in Requests : Remembered(requests[p]))'
<1>1. Grown
  BY SameCasesGrown
<1>2. \A p \in Requests \ {q} : requests[p].at \in Waiting
  BY OthersWait DEF Free
<1>3. Remembered(r)'
  BY <1>1, RememberedStays
<1> QED BY <1>1, <1>2, <1>3, RequestsStep

(* The handler is done, or the whole process is. *)
LEMMA EndsWell ==
  ASSUME IntakeInv, Grown, NEW q \in Requests, Ends(q)
  PROVE  /\ requests' \in [Requests -> Request]
         /\ OneRuns'
         /\ (\A p \in Requests : Remembered(requests[p]))'
<1>1. Idle \in Request /\ Idle.at \in Waiting /\ Remembered(Idle)
  BY IdleRemembered DEF Waiting
<1>2. Remembered(Idle)'
  BY IdleRememberedNext
<1> QED BY <1>1, <1>2, RequestsStep DEF Ends

LEMMA IngestStep ==
  ASSUME IntakeInv, NEW q \in Requests, NEW e \in Events, NEW level \in LevelsOf[e],
         Ingest(q, e, level)
  PROVE  IntakeInv'
<1> DEFINE row == [NoRow EXCEPT !.status = "new", !.level = level]
           r == [Idle EXCEPT !.at = "upserted", !.event = e, !.seen = row]
<1>1. level \in 0 .. 5
  BY IntakeAssumption
<1>2. row \in Row /\ row.case = 0
  BY <1>1 DEF NoRow, Row, Dispositions
<1>3. r \in Request /\ r.at = "upserted" /\ r.seen.case = 0 /\ r.parents = {}
  BY <1>2, IntakeAssumption DEF Idle, Request
<1>4. /\ Free(q) /\ rows' = [rows EXCEPT ![e] = row]
      /\ requests' = [requests EXCEPT ![q] = r]
      /\ UNCHANGED <<canonical, cases, graphs, modes>>
  BY DEF Ingest
<1>5. env' \in [EnvKinds -> Nat]
  BY HappensTyped DEF Ingest, IntakeInv, EnvKinds
<1> HIDE DEF row, r
<1>6. Remembered(r)
  BY <1>3 DEF Remembered
<1>7. /\ Grown
      /\ requests' \in [Requests -> Request]
      /\ OneRuns'
      /\ (\A p \in Requests : Remembered(requests[p]))'
  BY <1>3, <1>4, <1>6, Starts
<1>8. RowsBacked'
  BY <1>2, <1>4, <1>7, RowsBackedStep
<1>9. OneCasePerEvent'
  BY <1>4 DEF OneCasePerEvent, IntakeInv
<1>10. rows' \in [Events -> Row]
  BY <1>2, <1>4 DEF IntakeInv, Typed
<1> QED BY <1>4, <1>5, <1>7, <1>8, <1>9, <1>10 DEF IntakeInv, Typed

LEMMA DecideStep ==
  ASSUME IntakeInv, NEW q \in Requests, Decide(q)
  PROVE  IntakeInv'
<1> DEFINE e == requests[q].event
           d == Enriched(e, rows[e])
           place == IF DeviceOf[e] # NoDevice /\ Parents(e) # {} THEN "correlating" ELSE "intake"
<1>1. e \in Events /\ requests[q] \in Request /\ Remembered(requests[q])
  BY RequestFields
<1>2. d \in Dispositions
  BY <1>1, DecisionTyped DEF IntakeInv, Typed
<1>3. Grown
  BY SameCasesGrown DEF Decide
<1>4. canonical' = [canonical EXCEPT ![e] = d]
  BY DEF Decide
<1>5. /\ requests' \in [Requests -> Request]
      /\ OneRuns'
      /\ (\A p \in Requests : Remembered(requests[p]))'
  <2>1. CASE d # "case_required"
    <3>1. Ends(q)
      BY <2>1 DEF Decide
    <3> QED BY <1>3, <3>1, EndsWell
  <2>2. CASE d = "case_required"
    <3>1. requests' = [requests EXCEPT ![q].at = place, ![q].parents = Parents(e)]
      BY <2>2 DEF Decide
    <3>0. PICK r : r = [requests[q] EXCEPT !.at = place, !.parents = Parents(e)]
      OBVIOUS
    <3>2. requests' = [requests EXCEPT ![q] = r]
      BY <3>0, <3>1 DEF IntakeInv, Typed
    <3>3. place \in {"correlating", "intake"}
      OBVIOUS
    <3>4. Parents(e) \subseteq DOMAIN cases /\ Parents(e) \in SUBSET Nat
      <4>1. DOMAIN cases \subseteq Nat
        BY DEF IntakeInv, Typed
      <4> QED BY <4>1 DEF Parents
    <3> HIDE DEF place
    <3>5. /\ r \in Request /\ r.at = place /\ r.parents = Parents(e)
          /\ r.seen = requests[q].seen /\ r.event = requests[q].event
      BY <1>1, <3>0, <3>3, <3>4 DEF Request
    <3>6. Remembered(r)
      BY <1>1, <3>3, <3>4, <3>5 DEF Remembered
    <3>7. Remembered(r)'
      BY <1>3, <3>6, RememberedStays
    <3>8. \A p \in Requests \ {q} : requests[p].at \in Waiting
      BY OthersWait DEF Decide, At, Waiting
    <3> QED BY <1>3, <3>2, <3>5, <3>7, <3>8, RequestsStep
  <2> QED BY <2>1, <2>2
<1>6. RowsBacked'
  BY <1>3, RowsKeptBacked DEF Decide
<1>7. OneCasePerEvent'
  BY DEF Decide, OneCasePerEvent, IntakeInv
<1>8. canonical' \in [Events -> Dispositions \cup {"none"}]
  BY <1>2, <1>4 DEF IntakeInv, Typed
<1>9. UNCHANGED <<rows, cases, graphs, modes, env>>
  BY DEF Decide
<1> QED BY <1>5, <1>6, <1>7, <1>8, <1>9 DEF IntakeInv, Typed

(* Evidence is added and the link is written in the same commit. *)
LEMMA CorrelateStep ==
  ASSUME IntakeInv, NEW q \in Requests, NEW silent, Correlate(q, silent)
  PROVE  IntakeInv'
<1>a. PICK e, c : e = requests[q].event /\ c = Hit(q, silent)
  OBVIOUS
<1>b. PICK case : case = [cases[c] EXCEPT !.derived = @ \cup {e}]
  OBVIOUS
<1>c. PICK row : row = [requests[q].seen EXCEPT !.case = c, !.decision = "case_required",
                                               !.status = "correlated"]
  OBVIOUS
<1>1. e \in Events /\ requests[q].seen \in Row
  BY <1>a, RequestFields
<1>2. c \in DOMAIN cases /\ cases \in Seq(Case)
  BY <1>a, HitWasFound DEF Correlate, IntakeInv, Typed
<1>3. c \in Nat /\ cases[c] \in Case
  BY <1>2
<1>4. case \in Case /\ case.event = cases[c].event /\ case.derived = cases[c].derived \cup {e}
  BY <1>b, <1>1, <1>3 DEF Case
<1>5. row \in Row /\ row.case = c
  BY <1>c, <1>1, <1>3, RowFields
<1>6. /\ cases' = [cases EXCEPT ![c] = case]
      /\ rows' = [rows EXCEPT ![e] = row]
      /\ Ends(q)
      /\ UNCHANGED <<canonical, graphs, modes, env>>
  BY <1>a, <1>b, <1>c, <1>2 DEF Correlate
<1>7. /\ Grown /\ cases' \in Seq(Case) /\ DOMAIN cases' = DOMAIN cases
      /\ cases'[c] = case /\ \A d \in DOMAIN cases : cases'[d].event = cases[d].event
  BY <1>2, <1>4, <1>6, ChangeGrown
<1>8. Backed(e, row.case)'
  BY <1>2, <1>4, <1>5, <1>7 DEF Backed
<1>9. RowsBacked'
  BY <1>1, <1>5, <1>6, <1>7, <1>8, RowsBackedStep
<1>10. /\ requests' \in [Requests -> Request]
       /\ OneRuns'
       /\ (\A p \in Requests : Remembered(requests[p]))'
  BY <1>6, <1>7, EndsWell
<1>11. OneCasePerEvent'
  BY <1>7, OneCaseStays DEF IntakeInv
<1>12. rows' \in [Events -> Row]
  BY <1>1, <1>5, <1>6 DEF IntakeInv, Typed
<1> QED BY <1>6, <1>7, <1>9, <1>10, <1>11, <1>12 DEF IntakeInv, Typed

(* A running handler goes on to another place with what it knows. *)
LEMMA GoesOn ==
  ASSUME IntakeInv, Grown, NEW q \in Requests, NEW r \in Request,
         requests' = [requests EXCEPT ![q] = r],
         requests[q].at \notin Waiting \/ LoopFree,
         Remembered(r)'
  PROVE  /\ requests' \in [Requests -> Request]
         /\ OneRuns'
         /\ (\A p \in Requests : Remembered(requests[p]))'
<1>1. \A p \in Requests \ {q} : requests[p].at \in Waiting
  BY OthersWait
<1> QED BY <1>1, RequestsStep

LEMMA FailOpenStep ==
  ASSUME IntakeInv, NEW q \in Requests, NEW silent, FailOpen(q, silent)
  PROVE  IntakeInv'
<1>0. PICK r : r = [requests[q] EXCEPT !.at = "intake"]
  OBVIOUS
<1>1. requests[q] \in Request /\ Remembered(requests[q])
  BY RequestFields
<1>2. /\ r \in Request /\ r.at = "intake" /\ r.seen = requests[q].seen
      /\ r.event = requests[q].event /\ r.parents = requests[q].parents
  BY <1>0, <1>1 DEF Request
<1>3. requests' = [requests EXCEPT ![q] = r] /\ LoopFree
      /\ UNCHANGED <<rows, canonical, cases, graphs, modes, env>>
  BY <1>0 DEF FailOpen
<1>4. Grown
  BY <1>3, SameCasesGrown
<1>5. Remembered(r)
  BY <1>1, <1>2 DEF Remembered
<1>6. Remembered(r)'
  BY <1>4, <1>5, RememberedStays
<1>7. /\ requests' \in [Requests -> Request]
      /\ OneRuns'
      /\ (\A p \in Requests : Remembered(requests[p]))'
  BY <1>2, <1>3, <1>4, <1>6, GoesOn
<1>8. RowsBacked'
  BY <1>3, <1>4, RowsKeptBacked
<1> QED BY <1>3, <1>7, <1>8 DEF IntakeInv, Typed, OneCasePerEvent

LEMMA IntakeExistingStep ==
  ASSUME IntakeInv, NEW q \in Requests, IntakeExisting(q)
  PROVE  IntakeInv'
<1>0. PICK c : c = Max(OwnCases(requests[q].event))
  OBVIOUS
<1>1. PICK r : r = [requests[q] EXCEPT !.at = "projecting", !.case = c]
  OBVIOUS
<1>2. requests[q] \in Request /\ Remembered(requests[q])
  BY RequestFields
<1>3. Backed(requests[q].event, c) /\ c \in Nat
  BY <1>0, OwnCaseIsOwn DEF IntakeExisting, Backed, IntakeInv, Typed
<1>4. /\ r \in Request /\ r.at = "projecting" /\ r.case = c /\ r.seen = requests[q].seen
      /\ r.event = requests[q].event /\ r.parents = requests[q].parents
  BY <1>1, <1>2, <1>3 DEF Request
<1>5. /\ requests' = [requests EXCEPT ![q] = r] /\ requests[q].at \notin Waiting
      /\ UNCHANGED <<rows, canonical, cases, graphs, modes, env>>
  BY <1>0, <1>1 DEF IntakeExisting, At, Waiting, IntakeInv, Typed
<1>6. Grown
  BY <1>5, SameCasesGrown
<1>7. Remembered(r)
  BY <1>2, <1>3, <1>4 DEF Remembered
<1>8. Remembered(r)'
  BY <1>6, <1>7, RememberedStays
<1>9. /\ requests' \in [Requests -> Request]
      /\ OneRuns'
      /\ (\A p \in Requests : Remembered(requests[p]))'
  BY <1>4, <1>5, <1>6, <1>8, GoesOn
<1>10. RowsBacked'
  BY <1>5, <1>6, RowsKeptBacked
<1> QED BY <1>5, <1>9, <1>10 DEF IntakeInv, Typed, OneCasePerEvent

(* The case is opened only where the event has none, in the same go of the loop. *)
LEMMA IntakeNewStep ==
  ASSUME IntakeInv, NEW q \in Requests, IntakeNew(q)
  PROVE  IntakeInv'
<1>0. PICK e, case : e = requests[q].event /\ case = [event |-> e, open |-> TRUE, derived |-> {}]
  OBVIOUS
<1>1. PICK r : r = [requests[q] EXCEPT !.at = "projecting", !.case = Len(cases) + 1,
                                       !.seen = rows[e]]
  OBVIOUS
<1>2. /\ requests[q] \in Request /\ Remembered(requests[q])
      /\ e \in Events /\ rows[e] \in Row /\ cases \in Seq(Case)
  BY <1>0, RequestFields DEF IntakeInv, Typed
<1>3. case \in Case /\ case.event = e
  BY <1>0, <1>2, CaseRow
<1>4. /\ cases' = Append(cases, case)
      /\ requests' = [requests EXCEPT ![q] = r] /\ requests[q].at \notin Waiting
      /\ OwnCases(e) = {}
      /\ UNCHANGED <<rows, canonical, graphs, modes, env>>
  BY <1>0, <1>1 DEF IntakeNew, At, Waiting, IntakeInv, Typed
<1>5. /\ Grown /\ cases' \in Seq(Case)
      /\ Len(cases') = Len(cases) + 1 /\ cases'[Len(cases) + 1] = case
      /\ \A c \in DOMAIN cases : cases'[c] = cases[c]
      /\ DOMAIN cases = 1 .. Len(cases) /\ DOMAIN cases' = 1 .. Len(cases) + 1
      /\ Len(cases) \in Nat
  BY <1>2, <1>3, <1>4, AppendGrown
<1>6. /\ r \in Request /\ r.at = "projecting" /\ r.case = Len(cases) + 1 /\ r.seen = rows[e]
      /\ r.event = e /\ r.parents = requests[q].parents
  <2>1. PICK k \in Nat : k = Len(cases) + 1
    BY <1>5
  <2>2. r = [requests[q] EXCEPT !.at = "projecting", !.case = k, !.seen = rows[e]]
    BY <1>1, <2>1
  <2>3. /\ r \in Request /\ r.at = "projecting" /\ r.case = k /\ r.seen = rows[e]
        /\ r.event = requests[q].event /\ r.parents = requests[q].parents
    BY <1>2, <2>2 DEF Request
  <2> QED BY <1>0, <2>1, <2>3
<1>7. Remembered(r)'
  <2>0. PICK c : c = Len(cases) + 1
    OBVIOUS
  <2>1. Backed(e, c)'
    BY <1>3, <1>5, <2>0 DEF Backed
  <2>2. r.seen.case # 0 => Backed(e, r.seen.case)
    BY <1>2, <1>6 DEF IntakeInv, RowsBacked
  <2>3. r.seen.case # 0 => Backed(e, r.seen.case)'
    BY <1>5, <2>2, BackedStays
  <2>4. r.parents \subseteq DOMAIN cases'
    BY <1>2, <1>5, <1>6 DEF Remembered
  <2> QED BY <1>6, <2>0, <2>1, <2>3, <2>4 DEF Remembered
<1>8. /\ requests' \in [Requests -> Request]
      /\ OneRuns'
      /\ (\A p \in Requests : Remembered(requests[p]))'
  BY <1>4, <1>5, <1>6, <1>7, GoesOn
<1>9. RowsBacked'
  BY <1>4, <1>5, RowsKeptBacked
<1>10. OneCasePerEvent'
  <2>1. \A c \in DOMAIN cases : cases[c].event # e
    BY <1>4 DEF OwnCases
  <2>2. ASSUME NEW b \in DOMAIN cases', NEW c \in DOMAIN cases',
               cases'[b].event = cases'[c].event
        PROVE  b = c
    <3>1. \A d \in DOMAIN cases' : d \in DOMAIN cases \/ d = Len(cases) + 1
      BY <1>5
    <3>2. CASE b \in DOMAIN cases /\ c \in DOMAIN cases
      BY <1>5, <2>2, <3>2 DEF IntakeInv, OneCasePerEvent
    <3>3. CASE b \in DOMAIN cases /\ c = Len(cases) + 1
      BY <1>3, <1>5, <2>1, <2>2, <3>3
    <3>4. CASE c \in DOMAIN cases /\ b = Len(cases) + 1
      BY <1>3, <1>5, <2>1, <2>2, <3>4
    <3>5. CASE b = Len(cases) + 1 /\ c = Len(cases) + 1
      BY <3>5
    <3> QED BY <3>1, <3>2, <3>3, <3>4, <3>5
  <2> QED BY <2>2 DEF OneCasePerEvent
<1>11. graphs' \subseteq DOMAIN cases'
  BY <1>4, <1>5 DEF IntakeInv, Typed
<1> QED BY <1>4, <1>5, <1>8, <1>9, <1>10, <1>11 DEF IntakeInv, Typed

LEMMA ProjectStep ==
  ASSUME IntakeInv, NEW q \in Requests, Project(q)
  PROVE  IntakeInv'
<1>0. PICK e, c : e = requests[q].event /\ c = requests[q].case
  OBVIOUS
<1>1. PICK row : row = [requests[q].seen EXCEPT !.case = c, !.decision = "case_required",
                                                !.status = "case_created"]
  OBVIOUS
<1>2. /\ requests[q] \in Request /\ Remembered(requests[q])
      /\ e \in Events /\ requests[q].seen \in Row /\ c \in Nat
  BY <1>0, RequestFields
<1>3. row \in Row /\ row.case = c
  BY <1>1, <1>2, RowFields
<1>4. /\ rows' = [rows EXCEPT ![e] = row]
      /\ At(q, "projecting") /\ requests[q].at \notin Waiting
      /\ UNCHANGED <<canonical, cases, graphs, modes, env>>
  BY <1>0, <1>1 DEF Project, At, Waiting
<1>5. Grown
  BY <1>4, SameCasesGrown
<1>6. Backed(e, c)
  BY <1>0, <1>2, <1>4 DEF Remembered, At
<1>7. RowsBacked'
  <2>1. Backed(e, c)'
    BY <1>5, <1>6, BackedStays
  <2>2. row.case # 0 => Backed(e, row.case)'
    BY <1>3, <2>1
  <2> QED BY <1>2, <1>3, <1>4, <1>5, <2>2, RowsBackedStep
<1>8. /\ requests' \in [Requests -> Request]
      /\ OneRuns'
      /\ (\A p \in Requests : Remembered(requests[p]))'
  <2>1. ASSUME NEW place \in {"dispatching", "triggering"},
               requests' = [requests EXCEPT ![q].at = place]
        PROVE  /\ requests' \in [Requests -> Request]
               /\ OneRuns'
               /\ (\A p \in Requests : Remembered(requests[p]))'
    <3>1. PICK r : r = [requests[q] EXCEPT !.at = place]
      OBVIOUS
    <3>2. /\ r \in Request /\ r.at = place /\ r.case = c /\ r.seen = requests[q].seen
          /\ r.event = e /\ r.parents = requests[q].parents
      BY <1>0, <1>2, <3>1 DEF Request
    <3>3. requests' = [requests EXCEPT ![q] = r]
      BY <2>1, <3>1
    <3>4. Remembered(r)
      BY <1>0, <1>2, <1>6, <3>2 DEF Remembered
    <3>5. Remembered(r)'
      BY <1>5, <3>4, RememberedStays
    <3> QED BY <1>4, <1>5, <3>2, <3>3, <3>5, GoesOn
  <2>2. \/ requests' = [requests EXCEPT ![q].at = "dispatching"]
        \/ requests' = [requests EXCEPT ![q].at = "triggering"]
        \/ Ends(q)
    BY DEF Project
  <2> QED BY <1>5, <2>1, <2>2, EndsWell
<1>9. rows' \in [Events -> Row]
  BY <1>2, <1>3, <1>4 DEF IntakeInv, Typed
<1> QED BY <1>4, <1>7, <1>8, <1>9 DEF IntakeInv, Typed, OneCasePerEvent

LEMMA TriggerStep ==
  ASSUME IntakeInv, NEW q \in Requests, Trigger(q)
  PROVE  IntakeInv'
<1>1. /\ graphs' = graphs \cup {requests[q].case} /\ Ends(q) /\ At(q, "triggering")
      /\ UNCHANGED <<rows, canonical, cases, modes, env>>
  BY DEF Trigger
<1>2. Grown
  BY <1>1, SameCasesGrown
<1>3. requests[q].case \in DOMAIN cases
  BY <1>1, RequestFields DEF Remembered, At, Backed
<1>4. /\ requests' \in [Requests -> Request]
      /\ OneRuns'
      /\ (\A p \in Requests : Remembered(requests[p]))'
  BY <1>1, <1>2, EndsWell
<1>5. RowsBacked'
  BY <1>1, <1>2, RowsKeptBacked
<1> QED BY <1>1, <1>3, <1>4, <1>5 DEF IntakeInv, Typed, OneCasePerEvent

(* An operator's handler writes the row it has just loaded. *)
LEMMA DisposeStep ==
  ASSUME IntakeInv, NEW q \in Requests, NEW e \in Events, NEW disposition \in Dispositions,
         Dispose(q, e, disposition)
  PROVE  IntakeInv'
<1>0. PICK row : row = [rows[e] EXCEPT !.decision = disposition,
                          !.status = IF disposition = "noise" THEN "closed" ELSE "correlated"]
  OBVIOUS
<1>1. row \in Row /\ row.case = rows[e].case
  <2>1. rows[e] \in Row
    BY DEF IntakeInv, Typed
  <2>2. PICK st \in {"closed", "correlated"} :
           st = IF disposition = "noise" THEN "closed" ELSE "correlated"
    OBVIOUS
  <2>3. row = [rows[e] EXCEPT !.decision = disposition, !.status = st]
    BY <1>0, <2>2
  <2>4. /\ [rows[e] EXCEPT !.decision = disposition, !.status = st] \in Row
        /\ [rows[e] EXCEPT !.decision = disposition, !.status = st].case = rows[e].case
    BY <2>1, <2>2 DEF Row
  <2> QED BY <2>3, <2>4
<1>2. /\ rows' = [rows EXCEPT ![e] = row] /\ Free(q)
      /\ UNCHANGED <<canonical, cases, graphs, modes>>
      /\ \/ requests' = [requests EXCEPT ![q] =
              [Idle EXCEPT !.at = "intake", !.kind = "operator", !.event = e, !.seen = row]]
         \/ Ends(q)
  BY <1>0 DEF Dispose
<1>3. env' \in [EnvKinds -> Nat]
  BY HappensTyped DEF Dispose, IntakeInv, EnvKinds
<1>4. row.case # 0 => Backed(e, row.case)
  BY <1>1 DEF IntakeInv, RowsBacked
<1>5. Grown
  BY <1>2, SameCasesGrown
<1>6. /\ requests' \in [Requests -> Request]
      /\ OneRuns'
      /\ (\A p \in Requests : Remembered(requests[p]))'
  <2>1. PICK r : r = [Idle EXCEPT !.at = "intake", !.kind = "operator", !.event = e, !.seen = row]
    OBVIOUS
  <2>2. /\ r \in Request /\ r.at = "intake" /\ r.event = e /\ r.seen = row /\ r.parents = {}
    BY <1>1, <2>1 DEF Idle, Request
  <2>3. Remembered(r)
    BY <1>4, <2>2 DEF Remembered
  <2>4. CASE requests' = [requests EXCEPT ![q] = r]
    BY <1>2, <2>2, <2>3, <2>4, Starts
  <2>5. CASE Ends(q)
    BY <1>5, <2>5, EndsWell
  <2> QED BY <1>2, <2>1, <2>4, <2>5
<1>7. RowsBacked'
  <2>1. PICK c : c = row.case
    OBVIOUS
  <2>2. c # 0 => Backed(e, c)'
    BY <1>4, <1>5, <2>1, BackedStays
  <2>3. row.case # 0 => Backed(e, row.case)'
    BY <2>1, <2>2
  <2> QED BY <1>1, <1>2, <1>5, <2>3, RowsBackedStep
<1>8. rows' \in [Events -> Row]
  BY <1>1, <1>2 DEF IntakeInv, Typed
<1> QED BY <1>2, <1>3, <1>6, <1>7, <1>8 DEF IntakeInv, Typed, OneCasePerEvent

LEMMA DispatchStep ==
  ASSUME IntakeInv, NEW q \in Requests, NEW e \in Events, Dispatch(q, e)
  PROVE  IntakeInv'
<1>0. PICK row, place : row = rows[e] /\ place = IF row.case = 0 THEN "intake" ELSE "dispatching"
  OBVIOUS
<1>1. PICK r : r = [Idle EXCEPT !.at = place, !.kind = "dispatch", !.event = e, !.seen = row,
                                !.case = row.case]
  OBVIOUS
<1>2. row \in Row /\ row.case \in Nat
  BY <1>0, RowFields DEF IntakeInv, Typed
<1>3. /\ r \in Request /\ r.at = place /\ r.event = e /\ r.seen = row /\ r.case = row.case
      /\ r.parents = {}
  BY <1>0, <1>1, <1>2 DEF Idle, Request
<1>4. row.case # 0 => Backed(e, row.case)
  BY <1>0 DEF IntakeInv, RowsBacked
<1>5. Remembered(r)
  BY <1>0, <1>3, <1>4 DEF Remembered
<1>6. /\ requests' = [requests EXCEPT ![q] = r] /\ Free(q)
      /\ UNCHANGED <<rows, canonical, cases, graphs, modes>>
  BY <1>0, <1>1 DEF Dispatch
<1>7. env' \in [EnvKinds -> Nat]
  BY HappensTyped DEF Dispatch, IntakeInv, EnvKinds
<1>8. /\ Grown
      /\ requests' \in [Requests -> Request]
      /\ OneRuns'
      /\ (\A p \in Requests : Remembered(requests[p]))'
  BY <1>3, <1>5, <1>6, Starts
<1>9. RowsBacked'
  BY <1>6, <1>8, RowsKeptBacked
<1> QED BY <1>6, <1>7, <1>8, <1>9 DEF IntakeInv, Typed, OneCasePerEvent

LEMMA DispatchedStep ==
  ASSUME IntakeInv, NEW q \in Requests, Dispatched(q)
  PROVE  IntakeInv'
<1>0. PICK e : e = requests[q].event
  OBVIOUS
<1>1. PICK row : row = [rows[e] EXCEPT !.status = "case_created"]
  OBVIOUS
<1>2. PICK r : r = [requests[q] EXCEPT !.at = "triggering"]
  OBVIOUS
<1>3. requests[q] \in Request /\ Remembered(requests[q]) /\ e \in Events /\ rows[e] \in Row
  BY <1>0, RequestFields DEF IntakeInv, Typed
<1>4. row \in Row /\ row.case = rows[e].case
  BY <1>1, <1>3, RowFields
<1>5. /\ rows' = [rows EXCEPT ![e] = row] /\ requests' = [requests EXCEPT ![q] = r]
      /\ At(q, "dispatching") /\ requests[q].at \notin Waiting
      /\ UNCHANGED <<canonical, cases, graphs, modes, env>>
  BY <1>0, <1>1, <1>2 DEF Dispatched, At, Waiting, IntakeInv, Typed
<1>6. Grown
  BY <1>5, SameCasesGrown
<1>7. /\ r \in Request /\ r.at = "triggering" /\ r.case = requests[q].case
      /\ r.seen = requests[q].seen /\ r.event = requests[q].event
      /\ r.parents = requests[q].parents
  BY <1>2, <1>3 DEF Request
<1>8. Remembered(r)
  BY <1>3, <1>5, <1>7 DEF Remembered, At
<1>9. Remembered(r)'
  BY <1>6, <1>8, RememberedStays
<1>10. /\ requests' \in [Requests -> Request]
       /\ OneRuns'
       /\ (\A p \in Requests : Remembered(requests[p]))'
  BY <1>5, <1>6, <1>7, <1>9, GoesOn
<1>11. RowsBacked'
  <2>1. PICK c : c = row.case
    OBVIOUS
  <2>2. c # 0 => Backed(e, c)
    BY <1>3, <1>4, <2>1 DEF IntakeInv, RowsBacked
  <2>3. c # 0 => Backed(e, c)'
    BY <1>6, <2>2, BackedStays
  <2>4. row.case # 0 => Backed(e, row.case)'
    BY <2>1, <2>3
  <2> QED BY <1>3, <1>4, <1>5, <1>6, <2>4, RowsBackedStep
<1>12. rows' \in [Events -> Row]
  BY <1>3, <1>4, <1>5 DEF IntakeInv, Typed
<1> QED BY <1>5, <1>10, <1>11, <1>12 DEF IntakeInv, Typed, OneCasePerEvent

LEMMA CreateLocalTicketStep ==
  ASSUME IntakeInv, NEW q \in Requests, NEW e \in Events, CreateLocalTicket(q, e)
  PROVE  IntakeInv'
<1>0. PICK row : row = Ticketed(rows[e])
  OBVIOUS
<1>1. row \in Row /\ row.case = rows[e].case
  BY <1>0, RowFields DEF IntakeInv, Typed
<1>2. /\ rows' = [rows EXCEPT ![e] = row]
      /\ UNCHANGED <<canonical, cases, graphs, requests, modes>>
  BY <1>0 DEF CreateLocalTicket
<1>3. env' \in [EnvKinds -> Nat]
  BY HappensTyped DEF CreateLocalTicket, IntakeInv, EnvKinds
<1>4. Grown
  BY <1>2, SameCasesGrown
<1>5. RowsBacked'
  <2>1. PICK c : c = row.case
    OBVIOUS
  <2>2. c # 0 => Backed(e, c)
    BY <1>1, <2>1 DEF IntakeInv, RowsBacked
  <2>3. c # 0 => Backed(e, c)'
    BY <1>4, <2>2, BackedStays
  <2>4. row.case # 0 => Backed(e, row.case)'
    BY <2>1, <2>3
  <2> QED BY <1>1, <1>2, <1>4, <2>4, RowsBackedStep
<1>6. rows' \in [Events -> Row]
  BY <1>1, <1>2 DEF IntakeInv, Typed
<1>7. (\A p \in Requests : Remembered(requests[p]))'
  BY <1>2 DEF IntakeInv, Remembered, Backed
<1> QED BY <1>2, <1>3, <1>5, <1>6, <1>7 DEF IntakeInv, Typed, OneRuns, OneCasePerEvent

LEMMA StartTicketStep ==
  ASSUME IntakeInv, NEW q \in Requests, NEW e \in Events, StartTicket(q, e)
  PROVE  IntakeInv'
<1>0. PICK row : row = rows[e]
  OBVIOUS
<1>1. PICK r : r = [Idle EXCEPT !.at = "ticketing", !.kind = "operator", !.event = e, !.seen = row]
  OBVIOUS
<1>2. row \in Row
  BY <1>0 DEF IntakeInv, Typed
<1>3. r \in Request /\ r.at = "ticketing" /\ r.event = e /\ r.seen = row /\ r.parents = {}
  BY <1>1, <1>2 DEF Idle, Request
<1>4. row.case # 0 => Backed(e, row.case)
  BY <1>0 DEF IntakeInv, RowsBacked
<1>5. Remembered(r)
  BY <1>3, <1>4 DEF Remembered
<1>6. /\ requests' = [requests EXCEPT ![q] = r] /\ Free(q)
      /\ UNCHANGED <<rows, canonical, cases, graphs, modes>>
  BY <1>0, <1>1 DEF StartTicket
<1>7. env' \in [EnvKinds -> Nat]
  BY HappensTyped DEF StartTicket, IntakeInv, EnvKinds
<1>8. /\ Grown
      /\ requests' \in [Requests -> Request]
      /\ OneRuns'
      /\ (\A p \in Requests : Remembered(requests[p]))'
  BY <1>3, <1>5, <1>6, Starts
<1>9. RowsBacked'
  BY <1>6, <1>8, RowsKeptBacked
<1> QED BY <1>6, <1>7, <1>8, <1>9 DEF IntakeInv, Typed, OneCasePerEvent

(* The row as it was before the request is written back with its link, which
   still holds: the case it names is not gone. *)
LEMMA TicketCreatedStep ==
  ASSUME IntakeInv, NEW q \in Requests, TicketCreated(q)
  PROVE  IntakeInv'
<1>0. PICK e, c, row : /\ e = requests[q].event /\ c = requests[q].seen.case
                       /\ row = Ticketed(requests[q].seen)
  OBVIOUS
<1>1. e \in Events /\ requests[q].seen \in Row /\ Remembered(requests[q])
  BY <1>0, RequestFields
<1>2. row \in Row /\ row.case = c
  BY <1>0, <1>1, RowFields
<1>3. /\ rows' = [rows EXCEPT ![e] = row] /\ Ends(q)
      /\ UNCHANGED <<canonical, cases, graphs, modes, env>>
  BY <1>0 DEF TicketCreated
<1>4. Grown
  BY <1>3, SameCasesGrown
<1>5. RowsBacked'
  <2>1. c # 0 => Backed(e, c)
    BY <1>0, <1>1 DEF Remembered
  <2>2. c # 0 => Backed(e, c)'
    BY <1>4, <2>1, BackedStays
  <2>3. row.case # 0 => Backed(e, row.case)'
    BY <1>2, <2>2
  <2> QED BY <1>1, <1>2, <1>3, <1>4, <2>3, RowsBackedStep
<1>6. /\ requests' \in [Requests -> Request]
      /\ OneRuns'
      /\ (\A p \in Requests : Remembered(requests[p]))'
  BY <1>3, <1>4, EndsWell
<1>7. rows' \in [Events -> Row]
  BY <1>1, <1>2, <1>3 DEF IntakeInv, Typed
<1> QED BY <1>3, <1>5, <1>6, <1>7 DEF IntakeInv, Typed, OneCasePerEvent

LEMMA TicketFailedStep ==
  ASSUME IntakeInv, NEW q \in Requests, TicketFailed(q)
  PROVE  IntakeInv'
<1>1. Ends(q) /\ UNCHANGED <<rows, canonical, cases, graphs, modes, env>>
  BY DEF TicketFailed
<1>2. Grown
  BY <1>1, SameCasesGrown
<1>3. /\ requests' \in [Requests -> Request]
      /\ OneRuns'
      /\ (\A p \in Requests : Remembered(requests[p]))'
  BY <1>1, <1>2, EndsWell
<1>4. RowsBacked'
  BY <1>1, <1>2, RowsKeptBacked
<1> QED BY <1>1, <1>3, <1>4 DEF IntakeInv, Typed, OneCasePerEvent

LEMMA CloseCaseStep ==
  ASSUME IntakeInv, NEW c \in DOMAIN cases, CloseCase(c)
  PROVE  IntakeInv'
<1>1. PICK row : row = [cases[c] EXCEPT !.open = FALSE]
  OBVIOUS
<1>2. cases \in Seq(Case) /\ cases[c] \in Case
  BY DEF IntakeInv, Typed
<1>3. row \in Case /\ row.event = cases[c].event /\ row.derived = cases[c].derived
  BY <1>1, <1>2 DEF Case
<1>4. cases' = [cases EXCEPT ![c] = row] /\ UNCHANGED <<rows, canonical, graphs, requests, modes>>
  BY <1>1 DEF CloseCase
<1>5. /\ Grown /\ cases' \in Seq(Case) /\ DOMAIN cases' = DOMAIN cases
      /\ cases'[c] = row /\ \A d \in DOMAIN cases : cases'[d].event = cases[d].event
  BY <1>2, <1>3, <1>4, ChangeGrown
<1>6. env' \in [EnvKinds -> Nat]
  BY HappensTyped DEF CloseCase, IntakeInv, EnvKinds
<1>7. RowsBacked'
  BY <1>4, <1>5, RowsKeptBacked
<1>8. (\A p \in Requests : Remembered(requests[p]))'
  <2>1. ASSUME NEW p \in Requests, NEW r, r = requests[p]
        PROVE  Remembered(r)'
    BY <1>5, <2>1, RememberedStays DEF IntakeInv
  <2> QED BY <1>4, <2>1 DEF Remembered, Backed
<1>9. OneCasePerEvent'
  BY <1>5, OneCaseStays DEF IntakeInv
<1> QED BY <1>4, <1>5, <1>6, <1>7, <1>8, <1>9 DEF IntakeInv, Typed, OneRuns

(* What was committed stays, and the rest is forgotten whole. *)
LEMMA CrashStep ==
  ASSUME IntakeInv, Crash
  PROVE  IntakeInv'
<1>1. /\ requests' = [q \in Requests |-> Idle]
      /\ UNCHANGED <<rows, canonical, cases, graphs, modes>>
  BY DEF Crash
<1>2. Grown
  BY <1>1, SameCasesGrown
<1>3. Idle \in Request /\ Idle.at \in Waiting
  BY IdleRemembered DEF Waiting
<1>4. requests' \in [Requests -> Request] /\ OneRuns'
  BY <1>1, <1>3 DEF OneRuns
<1>5. (\A p \in Requests : Remembered(requests[p]))'
  <2>1. \A p \in Requests : requests'[p] = Idle
    BY <1>1
  <2> QED BY <2>1, IdleRememberedNext DEF Remembered, Backed
<1>6. env' \in [EnvKinds -> Nat]
  BY HappensTyped DEF Crash, IntakeInv, EnvKinds
<1>7. RowsBacked'
  BY <1>1, <1>2, RowsKeptBacked
<1> QED BY <1>1, <1>4, <1>5, <1>6, <1>7 DEF IntakeInv, Typed, OneCasePerEvent

-----------------------------------------------------------------------------
(* The theorems.                                                           *)

LEMMA IntakeInvInit ==
  ASSUME Init
  PROVE  IntakeInv
<1>1. rows \in [Events -> Row] /\ \A e \in Events : rows[e].case = 0
  BY DEF Init, NoRow, Row, Dispositions
<1>2. requests \in [Requests -> Request] /\ \A q \in Requests : requests[q] = Idle
  BY IdleRemembered DEF Init
<1>3. modes \in [auto : BOOLEAN, external : BOOLEAN]
  BY IntakeAssumption DEF Init
<1>4. canonical \in [Events -> Dispositions \cup {"none"}] /\ env \in [EnvKinds -> Nat]
  BY DEF Init
<1>5. cases \in Seq(Case) /\ DOMAIN cases = {} /\ graphs = {}
  BY DEF Init
<1> QED BY <1>1, <1>2, <1>3, <1>4, <1>5, IdleRemembered
        DEF IntakeInv, Typed, OneRuns, RowsBacked, OneCasePerEvent, Waiting

LEMMA IntakeInvStep ==
  ASSUME IntakeInv, [Next]_vars
  PROVE  IntakeInv'
<1>1. ASSUME NEW q \in Requests, Continue(q)
      PROVE  IntakeInv'
  <2>1. CASE Decide(q)
    BY <2>1, DecideStep
  <2>2. ASSUME NEW silent, Correlate(q, silent)
        PROVE  IntakeInv'
    BY <2>2, CorrelateStep
  <2>3. ASSUME NEW silent, FailOpen(q, silent)
        PROVE  IntakeInv'
    BY <2>3, FailOpenStep
  <2>4. CASE Correlating(q)
    BY <2>2, <2>3, <2>4 DEF Correlating
  <2>5. CASE IntakeExisting(q)
    BY <2>5, IntakeExistingStep
  <2>6. CASE IntakeNew(q)
    BY <2>6, IntakeNewStep
  <2>7. CASE Project(q)
    BY <2>7, ProjectStep
  <2>8. CASE Trigger(q)
    BY <2>8, TriggerStep
  <2>9. CASE Dispatched(q)
    BY <2>9, DispatchedStep
  <2>10. CASE TicketCreated(q)
    BY <2>10, TicketCreatedStep
  <2>11. CASE TicketFailed(q)
    BY <2>11, TicketFailedStep
  <2> QED BY <1>1, <2>1, <2>4, <2>5, <2>6, <2>7, <2>8, <2>9, <2>10, <2>11 DEF Continue
<1>2. ASSUME NEW q \in Requests, NEW e \in Events,
             \/ \E level \in LevelsOf[e] : Ingest(q, e, level)
             \/ \E d \in Dispositions : Dispose(q, e, d)
             \/ Dispatch(q, e) \/ CreateLocalTicket(q, e) \/ StartTicket(q, e)
      PROVE  IntakeInv'
  <2>1. CASE \E level \in LevelsOf[e] : Ingest(q, e, level)
    BY <2>1, IngestStep
  <2>2. CASE \E d \in Dispositions : Dispose(q, e, d)
    BY <2>2, DisposeStep
  <2>3. CASE Dispatch(q, e)
    BY <2>3, DispatchStep
  <2>4. CASE CreateLocalTicket(q, e)
    BY <2>4, CreateLocalTicketStep
  <2>5. CASE StartTicket(q, e)
    BY <2>5, StartTicketStep
  <2> QED BY <1>2, <2>1, <2>2, <2>3, <2>4, <2>5
<1>3. ASSUME NEW c \in DOMAIN cases, CloseCase(c)
      PROVE  IntakeInv'
  BY <1>3, CloseCaseStep
<1>4. CASE Crash
  BY <1>4, CrashStep
<1>5. CASE UNCHANGED vars
  BY <1>5 DEF vars, IntakeInv, Typed, OneRuns, Remembered, Backed, RowsBacked, OneCasePerEvent
<1> QED BY <1>1, <1>2, <1>3, <1>4, <1>5 DEF Next

(* TypeOK: every store and every handler stays within its types, links name
   cases that exist, and the event loop runs one handler at a time. *)
THEOREM IntakeTypeCorrect == Spec => []TypeOK
<1>1. IntakeInv => TypeOK
  <2> SUFFICES ASSUME IntakeInv PROVE TypeOK
    OBVIOUS
  <2>2. \A e \in Events : rows[e].case \in {0} \cup DOMAIN cases
    <3>1. ASSUME NEW e \in Events, rows[e].case # 0
          PROVE  rows[e].case \in DOMAIN cases
      <4>1. RowsBacked
        BY DEF IntakeInv
      <4> QED BY <3>1, <4>1 DEF RowsBacked, Backed
    <3> QED BY <3>1
  <2>3. Cardinality({q \in Requests : requests[q].at \notin Waiting}) <= 1
    <3>1. CASE \A q \in Requests : requests[q].at \in Waiting
      <4>1. {q \in Requests : requests[q].at \notin Waiting} = {}
        BY <3>1
      <4> QED BY <4>1, FS_EmptySet
    <3>2. ASSUME NEW p \in Requests, requests[p].at \notin Waiting
          PROVE  Cardinality({q \in Requests : requests[q].at \notin Waiting}) <= 1
      <4>1. {q \in Requests : requests[q].at \notin Waiting} = {p}
        <5>1. \A q \in Requests : requests[q].at \notin Waiting => q = p
          <6>1. OneRuns
            BY DEF IntakeInv
          <6> QED BY <3>2, <6>1 DEF OneRuns
        <5> QED BY <3>2, <5>1, Zenon
      <4>2. Cardinality({p}) = 1
        BY FS_Singleton
      <4> QED BY <4>1, <4>2
    <3> QED BY <3>1, <3>2
  <2> QED BY <2>2, <2>3 DEF IntakeInv, Typed, TypeOK
<1>2. Init => IntakeInv
  BY IntakeInvInit
<1>3. IntakeInv /\ [Next]_vars => IntakeInv'
  BY IntakeInvStep
<1> QED BY <1>1, <1>2, <1>3, PTL DEF Spec

(* OneCasePerEvent: whatever handlers wait for NetBox or the ticket system about
   the same event, and whenever the process dies, the event never gets two
   cases, because no handler is interrupted between looking for the event's
   case and opening one. *)
THEOREM EventsFiledOnce == Spec => []OneCasePerEvent
<1>1. IntakeInv => OneCasePerEvent
  BY DEF IntakeInv
<1>2. Init => IntakeInv
  BY IntakeInvInit
<1>3. IntakeInv /\ [Next]_vars => IntakeInv'
  BY IntakeInvStep
<1> QED BY <1>1, <1>2, <1>3, PTL DEF Spec

(* LinksBacked: a link is never written before what it points at, and a handler
   that writes a row it loaded long ago brings back no link that is not backed. *)
THEOREM LinksHold == Spec => []LinksBacked
<1>1. IntakeInv => LinksBacked
  BY DEF IntakeInv, RowsBacked, Backed, LinksBacked
<1>2. Init => IntakeInv
  BY IntakeInvInit
<1>3. IntakeInv /\ [Next]_vars => IntakeInv'
  BY IntakeInvStep
<1> QED BY <1>1, <1>2, <1>3, PTL DEF Spec
=============================================================================
