--------------------------- MODULE ServicesProofs ---------------------------
(***************************************************************************)
(* What the parts that serve the cases promise for every value of their     *)
(* constants: Remediation, that the breaker bounds the changes made for the *)
(* cases of a target, those of rollbacks aside, and that what the agent     *)
(* calls automatic passes the guard; DeviceAccess, that a registered port   *)
(* has one active host key and no probe or change opens a session to a host *)
(* it does not know; AssetMirror, that no answer outlives the cache and no  *)
(* row of the mirror goes back; EventClusters, that a reader misses no      *)
(* event but what equal times let escape, and that more evidence weakens no *)
(* root cause.                                                              *)
(***************************************************************************)
EXTENDS Services, FunctionTheorems, FiniteSetTheorems, SequenceTheorems, TLAPS

Typed == log \in Seq(Run) /\ lost \in Nat /\ jobs \in [Jobs -> Job]

(* A job has at most one run that still goes on, and only while it waits for the
   device. *)
OneOpen ==
  \A j \in Jobs :
    /\ \A i, k \in Open(j) : i = k
    /\ Open(j) # {} => jobs[j].at \in {"baseline", "device", "undoing"}

(* What a job commits has ended. *)
CommittedEnded ==
  \A i \in DOMAIN log : log[i].of = "committed" => log[i].status # "running"

-----------------------------------------------------------------------------
(* The places the breaker gives away.  Each job has MaxRuns of them, and so has *)
(* each job that was lost; a run takes one when the guard has let it pass, and  *)
(* keeps it when its job commits.  One that is rolled back gives it up.       *)

Held == {i \in DOMAIN log : \/ log[i].status = "running"
                            \/ log[i].acted /\ log[i].status = "ended"}

Rank == CHOOSE rank \in Bijection(Jobs, 1 .. Cardinality(Jobs)) : TRUE

Owners == 1 .. (Cardinality(Jobs) + lost)
Own(i, n) ==
  /\ log[i].of \in Jobs => n = Rank[log[i].of]
  /\ log[i].of = "committed" => n <= Cardinality(Jobs)
  /\ log[i].of = "lost" => n > Cardinality(Jobs)

PlacesSuffice ==
  \E place \in Injection(Held, (1 .. MaxRuns) \X Owners) :
    \A i \in Held : Own(i, place[i][2])

BreakerInv == Typed /\ OneOpen /\ CommittedEnded /\ PlacesSuffice

LEMMA JobsAreRanked ==
  /\ Cardinality(Jobs) \in Nat
  /\ \A j \in Jobs : Rank[j] \in 1 .. Cardinality(Jobs)
  /\ \A j, k \in Jobs : Rank[j] = Rank[k] => j = k
<1> DEFINE number == 1 .. Cardinality(Jobs)
<1>1. Cardinality(Jobs) \in Nat /\ ExistsBijection(number, Jobs)
  BY RemediationAssumption, FS_CardinalityType
<1>2. ExistsBijection(Jobs, number)
  BY <1>1, Fun_ExistsBijSymmetric
<1>3. Rank \in Bijection(Jobs, number)
  BY <1>2 DEF Rank, ExistsBijection
<1> HIDE DEF number
<1>4. /\ Rank \in [Jobs -> number]
      /\ \A j, k \in Jobs : Rank[j] = Rank[k] => j = k
  BY <1>3, Fun_BijectionProperties
<1> QED BY <1>1, <1>4 DEF number

(* Runs that have ended, were committed or do not count any more leave the
   places of the others as they are. *)
LEMMA PlacesStay ==
  ASSUME PlacesSuffice, UNCHANGED lost, Held' \subseteq Held,
         \A i \in Held' : \/ log'[i].of = log[i].of
                          \/ log[i].of \in Jobs /\ log'[i].of = "committed"
  PROVE  PlacesSuffice'
<1> DEFINE all == (1 .. MaxRuns) \X Owners
<1>1. PICK place \in Injection(Held, all) : \A i \in Held : Own(i, place[i][2])
  BY DEF PlacesSuffice
<1>2. Owners' = Owners
  BY DEF Owners
<1> HIDE DEF all
<1>3. /\ place \in [Held -> all]
      /\ \A i, k \in Held : place[i] = place[k] => i = k
  BY <1>1, Fun_InjectionProperties
<1>4. PICK kept : kept = [i \in Held' |-> place[i]]
  OBVIOUS
<1>5. kept \in Injection(Held', all)
  <2>1. kept \in [Held' -> all] /\ \A i, k \in Held' : kept[i] = kept[k] => i = k
    BY <1>3, <1>4
  <2> QED BY <2>1, Fun_IsInj
<1>6. ASSUME NEW i \in Held'
      PROVE  Own(i, kept[i][2])'
  <2>1. i \in Held /\ kept[i] = place[i]
    BY <1>4
  <2>2. PICK n : n = place[i][2]
    OBVIOUS
  <2>3. Own(i, n)
    BY <1>1, <2>1, <2>2
  <2>4. CASE log'[i].of = log[i].of
    <3>1. Own(i, n)'
      BY <2>3, <2>4 DEF Own
    <3> QED BY <2>1, <2>2, <3>1
  <2>5. CASE log[i].of \in Jobs /\ log'[i].of = "committed"
    <3>1. n = Rank[log[i].of]
      BY <2>3, <2>5 DEF Own
    <3>2. n <= Cardinality(Jobs)
      BY <2>5, <3>1, JobsAreRanked
    <3>3. Own(i, n)'
      BY <2>5, <3>2, RemediationAssumption DEF Own
    <3> QED BY <2>1, <2>2, <3>3
  <2> QED BY <1>6, <2>4, <2>5
<1>7. kept \in Injection(Held', (1 .. MaxRuns) \X Owners')
  BY <1>2, <1>5 DEF all
<1> QED BY <1>6, <1>7 DEF PlacesSuffice

(* A guard that lets a job pass has counted fewer runs than there are places. *)
LEMMA PassesBelowLimit ==
  ASSUME NEW j \in Jobs, NEW capabilities, Passes(j, capabilities)
  PROVE  ~Tripped(j) /\ jobs[j].at = "next"
BY DEF Passes, RefusalAt, Refusal, Busy, At

LEMMA FreePlace ==
  ASSUME BreakerInv, NEW j \in Jobs, ~Tripped(j), Open(j) = {},
         NEW place \in [Held -> (1 .. MaxRuns) \X Owners],
         \A i, k \in Held : place[i] = place[k] => i = k,
         \A i \in Held : Own(i, place[i][2])
  PROVE  \E k \in 1 .. MaxRuns : \A i \in Held : place[i] # <<k, Rank[j]>>
<1> SUFFICES ASSUME \A k \in 1 .. MaxRuns : \E i \in Held : place[i] = <<k, Rank[j]>>
             PROVE  FALSE
  OBVIOUS
<1> DEFINE taker == [k \in 1 .. MaxRuns |-> CHOOSE i \in Held : place[i] = <<k, Rank[j]>>]
<1>1. \A k \in 1 .. MaxRuns : taker[k] \in Held /\ place[taker[k]] = <<k, Rank[j]>>
  OBVIOUS
<1>2. ASSUME NEW k \in 1 .. MaxRuns
      PROVE  taker[k] \in CountedRuns(j)
  <2>1. PICK i : i = taker[k]
    OBVIOUS
  <2> HIDE DEF taker
  <2>2. i \in Held /\ place[i][2] = Rank[j] /\ i \in DOMAIN log
    BY <1>1, <2>1 DEF Held
  <2>3. Own(i, Rank[j])
    BY <2>2
  <2>4. log[i] \in Run
    BY <2>2 DEF BreakerInv, Typed
  <2>5. log[i].of # "lost"
    BY <2>3, JobsAreRanked DEF Own
  <2>6. log[i].of \in {j, "committed"}
    <3>1. log[i].of \in Jobs => Rank[log[i].of] = Rank[j]
      BY <2>3 DEF Own
    <3>2. log[i].of \in Jobs \cup {"committed"}
      BY <2>4, <2>5 DEF Run
    <3> QED BY <3>1, <3>2, JobsAreRanked
  <2>7. log[i].status # "running"
    <3>1. log[i].of = j => i \notin Open(j)
      OBVIOUS
    <3> QED BY <2>2, <2>6, <3>1 DEF Open, BreakerInv, CommittedEnded
  <2>8. log[i].status = "ended"
    BY <2>2, <2>7 DEF Held
  <2> QED BY <2>1, <2>2, <2>6, <2>8 DEF CountedRuns
<1>3. \A k, l \in 1 .. MaxRuns : taker[k] = taker[l] => k = l
  <2> HIDE DEF taker
  <2> QED BY <1>1
<1>4. taker \in [1 .. MaxRuns -> CountedRuns(j)]
  BY <1>2
<1> HIDE DEF taker
<1>5. IsFiniteSet(CountedRuns(j)) /\ Cardinality(CountedRuns(j)) \in Nat
  <2>1. Len(log) \in Nat /\ DOMAIN log = 1 .. Len(log)
    BY DEF BreakerInv, Typed
  <2>2. IsFiniteSet(1 .. Len(log))
    BY <2>1, FS_Interval
  <2>3. CountedRuns(j) \in SUBSET (1 .. Len(log))
    BY <2>1 DEF CountedRuns
  <2> QED BY <2>2, <2>3, FS_Subset, FS_CardinalityType
<1>6. IsFiniteSet(1 .. MaxRuns) /\ Cardinality(1 .. MaxRuns) = MaxRuns
  BY RemediationAssumption, FS_Interval
<1>7. Cardinality(CountedRuns(j)) < Cardinality(1 .. MaxRuns)
  BY <1>5, <1>6, RemediationAssumption DEF Tripped
<1>8. \E k, l \in 1 .. MaxRuns : k # l /\ taker[k] = taker[l]
  <2> DEFINE all == 1 .. MaxRuns
             counted == CountedRuns(j)
  <2> HIDE DEF all, counted
  <2>1. /\ taker \in [all -> counted] /\ IsFiniteSet(all) /\ IsFiniteSet(counted)
        /\ Cardinality(counted) < Cardinality(all)
    BY <1>4, <1>5, <1>6, <1>7 DEF all, counted
  <2>2. \E k, l \in all : k # l /\ taker[k] = taker[l]
    BY <2>1, FS_PigeonHole
  <2> QED BY <2>2 DEF all
<1> QED BY <1>3, <1>8

(* Who has passed the guard takes a free place. *)
LEMMA PlaceTaken ==
  ASSUME BreakerInv, NEW j \in Jobs, ~Tripped(j), Open(j) = {}, UNCHANGED lost,
         NEW acted \in BOOLEAN, Began(j, "running", acted)
  PROVE  PlacesSuffice'
<1> DEFINE all == (1 .. MaxRuns) \X Owners
           new == Len(log) + 1
<1>1. PICK place \in Injection(Held, all) : \A i \in Held : Own(i, place[i][2])
  BY DEF BreakerInv, PlacesSuffice
<1>2. Owners' = Owners
  BY DEF Owners
<1>3. /\ place \in [Held -> all]
      /\ \A i, k \in Held : place[i] = place[k] => i = k
  <2> HIDE DEF all
  <2> QED BY <1>1, Fun_InjectionProperties
<1>4. PICK k \in 1 .. MaxRuns : \A i \in Held : place[i] # <<k, Rank[j]>>
  BY <1>1, <1>3, FreePlace
<1>5. <<k, Rank[j]>> \in all
  <2>1. Rank[j] \in Owners
    BY JobsAreRanked DEF Owners, BreakerInv, Typed
  <2> QED BY <2>1
<1>6. /\ Len(log) \in Nat /\ DOMAIN log = 1 .. Len(log) /\ DOMAIN log' = 1 .. new
      /\ \A i \in 1 .. Len(log) : log'[i] = log[i]
      /\ log'[new] = [of |-> j, status |-> "running", acted |-> acted]
  BY DEF Began, BreakerInv, Typed
<1> HIDE DEF all, new
<1>7. Held' = Held \cup {new} /\ new \notin Held
  BY <1>6 DEF Held, new
<1>8. PICK more : more = [i \in Held' |-> IF i = new THEN <<k, Rank[j]>> ELSE place[i]]
  OBVIOUS
<1>9. more \in Injection(Held', all)
  <2>1. more \in [Held' -> all]
    BY <1>3, <1>5, <1>7, <1>8
  <2>2. ASSUME NEW i \in Held', NEW l \in Held', more[i] = more[l]
        PROVE  i = l
    <3>1. CASE i = new
      BY <1>4, <1>7, <1>8, <2>2, <3>1
    <3>2. CASE l = new
      BY <1>4, <1>7, <1>8, <2>2, <3>2
    <3>3. CASE i # new /\ l # new
      BY <1>3, <1>7, <1>8, <2>2, <3>3
    <3> QED BY <3>1, <3>2, <3>3
  <2> QED BY <2>1, <2>2, Fun_IsInj
<1>10. ASSUME NEW i \in Held'
       PROVE  Own(i, more[i][2])'
  <2>1. PICK n : n = more[i][2]
    OBVIOUS
  <2>2. CASE i = new
    <3>1. n = Rank[j] /\ log'[i].of = j
      BY <1>6, <1>8, <2>1, <2>2
    <3>2. Own(i, n)'
      BY <3>1, RemediationAssumption DEF Own
    <3> QED BY <2>1, <3>2
  <2>3. CASE i # new
    <3>1. i \in Held /\ n = place[i][2] /\ i \in 1 .. Len(log)
      BY <1>6, <1>7, <1>8, <2>1, <2>3 DEF Held
    <3>2. Own(i, n) /\ log'[i] = log[i]
      BY <1>1, <1>6, <3>1
    <3>3. Own(i, n)'
      BY <3>2 DEF Own
    <3> QED BY <2>1, <3>3
  <2> QED BY <2>2, <2>3
<1>11. more \in Injection(Held', (1 .. MaxRuns) \X Owners')
  BY <1>2, <1>9 DEF all
<1> QED BY <1>10, <1>11 DEF PlacesSuffice

-----------------------------------------------------------------------------
(* What becomes of the log.                                                *)

LEMMA LogRows ==
  ASSUME Typed
  PROVE  /\ Len(log) \in Nat /\ DOMAIN log = 1 .. Len(log)
         /\ \A i \in DOMAIN log : log[i] \in Run
BY DEF Typed

(* A function on the log's numbers with runs for values is a log. *)
LEMMA RunsAreALog ==
  ASSUME Typed, NEW new \in [DOMAIN log -> Run]
  PROVE  new \in Seq(Run) /\ DOMAIN new = DOMAIN log
<1>1. new \in [1 .. Len(log) -> Run] /\ Len(log) \in Nat
  BY LogRows
<1> QED BY <1>1, SeqDef

(* Jobs that are where they were have the open runs they had. *)
LEMMA LogKept ==
  ASSUME BreakerInv, UNCHANGED <<log, lost>>, jobs' \in [Jobs -> Job],
         \A k \in Jobs : jobs'[k].at = jobs[k].at \/ Open(k) = {}
  PROVE  BreakerInv'
<1>1. Typed' /\ CommittedEnded'
  BY DEF BreakerInv, Typed, CommittedEnded
<1>2. \A k \in Jobs : Open(k)' = Open(k)
  BY DEF Open
<1>3. OneOpen'
  BY <1>2 DEF BreakerInv, OneOpen
<1>4. PlacesSuffice'
  BY PlacesStay DEF BreakerInv, Held
<1> QED BY <1>1, <1>3, <1>4 DEF BreakerInv

(* A refused run or a notification ends as it begins. *)
LEMMA RunAdded ==
  ASSUME BreakerInv, NEW j \in Jobs, NEW status \in {"ended", "undone"}, Began(j, status, FALSE),
         jobs[j].at = "next", UNCHANGED lost, jobs' \in [Jobs -> Job],
         \A k \in Jobs \ {j} : jobs'[k] = jobs[k]
  PROVE  BreakerInv'
<1>1. PICK new : new = [of |-> j, status |-> status, acted |-> FALSE]
  OBVIOUS
<1>2. new \in Run /\ new.of = j /\ new.status = status /\ new.acted = FALSE
  BY <1>1 DEF Run
<1>3. /\ Len(log) \in Nat /\ DOMAIN log = 1 .. Len(log) /\ DOMAIN log' = 1 .. Len(log) + 1
      /\ log' \in Seq(Run)
      /\ \A i \in DOMAIN log : log'[i] = log[i]
      /\ log'[Len(log) + 1] = new
  BY <1>1, <1>2 DEF Began, BreakerInv, Typed
<1>4. \A k \in Jobs : Open(k)' = Open(k)
  BY <1>2, <1>3 DEF Open
<1>5. Open(j) = {}
  BY DEF BreakerInv, OneOpen
<1>6. OneOpen'
  BY <1>3, <1>4, <1>5 DEF BreakerInv, OneOpen, Open
<1>7. CommittedEnded'
  BY <1>2, <1>3, RemediationAssumption DEF BreakerInv, CommittedEnded
<1>8. Held' = Held
  BY <1>2, <1>3 DEF Held
<1>9. PlacesSuffice'
  BY <1>3, <1>8, PlacesStay DEF BreakerInv, Held
<1> QED BY <1>3, <1>6, <1>7, <1>9 DEF BreakerInv, Typed

(* A run that the guard lets pass goes on. *)
LEMMA RunBegun ==
  ASSUME BreakerInv, NEW j \in Jobs, NEW capabilities, Passes(j, capabilities),
         NEW place \in {"baseline", "undoing"}, NEW acted \in BOOLEAN,
         Began(j, "running", acted), Moves(j, place), UNCHANGED lost
  PROVE  BreakerInv'
<1>1. PICK new : new = [of |-> j, status |-> "running", acted |-> acted]
  OBVIOUS
<1>2. new \in Run /\ new.of = j /\ new.status = "running"
  BY <1>1 DEF Run
<1>3. /\ Len(log) \in Nat /\ DOMAIN log = 1 .. Len(log) /\ DOMAIN log' = 1 .. Len(log) + 1
      /\ log' \in Seq(Run)
      /\ \A i \in DOMAIN log : log'[i] = log[i]
      /\ log'[Len(log) + 1] = new
  BY <1>1, <1>2 DEF Began, BreakerInv, Typed
<1>4. ~Tripped(j) /\ jobs[j].at = "next"
  BY PassesBelowLimit
<1>5. Open(j) = {}
  BY <1>4 DEF BreakerInv, OneOpen
<1>6. /\ jobs' \in [Jobs -> Job] /\ jobs'[j].at = place
      /\ \A k \in Jobs \ {j} : jobs'[k] = jobs[k]
  BY DEF Moves, BreakerInv, Typed, Job
<1>7. Open(j)' = {Len(log) + 1} /\ \A k \in Jobs \ {j} : Open(k)' = Open(k)
  BY <1>2, <1>3, <1>5 DEF Open
<1>8. OneOpen'
  <2>1. ASSUME NEW k \in Jobs
        PROVE  /\ \A i, l \in Open(k)' : i = l
               /\ Open(k)' # {} => jobs'[k].at \in {"baseline", "device", "undoing"}
    <3>1. CASE k = j
      BY <1>2, <1>3, <1>6, <1>7, <3>1
    <3>2. CASE k # j
      <4>1. Open(k)' = Open(k) /\ jobs'[k] = jobs[k] /\ \A i \in Open(k) : log'[i] = log[i]
        BY <1>3, <1>6, <1>7, <3>2 DEF Open
      <4> QED BY <4>1 DEF BreakerInv, OneOpen
    <3> QED BY <3>1, <3>2
  <2> QED BY <2>1 DEF OneOpen
<1>9. CommittedEnded'
  BY <1>2, <1>3, RemediationAssumption DEF BreakerInv, CommittedEnded
<1>10. PlacesSuffice'
  BY <1>4, <1>5, PlaceTaken
<1> QED BY <1>3, <1>6, <1>8, <1>9, <1>10 DEF BreakerInv, Typed

(* What a job writes down goes to its open run: a run keeps the place it has. *)
LEMMA RunWritten ==
  ASSUME BreakerInv, NEW j \in Jobs, NEW status \in {"running", "ended", "undone"},
         NEW acted \in BOOLEAN, Wrote(j, status, acted),
         UNCHANGED lost, jobs' \in [Jobs -> Job], \A k \in Jobs \ {j} : jobs'[k] = jobs[k],
         status = "running" => jobs'[j].at = "device"
  PROVE  BreakerInv'
<1>1. /\ Len(log) \in Nat /\ DOMAIN log = 1 .. Len(log)
      /\ \A i \in DOMAIN log : log[i] \in Run
  BY LogRows DEF BreakerInv
<1>2. DOMAIN log' = DOMAIN log
  BY DEF Wrote
<1>3. ASSUME NEW i \in DOMAIN log
      PROVE  /\ i \notin Open(j) => log'[i] = log[i]
             /\ i \in Open(j) => /\ log'[i].of = j /\ log'[i].status = status
                                 /\ log'[i].acted = (log[i].acted \/ acted)
             /\ log'[i] \in Run /\ log'[i].of = log[i].of
  <2>1. CASE i \notin Open(j)
    BY <1>1, <2>1 DEF Wrote
  <2>2. CASE i \in Open(j)
    <3>1. log'[i] = [log[i] EXCEPT !.status = status, !.acted = log[i].acted \/ acted]
      BY <2>2 DEF Wrote
    <3>2. log[i] \in Run /\ log[i].of = j /\ (log[i].acted \/ acted) \in BOOLEAN
      BY <1>1, <2>2 DEF Open, Run
    <3> QED BY <2>2, <3>1, <3>2 DEF Run
  <2> QED BY <2>1, <2>2
<1>4. log' \in Seq(Run)
  <2>1. log' \in [DOMAIN log -> Run]
    BY <1>3 DEF Wrote
  <2> QED BY <2>1, RunsAreALog DEF BreakerInv
<1>5. \A k \in Jobs \ {j} : Open(k)' = Open(k)
  BY <1>2, <1>3 DEF Open
<1>6. Open(j)' = IF status = "running" THEN Open(j) ELSE {}
  BY <1>2, <1>3 DEF Open
<1>7. OneOpen'
  <2>1. ASSUME NEW k \in Jobs
        PROVE  /\ \A i, l \in Open(k)' : i = l
               /\ Open(k)' # {} => jobs'[k].at \in {"baseline", "device", "undoing"}
    <3>1. CASE k = j
      BY <1>6, <3>1 DEF BreakerInv, OneOpen
    <3>2. CASE k # j
      <4>1. Open(k)' = Open(k) /\ jobs'[k] = jobs[k] /\ \A i \in Open(k) : log'[i] = log[i]
        BY <1>3, <1>5, <3>2 DEF Open
      <4> QED BY <4>1 DEF BreakerInv, OneOpen
    <3> QED BY <3>1, <3>2
  <2> QED BY <2>1 DEF OneOpen
<1>8. CommittedEnded'
  <2>1. ASSUME NEW i \in DOMAIN log
        PROVE  log'[i].of = "committed" => log'[i].status # "running"
    <3>1. CASE i \notin Open(j)
      BY <1>3, <3>1 DEF BreakerInv, CommittedEnded
    <3>2. CASE i \in Open(j)
      BY <1>3, <3>2, RemediationAssumption
    <3> QED BY <3>1, <3>2
  <2> QED BY <1>2, <2>1 DEF CommittedEnded
<1>9. Held' \subseteq Held
  BY <1>2, <1>3 DEF Held, Open
<1>10. \A i \in Held' : log'[i].of = log[i].of
  BY <1>2, <1>3 DEF Held
<1>11. PlacesSuffice'
  BY <1>9, <1>10, PlacesStay DEF BreakerInv
<1> QED BY <1>4, <1>7, <1>8, <1>11 DEF BreakerInv, Typed

(* Whoever leaves takes all its runs along. *)
LEMMA LeavesRows ==
  ASSUME BreakerInv, NEW gone \in SUBSET Jobs, NEW as \in {"committed", "lost"}, Leaves(gone, as),
         as = "committed" => \A j \in gone : Open(j) = {}
  PROVE  /\ log' \in Seq(Run) /\ jobs' \in [Jobs -> Job]
         /\ DOMAIN log' = DOMAIN log
         /\ \A i \in DOMAIN log :
              /\ log'[i].status = log[i].status /\ log'[i].acted = log[i].acted
              /\ log'[i].of = IF log[i].of \in gone THEN as ELSE log[i].of
         /\ Held' = Held /\ OneOpen' /\ CommittedEnded'
<1>1. /\ DOMAIN log = 1 .. Len(log)
      /\ \A i \in DOMAIN log : log[i] \in Run
  BY LogRows DEF BreakerInv
<1>2. DOMAIN log' = DOMAIN log
  BY DEF Leaves
<1>3. ASSUME NEW i \in DOMAIN log
      PROVE  /\ log'[i].status = log[i].status /\ log'[i].acted = log[i].acted
             /\ log'[i].of = IF log[i].of \in gone THEN as ELSE log[i].of
             /\ log'[i] \in Run
  <2>1. CASE log[i].of \in gone
    <3>1. log'[i] = [log[i] EXCEPT !.of = as]
      BY <2>1 DEF Leaves
    <3> QED BY <1>1, <2>1, <3>1 DEF Run
  <2>2. CASE log[i].of \notin gone
    BY <1>1, <2>2 DEF Leaves
  <2> QED BY <2>1, <2>2
<1>4. log' \in Seq(Run)
  <2>1. log' \in [DOMAIN log -> Run]
    BY <1>3 DEF Leaves
  <2> QED BY <2>1, RunsAreALog DEF BreakerInv
<1>5. jobs' \in [Jobs -> Job] /\ \A j \in Jobs : jobs'[j] = IF j \in gone THEN Idle ELSE jobs[j]
  BY DEF Leaves, BreakerInv, Typed, Idle, Job
<1>6. Held' = Held
  BY <1>2, <1>3 DEF Held
<1>7. \A j \in Jobs : Open(j)' = IF j \in gone THEN {} ELSE Open(j)
  <2>1. as \notin Jobs
    BY RemediationAssumption
  <2>2. ASSUME NEW j \in Jobs, NEW i \in DOMAIN log
        PROVE  log'[i].of = j <=> log[i].of = j /\ j \notin gone
    BY <1>3, <2>1
  <2>3. ASSUME NEW j \in Jobs
        PROVE  Open(j)' = {i \in Open(j) : j \notin gone}
    <3>1. \A i \in DOMAIN log : /\ log'[i].status = log[i].status
                                /\ log'[i].of = j <=> log[i].of = j /\ j \notin gone
      BY <1>3, <2>2
    <3>2. \A i : i \in Open(j)' <=> i \in Open(j) /\ j \notin gone
      BY <1>2, <3>1 DEF Open
    <3> QED BY <3>2
  <2> QED BY <2>3
<1>8. OneOpen'
  <2>1. ASSUME NEW k \in Jobs
        PROVE  /\ \A i, l \in Open(k)' : i = l
               /\ Open(k)' # {} => jobs'[k].at \in {"baseline", "device", "undoing"}
    <3>1. CASE k \in gone
      BY <1>7, <3>1
    <3>2. CASE k \notin gone
      <4>1. Open(k)' = Open(k) /\ jobs'[k] = jobs[k]
            /\ \A i \in Open(k) : log'[i].acted = log[i].acted
        BY <1>3, <1>5, <1>7, <3>2 DEF Open
      <4> QED BY <4>1 DEF BreakerInv, OneOpen
    <3> QED BY <3>1, <3>2
  <2> QED BY <2>1 DEF OneOpen
<1>9. CommittedEnded'
  <2>1. ASSUME NEW i \in DOMAIN log
        PROVE  log'[i].of = "committed" => log'[i].status # "running"
    <3>1. log'[i].of = "committed" /\ log[i].of # "committed" => i \notin Open(log[i].of)
      BY <1>3
    <3>2. log'[i].of = "committed" => log[i].status # "running"
      BY <3>1 DEF Open, BreakerInv, CommittedEnded
    <3> QED BY <1>3, <3>2 DEF BreakerInv, CommittedEnded
  <2> QED BY <1>2, <2>1 DEF CommittedEnded
<1> QED BY <1>2, <1>3, <1>4, <1>5, <1>6, <1>8, <1>9

LEMMA JobCommits ==
  ASSUME BreakerInv, NEW j \in Jobs, jobs[j].at = "next", Leaves({j}, "committed"), UNCHANGED lost
  PROVE  BreakerInv'
<1>1. Open(j) = {}
  BY DEF BreakerInv, OneOpen
<1>2. /\ log' \in Seq(Run) /\ jobs' \in [Jobs -> Job]
      /\ \A i \in DOMAIN log :
           log'[i].of = IF log[i].of \in {j} THEN "committed" ELSE log[i].of
      /\ Held' = Held /\ OneOpen' /\ CommittedEnded'
  BY <1>1, LeavesRows
<1>3. PlacesSuffice'
  <2>1. \A i \in Held' : \/ log'[i].of = log[i].of
                         \/ log[i].of \in Jobs /\ log'[i].of = "committed"
    BY <1>2 DEF Held
  <2> QED BY <1>2, <2>1, PlacesStay DEF BreakerInv
<1> QED BY <1>2, <1>3 DEF BreakerInv, Typed

(* Jobs that are lost take their runs to places of their own, and leave theirs to
   the jobs that come after them. *)
LEMMA JobsLost ==
  ASSUME BreakerInv, NEW gone \in SUBSET Jobs, Leaves(gone, "lost"), lost' = lost + Cardinality(gone)
  PROVE  BreakerInv'
<1> DEFINE all == (1 .. MaxRuns) \X Owners
           taken == (1 .. MaxRuns) \X Owners'
           few == 1 .. Cardinality(gone)
<1>1. /\ log' \in Seq(Run) /\ jobs' \in [Jobs -> Job]
      /\ \A i \in DOMAIN log :
           log'[i].of = IF log[i].of \in gone THEN "lost" ELSE log[i].of
      /\ Held' = Held /\ OneOpen' /\ CommittedEnded'
  BY LeavesRows
<1>2. IsFiniteSet(gone) /\ Cardinality(gone) \in Nat /\ lost \in Nat
  BY RemediationAssumption, FS_Subset, FS_CardinalityType DEF BreakerInv, Typed
<1>3. PICK number \in Bijection(gone, few) : TRUE
  <2>1. ExistsBijection(few, gone)
    BY <1>2, FS_CardinalityType
  <2>2. ExistsBijection(gone, few)
    BY <2>1, Fun_ExistsBijSymmetric
  <2> QED BY <2>2 DEF ExistsBijection
<1>4. number \in [gone -> few] /\ \A j, k \in gone : number[j] = number[k] => j = k
  <2> HIDE DEF few
  <2> QED BY <1>3, Fun_BijectionProperties
<1>5. PICK place \in Injection(Held, all) : \A i \in Held : Own(i, place[i][2])
  BY DEF BreakerInv, PlacesSuffice
<1>6. /\ place \in [Held -> all]
      /\ \A i, k \in Held : place[i] = place[k] => i = k
  <2> HIDE DEF all
  <2> QED BY <1>5, Fun_InjectionProperties
<1>7. PICK jobCount \in Nat : jobCount = Cardinality(Jobs)
  BY JobsAreRanked
<1> DEFINE Moved(i) == <<place[i][1], jobCount + lost + number[log[i].of]>>
<1>8. PICK moved : moved = [i \in Held' |-> IF log[i].of \in gone THEN Moved(i) ELSE place[i]]
  OBVIOUS
<1>9. \A i \in Held : place[i] = <<place[i][1], place[i][2]>> /\ place[i][1] \in 1 .. MaxRuns
                      /\ place[i][2] \in Owners
  BY <1>6
<1>10. Owners = 1 .. (jobCount + lost) /\ Owners' = 1 .. (jobCount + lost + Cardinality(gone))
  BY <1>2, <1>7 DEF Owners
<1>11. ASSUME NEW i \in Held
       PROVE  /\ log[i].of \in gone => moved[i] = Moved(i) /\ number[log[i].of] \in few
              /\ log[i].of \notin gone => moved[i] = place[i]
              /\ moved[i] \in taken
  <2>1. CASE log[i].of \in gone
    <3>1. number[log[i].of] \in few
      BY <1>4, <2>1
    <3>2. jobCount + lost + number[log[i].of] \in Owners'
      BY <1>2, <1>7, <1>10, <3>1
    <3> QED BY <1>1, <1>8, <1>9, <2>1, <3>1, <3>2
  <2>2. CASE log[i].of \notin gone
    <3>2. moved[i] = place[i]
      BY <1>1, <1>8, <2>2
    <3>3. PICK a \in 1 .. MaxRuns, b \in Owners : place[i] = <<a, b>>
      BY <1>6
    <3>4. b \in Owners'
      BY <1>2, <1>7, <1>10
    <3>5. place[i] \in taken
      BY <3>3, <3>4
    <3> QED BY <2>2, <3>2, <3>5
  <2> QED BY <2>1, <2>2
<1>12. moved \in Injection(Held', taken)
  <2>1. moved \in [Held' -> taken]
    BY <1>1, <1>8, <1>11
  <2>2. ASSUME NEW i \in Held, NEW k \in Held, moved[i] = moved[k], log[i].of \in gone
        PROVE  i = k
    <3>1. moved[i][2] = jobCount + lost + number[log[i].of] /\ number[log[i].of] \in few
      BY <1>11, <2>2
    <3>2. log[k].of \in gone
      <4>1. CASE log[k].of \notin gone
        <5>1. moved[k][2] \in 1 .. (jobCount + lost)
          BY <1>9, <1>10, <1>11, <4>1
        <5> QED BY <1>2, <1>7, <2>2, <3>1, <5>1
      <4> QED BY <4>1
    <3>3. moved[k][2] = jobCount + lost + number[log[k].of] /\ number[log[k].of] \in few
      BY <1>11, <3>2
    <3>4. number[log[i].of] = number[log[k].of]
      <4>1. \A a, b \in few, n \in Nat : n + a = n + b => a = b
        OBVIOUS
      <4> QED BY <1>2, <1>7, <2>2, <3>1, <3>3, <4>1
    <3>5. log[i].of = log[k].of
      BY <1>4, <2>2, <3>2, <3>4
    <3>6. place[i][1] = place[k][1]
      BY <1>11, <2>2, <3>2
    <3>7. place[i][2] = place[k][2]
      BY <1>5, <2>2, <3>5 DEF Own
    <3> QED BY <1>6, <1>9, <3>6, <3>7
  <2>3. \A i, k \in Held' : moved[i] = moved[k] => i = k
    <3>1. ASSUME NEW i \in Held, NEW k \in Held, moved[i] = moved[k]
          PROVE  i = k
      <4>1. CASE log[i].of \notin gone /\ log[k].of \notin gone
        BY <1>6, <1>11, <3>1, <4>1
      <4> QED BY <2>2, <3>1, <4>1
    <3> QED BY <1>1, <3>1
  <2> HIDE DEF taken
  <2> QED BY <2>1, <2>3, Fun_IsInj
<1>13. ASSUME NEW i \in Held'
       PROVE  Own(i, moved[i][2])'
  <2>1. PICK n : n = moved[i][2]
    OBVIOUS
  <2>2. i \in Held /\ i \in DOMAIN log
    BY <1>1 DEF Held
  <2>3. CASE log[i].of \in gone
    <3>1. log'[i].of = "lost"
      BY <1>1, <2>2, <2>3
    <3>2. n > Cardinality(Jobs)
      BY <1>2, <1>7, <1>11, <2>1, <2>2, <2>3
    <3>3. Own(i, n)'
      BY <3>1, <3>2, RemediationAssumption DEF Own
    <3> QED BY <2>1, <3>3
  <2>4. CASE log[i].of \notin gone
    <3>1. log'[i].of = log[i].of /\ n = place[i][2]
      BY <1>1, <1>11, <2>1, <2>2, <2>4
    <3>2. Own(i, n)
      BY <1>5, <2>2, <3>1
    <3>3. Own(i, n)'
      BY <3>1, <3>2 DEF Own
    <3> QED BY <2>1, <3>3
  <2> QED BY <2>3, <2>4
<1>14. PlacesSuffice'
  BY <1>12, <1>13 DEF PlacesSuffice
<1>15. lost' \in Nat
  BY <1>2
<1> QED BY <1>1, <1>14, <1>15 DEF BreakerInv, Typed

(* A run that leaves the window gives its place back. *)
LEMMA RunAges ==
  ASSUME BreakerInv, log # <<>>, log' = Tail(log), UNCHANGED <<lost, jobs>>
  PROVE  BreakerInv'
<1> DEFINE all == (1 .. MaxRuns) \X Owners
<1>1. /\ Len(log) \in Nat /\ DOMAIN log = 1 .. Len(log)
      /\ log' \in Seq(Run) /\ DOMAIN log' = 1 .. (Len(log) - 1)
      /\ \A i \in DOMAIN log' : log'[i] = log[i + 1]
  BY HeadTailProperties DEF BreakerInv, Typed
<1>2. \A i \in DOMAIN log' : i \in Int /\ i + 1 \in DOMAIN log
  BY <1>1
<1>3. \A k \in Jobs : \A i \in Open(k)' : i \in DOMAIN log' /\ i + 1 \in Open(k)
  BY <1>1, <1>2 DEF Open
<1>4. OneOpen'
  <2>1. ASSUME NEW k \in Jobs
        PROVE  /\ \A i, l \in Open(k)' : i = l
               /\ Open(k)' # {} => jobs'[k].at \in {"baseline", "device", "undoing"}
    <3>1. ASSUME NEW i \in Open(k)', NEW l \in Open(k)'
          PROVE  i = l
      <4>1. i + 1 = l + 1 /\ i \in Int /\ l \in Int
        BY <1>2, <1>3 DEF BreakerInv, OneOpen
      <4> QED BY <4>1
    <3>2. Open(k)' # {} => Open(k) # {}
      BY <1>3
    <3>3. \A i \in Open(k)' : log'[i] = log[i + 1] /\ i + 1 \in Open(k)
      BY <1>1, <1>3
    <3> QED BY <3>1, <3>2, <3>3 DEF BreakerInv, OneOpen
  <2> QED BY <2>1 DEF OneOpen
<1>5. CommittedEnded'
  BY <1>1, <1>2 DEF BreakerInv, CommittedEnded
<1>6. \A i \in Held' : i \in DOMAIN log' /\ i + 1 \in Held /\ log'[i] = log[i + 1]
  BY <1>1, <1>2 DEF Held
<1>7. PICK place \in Injection(Held, all) : \A i \in Held : Own(i, place[i][2])
  BY DEF BreakerInv, PlacesSuffice
<1>8. Owners' = Owners
  BY DEF Owners
<1> HIDE DEF all
<1>9. /\ place \in [Held -> all]
      /\ \A i, k \in Held : place[i] = place[k] => i = k
  BY <1>7, Fun_InjectionProperties
<1>10. PICK kept : kept = [i \in Held' |-> place[i + 1]]
  OBVIOUS
<1>11. kept \in Injection(Held', all)
  <2>1. kept \in [Held' -> all]
    BY <1>6, <1>9, <1>10
  <2>2. ASSUME NEW i \in Held', NEW k \in Held', kept[i] = kept[k]
        PROVE  i = k
    <3>1. i + 1 = k + 1
      BY <1>6, <1>9, <1>10, <2>2
    <3>2. i \in Int /\ k \in Int
      BY <1>2, <1>6
    <3> QED BY <3>1, <3>2
  <2> QED BY <2>1, <2>2, Fun_IsInj
<1>12. ASSUME NEW i \in Held'
       PROVE  Own(i, kept[i][2])'
  <2>1. PICK n : n = kept[i][2]
    OBVIOUS
  <2>2. Own(i + 1, n) /\ log'[i] = log[i + 1]
    BY <1>6, <1>7, <1>10, <2>1
  <2>3. Own(i, n)'
    BY <2>2 DEF Own
  <2> QED BY <2>1, <2>3
<1>13. kept \in Injection(Held', (1 .. MaxRuns) \X Owners')
  BY <1>8, <1>11 DEF all
<1>14. PlacesSuffice'
  BY <1>12, <1>13 DEF PlacesSuffice
<1> QED BY <1>1, <1>4, <1>5, <1>14 DEF BreakerInv, Typed

-----------------------------------------------------------------------------
(* The steps.                                                              *)

LEMMA JobGoesOn ==
  ASSUME BreakerInv, NEW j \in Jobs, NEW ok \in BOOLEAN, NEW failed \in BOOLEAN,
         GoesOn(j, ok, failed)
  PROVE  /\ jobs' \in [Jobs -> Job] /\ jobs'[j].at = "next"
         /\ \A k \in Jobs \ {j} : jobs'[k] = jobs[k]
<1>1. jobs \in [Jobs -> Job] /\ jobs[j] \in Job
  BY DEF BreakerInv, Typed
<1>2. PICK row : row = [jobs[j] EXCEPT !.at = "next", !.next = jobs[j].next + 1,
                                       !.ok = jobs[j].ok \/ ok, !.failed = jobs[j].failed \/ failed]
  OBVIOUS
<1>3. jobs' = [jobs EXCEPT ![j] = row]
  BY <1>1, <1>2 DEF GoesOn
<1>4. row \in Job /\ row.at = "next"
  <2>1. /\ jobs[j].next + 1 \in Nat
        /\ (jobs[j].ok \/ ok) \in BOOLEAN /\ (jobs[j].failed \/ failed) \in BOOLEAN
    BY <1>1 DEF Job
  <2>2. row = [at |-> "next", next |-> jobs[j].next + 1, ok |-> jobs[j].ok \/ ok,
               failed |-> jobs[j].failed \/ failed, undo |-> jobs[j].undo]
    BY <1>1, <1>2 DEF Job
  <2>3. jobs[j].undo \in BOOLEAN
    BY <1>1 DEF Job
  <2> QED BY <2>1, <2>2, <2>3 DEF Job
<1> QED BY <1>1, <1>3, <1>4

LEMMA JobMoves ==
  ASSUME BreakerInv, NEW j \in Jobs,
         NEW place \in {"next", "baseline", "device", "verdict", "undoing"}, Moves(j, place)
  PROVE  /\ jobs' \in [Jobs -> Job] /\ jobs'[j].at = place
         /\ \A k \in Jobs \ {j} : jobs'[k] = jobs[k]
BY DEF BreakerInv, Typed, Moves, Job

LEMMA NoneOpen ==
  ASSUME BreakerInv, NEW j \in Jobs, jobs[j].at \in {"idle", "next", "verdict"}
  PROVE  Open(j) = {}
BY DEF BreakerInv, OneOpen

LEMMA ExecuteStep ==
  ASSUME BreakerInv, NEW j \in Jobs, Execute(j)
  PROVE  BreakerInv'
<1>1. CASE Accept(j)
  BY <1>1, JobMoves, NoneOpen, LogKept DEF Accept, At
<1>2. CASE Skip(j)
  BY <1>2, JobGoesOn, NoneOpen, LogKept DEF Skip, Busy, At
<1>3. CASE Refuse(j)
  BY <1>3, JobGoesOn, RunAdded DEF Refuse, Busy, At
<1>4. CASE Notify(j)
  BY <1>4, JobGoesOn, PassesBelowLimit, RunAdded DEF Notify
<1>5. CASE Unsupported(j)
  BY <1>5, JobGoesOn, PassesBelowLimit, RunAdded DEF Unsupported
<1>6. CASE CaptureBaseline(j)
  BY <1>6, RunBegun DEF CaptureBaseline
<1>7. CASE BaselineFails(j)
  BY <1>7, JobGoesOn, RunWritten DEF BaselineFails
<1>8. CASE Aborts(j)
  BY <1>8, JobGoesOn, RunWritten DEF Aborts
<1>9. CASE ActOverSSH(j)
  <2>1. CASE Wrote(j, "ended", TRUE) /\ Moves(j, "verdict")
    BY <1>9, <2>1, JobMoves, RunWritten DEF ActOverSSH
  <2>2. CASE \E acted \in BOOLEAN : Wrote(j, "ended", acted) /\ GoesOn(j, FALSE, TRUE)
    BY <1>9, <2>2, JobGoesOn, RunWritten DEF ActOverSSH
  <2> QED BY <1>9, <2>1, <2>2 DEF ActOverSSH
<1>10. CASE Act(j)
  BY <1>10, JobMoves, RunWritten DEF Act
<1>11. CASE Answer(j)
  <2>1. CASE Moves(j, "verdict")
    BY <1>11, <2>1, JobMoves, RunWritten DEF Answer
  <2>2. CASE GoesOn(j, FALSE, TRUE)
    BY <1>11, <2>2, JobGoesOn, RunWritten DEF Answer
  <2> QED BY <1>11, <2>1, <2>2 DEF Answer
<1>12. CASE Verify(j)
  BY <1>12, JobGoesOn, NoneOpen, LogKept DEF Verify, At
<1>13. CASE BeginRollback(j)
  <2>1. /\ jobs' \in [Jobs -> Job] /\ \A k \in Jobs : jobs'[k].at = jobs[k].at
    BY <1>13 DEF BeginRollback, BreakerInv, Typed, Job
  <2> QED BY <1>13, <2>1, LogKept DEF BeginRollback
<1>14. CASE StartUndo(j)
  BY <1>14, RunBegun DEF StartUndo
<1>15. CASE EndUndo(j)
  <2>1. CASE Wrote(j, "undone", TRUE)
    BY <1>15, <2>1, JobGoesOn, RunWritten DEF EndUndo
  <2>2. CASE Wrote(j, "ended", FALSE)
    BY <1>15, <2>2, JobGoesOn, RunWritten DEF EndUndo
  <2> QED BY <1>15, <2>1, <2>2 DEF EndUndo
<1> QED BY <1>1, <1>2, <1>3, <1>4, <1>5, <1>6, <1>7, <1>8, <1>9, <1>10, <1>11, <1>12, <1>13, <1>14,
           <1>15 DEF Execute

LEMMA BreakerInvInit ==
  ASSUME Init
  PROVE  BreakerInv
<1>1. Typed
  BY DEF Init, Typed, Idle, Job
<1>2. DOMAIN log = {}
  BY DEF Init
<1>3. OneOpen /\ CommittedEnded /\ Held = {}
  BY <1>2 DEF OneOpen, CommittedEnded, Open, Held
<1>4. PlacesSuffice
  <2>1. PICK none : none = [i \in Held |-> <<i, i>>]
    OBVIOUS
  <2>2. none \in [Held -> (1 .. MaxRuns) \X Owners] /\ \A i, k \in Held : none[i] = none[k] => i = k
    BY <1>3, <2>1
  <2>3. none \in Injection(Held, (1 .. MaxRuns) \X Owners)
    <3> DEFINE all == (1 .. MaxRuns) \X Owners
    <3> HIDE DEF all
    <3>1. none \in [Held -> all] /\ \A i, k \in Held : none[i] = none[k] => i = k
      BY <2>2 DEF all
    <3>2. none \in Injection(Held, all)
      BY <3>1, Fun_IsInj
    <3> QED BY <3>2 DEF all
  <2> QED BY <1>3, <2>3 DEF PlacesSuffice
<1> QED BY <1>1, <1>3, <1>4 DEF BreakerInv

LEMMA BreakerInvStep ==
  ASSUME BreakerInv, [Next]_vars
  PROVE  BreakerInv'
<1>1. ASSUME UNCHANGED <<jobs, log, lost>>
      PROVE  BreakerInv'
  <2>1. jobs' \in [Jobs -> Job]
    BY <1>1 DEF BreakerInv, Typed
  <2> QED BY <1>1, <2>1, LogKept
<1>2. CASE UNCHANGED vars
  BY <1>1, <1>2 DEF vars
<1>3. CASE \E lv \in Settings : SetLevel(lv)
  BY <1>1, <1>3 DEF SetLevel
<1>4. CASE Toggle \/ \E mode \in {"auto", "observe_only"} : SetMode(mode)
  BY <1>1, <1>4 DEF Toggle, SetMode, SetLevel
<1>5. ASSUME NEW j \in Jobs, Draft(j) \/ Approve(j) \/ Execute(j) \/ Commit(j) \/ Raise(j)
      PROVE  BreakerInv'
  <2>1. CASE Draft(j)
    BY <1>1, <2>1 DEF Draft
  <2>2. CASE Approve(j)
    BY <1>1, <2>2 DEF Approve
  <2>3. CASE Execute(j)
    BY <2>3, ExecuteStep
  <2>4. CASE Commit(j)
    BY <2>4, JobCommits DEF Commit, At
  <2>5. CASE Raise(j)
    <3>1. Cardinality({j}) = 1
      BY FS_Singleton
    <3>2. Leaves({j}, "lost") /\ lost' = lost + Cardinality({j})
      BY <2>5, <3>1 DEF Raise
    <3> QED BY <3>2, JobsLost
  <2> QED BY <1>5, <2>1, <2>2, <2>3, <2>4, <2>5
<1>6. CASE Crash
  <2>1. PICK gone \in SUBSET Jobs : Leaves(gone, "lost") /\ lost' = lost + Cardinality(gone)
    BY <1>6 DEF Crash
  <2> QED BY <2>1, JobsLost
<1>7. CASE Age
  BY <1>7, RunAges DEF Age
<1> QED BY <1>2, <1>3, <1>4, <1>5, <1>6, <1>7 DEF Next

(* The circuit breaker (policies/guard.py) bounds the changes that are made within
   its window for the cases of one target, and not rolled back, by MaxRuns for each
   job at once and each job that was lost with its rows: what passes the guard takes
   one of its job's MaxRuns places, which jobs that were committed before it may have
   left to it, and only a job that is lost makes room for others.  Changes that a
   rollback makes are outside it, for their runs do not count. *)
THEOREM BreakerBounds == RemediationSpec => []BreakerHolds
<1>1. ASSUME BreakerInv
      PROVE  BreakerHolds
  <2> DEFINE acted == {i \in DOMAIN log : log[i].acted /\ log[i].status # "undone"}
             all   == (1 .. MaxRuns) \X Owners
  <2>1. Cardinality(Jobs) \in Nat /\ lost \in Nat /\ Cardinality(Jobs) + lost \in Nat /\ MaxRuns \in Nat
    BY <1>1, JobsAreRanked, RemediationAssumption DEF BreakerInv, Typed
  <2>2. PICK place \in Injection(Held, all) : TRUE
    BY <1>1 DEF BreakerInv, PlacesSuffice
  <2>3. IsFiniteSet(all) /\ Cardinality(all) = MaxRuns * (Cardinality(Jobs) + lost)
    <3> DEFINE spots == 1 .. MaxRuns
    <3>1. IsFiniteSet(spots) /\ Cardinality(spots) = MaxRuns
      <4>1. MaxRuns \in Nat /\ 1 \in Int /\ MaxRuns \in Int
        BY <2>1
      <4>2. IsFiniteSet(1 .. MaxRuns)
            /\ Cardinality(1 .. MaxRuns) = IF 1 > MaxRuns THEN 0 ELSE MaxRuns - 1 + 1
        BY <4>1, FS_Interval
      <4> QED BY <4>1, <4>2
    <3>2. PICK n \in Nat : n = Cardinality(Jobs) + lost
      BY <2>1
    <3>3. IsFiniteSet(1 .. n) /\ Cardinality(1 .. n) = n
      BY FS_Interval
    <3>4. IsFiniteSet(Owners) /\ Cardinality(Owners) = n
      BY <3>2, <3>3 DEF Owners
    <3> HIDE DEF spots
    <3>5. IsFiniteSet(spots \X Owners) /\ Cardinality(spots \X Owners) = MaxRuns * n
      BY <3>1, <3>4, FS_Product
    <3> QED BY <3>2, <3>5 DEF spots
  <2> HIDE DEF all
  <2>4. IsFiniteSet(Held) /\ Cardinality(Held) <= Cardinality(all)
    BY <2>2, <2>3, FS_Injection
  <2>5. acted \in SUBSET Held
    <3>1. \A i \in DOMAIN log : log[i].status \in {"running", "ended", "undone"}
      BY <1>1, LogRows DEF BreakerInv, Run
    <3> QED BY <3>1 DEF Held
  <2>6. Cardinality(acted) <= Cardinality(Held) /\ IsFiniteSet(acted)
    <3> HIDE DEF acted
    <3> QED BY <2>4, <2>5, FS_Subset
  <2>7. Cardinality(acted) \in Nat /\ Cardinality(Held) \in Nat /\ Cardinality(all) \in Nat
    <3> HIDE DEF acted
    <3> QED BY <2>3, <2>4, <2>6, FS_CardinalityType
  <2>8. Cardinality(acted) <= Cardinality(all)
    BY <2>4, <2>6, <2>7
  <2> QED BY <2>3, <2>8 DEF BreakerHolds
<1>2. Init => BreakerInv
  BY BreakerInvInit
<1>3. BreakerInv /\ [Next]_vars => BreakerInv'
  BY BreakerInvStep
<1> QED BY <1>1, <1>2, <1>3, PTL DEF RemediationSpec

-----------------------------------------------------------------------------
(* What an agent calls automatic.                                          *)

Plan == [stage : {"none", "drafted", "approved"}, actions : Seq(Action), mode : {"auto", "manual"},
         critic : {"none", "pass", "soft", "rejected"}, against : SUBSET {"R004", "R005", "R006"}]

(* The plan as AutoStands wants it. *)
Stands(plan) ==
  /\ plan.against = {}
  /\ plan.mode = "auto" => \A i \in DOMAIN plan.actions :
       LET a == plan.actions[i]
           t == Resolved(a)
       IN Executable(a) => \A lv \in 2 .. 5, core, approved \in BOOLEAN :
            Refusal(t, Merged(a), ModeOf(t), core, approved, lv, FALSE) = "none"

(* The tools an agent may use unasked. *)
Harmless == {"notify", "status", "interface"}

LEMMA CatalogOfHarmless ==
  /\ Harmless \subseteq Registered
  /\ \A t \in Harmless :
       /\ Catalog[t].risk = 0 /\ Catalog[t].screened = "no"
       /\ ~Catalog[t].approval /\ Catalog[t].executable
       /\ Catalog[t].capability \in {"notification", "read_only"}
       /\ ModeOf(t) \in Catalog[t].modes
  /\ ~Catalog["status"].needs
<1>1. Harmless \subseteq Registered
  BY DEF Harmless, Registered, Catalog
<1>2. ASSUME NEW t \in Harmless
      PROVE  /\ Catalog[t].risk = 0 /\ Catalog[t].screened = "no"
             /\ ~Catalog[t].approval /\ Catalog[t].executable
             /\ Catalog[t].capability \in {"notification", "read_only"}
             /\ ModeOf(t) \in Catalog[t].modes
  <2>1. CASE t = "notify"
    BY <1>1, <2>1 DEF Catalog, ModeOf
  <2>2. CASE t = "status"
    BY <1>1, <2>2 DEF Catalog, ModeOf
  <2>3. CASE t = "interface"
    BY <1>1, <2>3 DEF Catalog, ModeOf
  <2> QED BY <2>1, <2>2, <2>3 DEF Harmless
<1>3. ~Catalog["status"].needs
  BY DEF Catalog
<1> QED BY <1>1, <1>2, <1>3

(* Every other tool wants an approval or cannot be executed at all. *)
LEMMA OthersAsk ==
  ASSUME NEW t \in Registered, Catalog[t].executable, ~Catalog[t].approval
  PROVE  t \in Harmless
<1>1. t \in {"manual", "notify", "api", "script", "show", "config", "status", "interface"}
  BY DEF Registered, Catalog
<1>2. t # "manual" /\ t # "show"
  BY DEF Catalog
<1>3. t # "api" /\ t # "script" /\ t # "config"
  BY DEF Catalog
<1> QED BY <1>1, <1>2, <1>3 DEF Harmless

LEMMA HarmlessHasNoRisk ==
  ASSUME NEW t \in Harmless, NEW v, NEW core
  PROVE  Risk(t, v, core) = 0
<1>1. Catalog[t].risk = 0 /\ Catalog[t].screened = "no"
  BY CatalogOfHarmless
<1>2. Max({0}) = 0
  BY DEF Max
<1>3. {0, 0, 0} = {0}
  OBVIOUS
<1> QED BY <1>1, <1>2, <1>3 DEF Risk

LEMMA HarmlessPasses ==
  ASSUME NEW t \in Harmless, NEW v, Valid(t, v), NEW lv \in 2 .. 5,
         NEW core \in BOOLEAN, NEW approved \in BOOLEAN
  PROVE  Refusal(t, v, ModeOf(t), core, approved, lv, FALSE) = "none"
<1>1. /\ t \in Registered /\ ~Catalog[t].approval /\ Catalog[t].executable
      /\ Catalog[t].capability # "mutation" /\ ModeOf(t) \in Catalog[t].modes
  BY CatalogOfHarmless
<1>2. ~WantsApproval(t, v, core, lv)
  <2>1. Threshold[lv] >= 1
    BY DEF Threshold, Levels
  <2>2. ~(Risk(t, v, core) >= Threshold[lv])
    <3>1. Threshold[lv] \in Int
      BY DEF Threshold, Levels
    <3> QED BY <2>1, <3>1, HarmlessHasNoRisk
  <2> QED BY <1>1, <2>2 DEF WantsApproval
<1>3. lv # 0 /\ lv # 1
  OBVIOUS
<1> QED BY <1>1, <1>2, <1>3 DEF Refusal

(* What the check beforehand lets pass unasked needs nobody's approval later. *)
LEMMA CheckedBeforehand ==
  ASSUME NEW a \in Action, NEW core \in BOOLEAN, Executable(a), ~PreNeedsApproval(a, core),
         PreRefusal(a, core) \in {"none", "approval_required"},
         NEW lv \in 2 .. 5, NEW c \in BOOLEAN, NEW approved \in BOOLEAN
  PROVE  Refusal(Resolved(a), Merged(a), ModeOf(Resolved(a)), c, approved, lv, FALSE) = "none"
<1>1. a.tool \in Registered /\ Catalog[a.tool].executable
  BY DEF Executable
<1>2. a.tool # "none"
  BY <1>1 DEF Registered, Catalog
<1>3. Resolved(a) = a.tool
  BY <1>2 DEF Resolved
<1>4. PreSound(a)
  BY <1>1 DEF PreRefusal, Refusal, PreSound
<1>5. ~Catalog[a.tool].approval
  BY <1>4 DEF PreNeedsApproval, WantsApproval
<1>6. a.tool \in Harmless
  BY <1>1, <1>5, OthersAsk
<1>7. Valid(a.tool, Merged(a))
  <2>1. CASE a.tool = "status"
    BY <2>1, CatalogOfHarmless DEF Valid
  <2>2. CASE a.tool = "notify"
    BY <1>3, <2>2 DEF Valid, Merged
  <2>3. CASE a.tool = "interface"
    <3>1. Catalog["interface"].needs
      BY DEF Catalog
    <3>2. a.params # "none"
      BY <1>4, <2>3, <3>1 DEF PreSound, Valid
    <3>3. a.params \in {"plain", "rough"}
      BY <3>2 DEF Action, Values
    <3>4. Merged(a) \in {"plain", "rough"}
      BY <1>3, <2>3, <3>3 DEF Merged
    <3> QED BY <3>4 DEF Valid
  <2> QED BY <1>6, <2>1, <2>2, <2>3 DEF Harmless
<1> QED BY <1>3, <1>6, <1>7, HarmlessPasses

LEMMA Recommends ==
  ASSUME NEW rule \in Rules, NEW urgent
  PROVE  Recommended(rule, urgent) \in Seq(Action)
<1> DEFINE base == IF rule = <<>> THEN <<Advice>> ELSE rule
           more == IF urgent THEN <<Advice>> ELSE <<>>
           all  == base \o more
<1>1. Advice \in Action
  BY DEF Advice, Action, Registered, Catalog, Values
<1>2. base \in Seq(Action) /\ more \in Seq(Action)
  BY <1>1, RemediationAssumption, EmptySeq
<1> HIDE DEF base, more
<1>3. all \in Seq(Action)
  BY <1>2
<1>4. Len(all) \in Nat /\ DOMAIN all = 1 .. Len(all)
  BY <1>3
<1> HIDE DEF all
<1>5. ASSUME NEW a \in Action
      PROVE  [a EXCEPT !.tool = Inferred(a)] \in Action
  <2>1. {"notify", "api", "script", "manual"} \subseteq Registered
    BY DEF Registered, Catalog
  <2>2. Inferred(a) \in Registered \cup {"none", "unknown"}
    BY <2>1 DEF Inferred, Action
  <2> QED BY <2>2 DEF Action
<1>6. PICK acts : acts = [i \in DOMAIN all |-> [all[i] EXCEPT !.tool = Inferred(all[i])]]
  OBVIOUS
<1>7. acts \in [1 .. Len(all) -> Action]
  BY <1>3, <1>4, <1>5, <1>6
<1>8. acts \in Seq(Action)
  BY <1>4, <1>7, SeqDef
<1> QED BY <1>6, <1>8 DEF Recommended, all, base, more

(* Of two numbers. *)
LEMMA MaxOfTwo ==
  ASSUME NEW a \in Int, NEW b \in Int
  PROVE  Max({a, b}) = (IF a >= b THEN a ELSE b) /\ Min({a, b}) = (IF a <= b THEN a ELSE b)
<1>1. \E x \in {a, b} : \A y \in {a, b} : x >= y
  OBVIOUS
<1>2. \E x \in {a, b} : \A y \in {a, b} : x <= y
  OBVIOUS
<1>3. Max({a, b}) \in {a, b} /\ \A y \in {a, b} : Max({a, b}) >= y
  BY <1>1 DEF Max
<1>4. Min({a, b}) \in {a, b} /\ \A y \in {a, b} : Min({a, b}) <= y
  BY <1>2 DEF Min
<1> QED BY <1>3, <1>4

LEMMA DraftsStand ==
  ASSUME NEW lv \in Levels, NEW plan \in Drafts[lv]
  PROVE  plan \in Plan /\ Stands(plan)
<1> DEFINE Acts(rule, seen) == Recommended(rule, seen.priority \in {"P1", "P2"})
           Mode(acts, seen, core) == IF Eligible(acts, core, lv, seen) THEN "auto" ELSE "manual"
           Drafted(acts, seen, core, mode) ==
             Reviewed([NoPlan EXCEPT !.stage = "drafted", !.actions = acts, !.mode = mode],
                      Findings(acts, core, mode, lv, seen))
<1>1. PICK rule \in Rules, seen \in Seen, core \in BOOLEAN :
        plan = Drafted(Acts(rule, seen), seen, core, Mode(Acts(rule, seen), seen, core))
  BY DEF Drafts
<1>2. PICK acts : acts = Acts(rule, seen)
  OBVIOUS
<1>3. PICK mode : mode = Mode(acts, seen, core)
  OBVIOUS
<1>4. /\ acts = Recommended(rule, seen.priority \in {"P1", "P2"})
      /\ mode = IF Eligible(acts, core, lv, seen) THEN "auto" ELSE "manual"
      /\ plan = Reviewed([NoPlan EXCEPT !.stage = "drafted", !.actions = acts, !.mode = mode],
                         Findings(acts, core, mode, lv, seen))
  BY <1>1, <1>2, <1>3
<1> HIDE DEF Acts, Mode, Drafted
<1>5. acts \in Seq(Action)
  <2> DEFINE urgent == seen.priority \in {"P1", "P2"}
  <2> HIDE DEF urgent
  <2>1. Recommended(rule, urgent) \in Seq(Action)
    BY Recommends
  <2> QED BY <1>4, <2>1 DEF urgent
<1>6. PICK found : found = Findings(acts, core, mode, lv, seen)
  OBVIOUS
<1>7. /\ plan.actions = acts
      /\ plan.against = found \cap {"R004", "R005", "R006"}
      /\ plan.mode = "auto" => mode = "auto"
  BY <1>4, <1>6 DEF Reviewed, NoPlan
<1>8. mode = "auto" => Eligible(acts, core, lv, seen)
  BY <1>4
<1>9. plan.against = {}
  <2>1. CASE mode # "auto"
    BY <1>6, <1>7, <2>1 DEF Findings
  <2>2. CASE mode = "auto"
    <3>1. lv >= 2 /\ seen.confidence = 8 /\ seen.priority # "P1"
      BY <1>8, <2>2 DEF Eligible, Seen
    <3>2. Min({9, Max({seen.confidence, 4})}) = 8
      <4>1. Max({8, 4}) = 8
        BY MaxOfTwo
      <4>2. Min({9, 8}) = 8
        BY MaxOfTwo
      <4> QED BY <3>1, <4>1, <4>2
    <3>3. ~(lv <= 1)
      BY <3>1 DEF Levels
    <3> QED BY <1>6, <1>7, <3>1, <3>2, <3>3 DEF Findings
  <2> QED BY <2>1, <2>2
<1>10. ASSUME plan.mode = "auto", NEW i \in DOMAIN plan.actions, Executable(plan.actions[i]),
             NEW any \in 2 .. 5, NEW c \in BOOLEAN, NEW approved \in BOOLEAN
      PROVE  Refusal(Resolved(plan.actions[i]), Merged(plan.actions[i]),
                     ModeOf(Resolved(plan.actions[i])), c, approved, any, FALSE) = "none"
  <2>1. acts[i] \in Action /\ i \in DOMAIN acts
    BY <1>5, <1>7, <1>10
  <2> DEFINE a == plan.actions[i]
  <2>4. a = acts[i]
    BY <1>7
  <2>2. Eligible(acts, core, lv, seen)
    BY <1>7, <1>8, <1>10
  <2>3. ~PreNeedsApproval(acts[i], core) /\ PreRefusal(acts[i], core) \in {"none", "approval_required"}
    BY <1>7, <1>10, <2>1, <2>2 DEF Eligible
  <2>5. a \in Action /\ Executable(a) /\ ~PreNeedsApproval(a, core)
        /\ PreRefusal(a, core) \in {"none", "approval_required"}
    BY <1>10, <2>1, <2>3, <2>4
  <2> HIDE DEF a
  <2>6. Refusal(Resolved(a), Merged(a), ModeOf(Resolved(a)), c, approved, any, FALSE) = "none"
    BY <2>5, CheckedBeforehand
  <2> QED BY <2>6 DEF a
<1>11. plan \in Plan
  <2>1. PICK draft : draft = [NoPlan EXCEPT !.stage = "drafted", !.actions = acts, !.mode = mode]
    OBVIOUS
  <2>2. mode \in {"auto", "manual"}
    BY <1>4
  <2>3. draft \in Plan
    BY <1>5, <2>1, <2>2 DEF NoPlan, Plan
  <2>4. Decision(found) \in {"pass", "soft", "rejected"}
    BY DEF Decision
  <2>5. plan = [draft EXCEPT !.critic = Decision(found), !.against = found \cap {"R004", "R005", "R006"},
                             !.mode = IF Decision(found) = "rejected" THEN "manual" ELSE draft.mode]
    BY <1>4, <1>6, <2>1 DEF Reviewed
  <2> QED BY <2>3, <2>4, <2>5 DEF Plan
<1> QED BY <1>9, <1>10, <1>11 DEF Stands

PlansInv ==
  /\ level \in Levels \cup {-1}
  /\ env \in [EnvKinds -> Nat]
  /\ plans \in [Jobs -> Plan]
  /\ \A j \in Jobs : Stands(plans[j])

(* Nobody has drafted it, so nobody calls it automatic. *)
LEMMA UndraftedStands ==
  ASSUME NEW acts \in Seq(Action), NEW stage \in {"none", "drafted", "approved"},
         NEW plan, plan = [NoPlan EXCEPT !.stage = stage, !.actions = acts]
  PROVE  plan \in Plan /\ Stands(plan)
<1>1. /\ plan.against = {} /\ plan.mode = "manual"
      /\ plan \in Plan
  BY DEF NoPlan, Plan
<1> QED BY <1>1 DEF Stands

LEMMA NoPlanStands == NoPlan \in Plan /\ Stands(NoPlan)
<1>1. NoPlan.against = {} /\ NoPlan.mode = "manual" /\ NoPlan \in Plan
  BY EmptySeq DEF NoPlan, Plan
<1> QED BY <1>1 DEF Stands

LEMMA LevelRead ==
  ASSUME PlansInv
  PROVE  /\ Stored \in Levels
         /\ Max({1, Stored}) \in Levels /\ EnvLevel \in Levels
<1>1. Stored \in Levels /\ Stored \in Int
  BY DEF PlansInv, Stored, Levels
<1>2. Max({1, Stored}) \in {1, Stored}
  BY <1>1, MaxOfTwo
<1> QED BY <1>1, <1>2, RemediationAssumption DEF Levels

LEMMA HappensTyped ==
  ASSUME PlansInv, NEW kind \in EnvKinds, Happens(kind)
  PROVE  env' \in [EnvKinds -> Nat]
BY DEF PlansInv, Happens

LEMMA PlanReplaced ==
  ASSUME PlansInv, NEW j \in Jobs, NEW plan \in Plan, Stands(plan),
         plans' = [plans EXCEPT ![j] = plan], UNCHANGED level, env' \in [EnvKinds -> Nat]
  PROVE  PlansInv'
<1>1. plans' \in [Jobs -> Plan] /\ \A k \in Jobs : plans'[k] = IF k = j THEN plan ELSE plans[k]
  BY DEF PlansInv
<1>2. \A k \in Jobs : Stands(plans'[k])
  BY <1>1 DEF PlansInv
<1> QED BY <1>1, <1>2 DEF PlansInv, Stands

LEMMA PlansLeft ==
  ASSUME PlansInv, NEW gone \in SUBSET Jobs, NEW as, Leaves(gone, as),
         UNCHANGED level, env' \in [EnvKinds -> Nat]
  PROVE  PlansInv'
<1>1. /\ plans' \in [Jobs -> Plan]
      /\ \A k \in Jobs : plans'[k] = IF k \in gone THEN NoPlan ELSE plans[k]
  BY NoPlanStands DEF PlansInv, Leaves
<1>2. \A k \in Jobs : Stands(plans'[k])
  BY <1>1, NoPlanStands DEF PlansInv
<1> QED BY <1>1, <1>2 DEF PlansInv, Stands

LEMMA PlansKept ==
  ASSUME PlansInv, UNCHANGED plans, level' \in Levels \cup {-1}, env' \in [EnvKinds -> Nat]
  PROVE  PlansInv'
<1>1. \A k \in Jobs : Stands(plans'[k])
  BY DEF PlansInv
<1>2. plans' \in [Jobs -> Plan]
  BY DEF PlansInv
<1> QED BY <1>1, <1>2 DEF PlansInv, Stands

LEMMA PlansInvInit ==
  ASSUME Init
  PROVE  PlansInv
<1>1. level \in Levels \cup {-1} /\ env \in [EnvKinds -> Nat]
  BY RemediationAssumption DEF Init
<1>2. plans \in [Jobs -> Plan] /\ \A j \in Jobs : plans[j] = NoPlan
  BY NoPlanStands DEF Init
<1> QED BY <1>1, <1>2, NoPlanStands DEF PlansInv

LEMMA PlansInvStep ==
  ASSUME PlansInv, [Next]_vars
  PROVE  PlansInv'
<1>1. CASE UNCHANGED vars
  BY <1>1, PlansKept DEF vars, PlansInv
<1>2. ASSUME NEW lv \in Levels, SetLevel(lv)
      PROVE  PlansInv'
  BY <1>2, HappensTyped, PlansKept DEF SetLevel, EnvKinds
<1>3. CASE \E lv \in Settings : SetLevel(lv)
  BY <1>2, <1>3, RemediationAssumption
<1>4. CASE Toggle \/ \E mode \in {"auto", "observe_only"} : SetMode(mode)
  <2>1. PICK lv \in {1, 2} : SetLevel(lv)
    <3>1. CASE Toggle
      BY <3>1 DEF Toggle
    <3>2. CASE \E mode \in {"auto", "observe_only"} : SetMode(mode)
      BY <3>2 DEF SetMode
    <3> QED BY <1>4, <3>1, <3>2
  <2> QED BY <1>2, <2>1 DEF Levels
<1>5. ASSUME NEW j \in Jobs, Draft(j)
      PROVE  PlansInv'
  <2>1. PICK lv \in Levels : \E plan \in Drafts[lv] : plans' = [plans EXCEPT ![j] = plan]
    BY <1>5, LevelRead DEF Draft
  <2>2. PICK plan \in Drafts[lv] : plans' = [plans EXCEPT ![j] = plan]
    BY <2>1
  <2> QED BY <1>5, <2>2, DraftsStand, HappensTyped, PlanReplaced DEF Draft, EnvKinds
<1>6. ASSUME NEW j \in Jobs, Approve(j)
      PROVE  PlansInv'
  <2>1. PICK plan : plan = [NoPlan EXCEPT !.stage = "approved", !.actions = plans[j].actions]
    OBVIOUS
  <2>2. plans[j].actions \in Seq(Action)
    BY DEF PlansInv, Plan
  <2>3. plan \in Plan /\ Stands(plan)
    BY <2>1, <2>2, UndraftedStands
  <2> QED BY <1>6, <2>1, <2>3, PlanReplaced DEF Approve, PlansInv
<1>7. ASSUME NEW j \in Jobs, Execute(j)
      PROVE  PlansInv'
  <2>1. UNCHANGED <<level, plans, env>>
    BY <1>7 DEF Execute, Accept, Skip, Refuse, Notify, Unsupported, CaptureBaseline, BaselineFails,
                Aborts, ActOverSSH, Act, Answer, Verify, BeginRollback, StartUndo, EndUndo
  <2> QED BY <2>1, PlansKept DEF PlansInv
<1>8. ASSUME NEW j \in Jobs, Commit(j) \/ Raise(j)
      PROVE  PlansInv'
  <2>1. PICK as : Leaves({j}, as)
    BY <1>8 DEF Commit, Raise
  <2> QED BY <1>8, <2>1, PlansLeft DEF Commit, Raise, PlansInv
<1>9. CASE Crash
  <2>1. PICK gone \in SUBSET Jobs : Leaves(gone, "lost")
    BY <1>9 DEF Crash
  <2> QED BY <1>9, <2>1, HappensTyped, PlansLeft DEF Crash, EnvKinds
<1>10. CASE Age
  BY <1>10, HappensTyped, PlansKept DEF Age, EnvKinds, PlansInv
<1> QED BY <1>1, <1>3, <1>4, <1>5, <1>6, <1>7, <1>8, <1>9, <1>10 DEF Next

(* What the agent's check beforehand (agents/) lets pass as automatic, the guard of
   the execution (policies/guard.py) lets pass too, at every level that acts at all
   and whatever it is told of the device and of approvals; and the critic never
   contradicts it: the two evaluations agree for every policy file. *)
THEOREM AutomaticStands == RemediationSpec => []AutoStands
<1>1. PlansInv => AutoStands
  BY DEF PlansInv, Stands, AutoStands
<1>2. Init => PlansInv
  BY PlansInvInit
<1>3. PlansInv /\ [Next]_vars => PlansInv'
  BY PlansInvStep
<1> QED BY <1>1, <1>2, <1>3, PTL DEF RemediationSpec

-----------------------------------------------------------------------------
(* Types: the event loop runs one job at a time.                           *)

RunsAlone ==
  \A j, k \in Jobs : jobs[j].at \notin Waiting /\ jobs[k].at \notin Waiting => j = k

LEMMA OneJobMoves ==
  ASSUME RunsAlone, NEW j \in Jobs, \A k \in Jobs \ {j} : jobs'[k] = jobs[k],
         LoopFree \/ jobs[j].at = "next"
  PROVE  RunsAlone'
<1>1. \A k \in Jobs \ {j} : jobs[k].at \in Waiting
  BY DEF RunsAlone, LoopFree, Waiting
<1> QED BY <1>1 DEF RunsAlone, Waiting

LEMMA OnlyOneMoves ==
  ASSUME BreakerInv, NEW j \in Jobs, Execute(j)
  PROVE  (\A k \in Jobs \ {j} : jobs'[k] = jobs[k]) /\ (LoopFree \/ jobs[j].at = "next")
<1>1. CASE Accept(j)
  BY <1>1, JobMoves DEF Accept
<1>2. CASE Skip(j) \/ Refuse(j)
  BY <1>2, JobGoesOn DEF Skip, Refuse, Busy, At
<1>3. CASE Notify(j) \/ Unsupported(j)
  BY <1>3, JobGoesOn, PassesBelowLimit DEF Notify, Unsupported
<1>4. CASE CaptureBaseline(j) \/ StartUndo(j)
  BY <1>4, JobMoves, PassesBelowLimit DEF CaptureBaseline, StartUndo
<1>5. CASE BaselineFails(j) \/ Aborts(j) \/ Verify(j) \/ EndUndo(j)
  BY <1>5, JobGoesOn DEF BaselineFails, Aborts, Verify, EndUndo
<1>6. CASE ActOverSSH(j) \/ Act(j) \/ Answer(j)
  <2>1. LoopFree
    BY <1>6 DEF ActOverSSH, Act, Answer
  <2>2. Moves(j, "verdict") \/ Moves(j, "device") \/ GoesOn(j, FALSE, TRUE)
    BY <1>6 DEF ActOverSSH, Act, Answer
  <2> QED BY <2>1, <2>2, JobMoves, JobGoesOn
<1>7. CASE BeginRollback(j)
  BY <1>7 DEF BeginRollback, RollsBack, At, BreakerInv, Typed
<1> QED BY <1>1, <1>2, <1>3, <1>4, <1>5, <1>6, <1>7 DEF Execute

LEMMA GoneStopRunning ==
  ASSUME RunsAlone, BreakerInv, NEW gone \in SUBSET Jobs, NEW as, Leaves(gone, as)
  PROVE  RunsAlone'
<1>1. \A k \in Jobs : jobs'[k] = IF k \in gone THEN Idle ELSE jobs[k]
  BY DEF Leaves
<1>2. Idle.at \in Waiting
  BY DEF Idle, Waiting
<1> QED BY <1>1, <1>2 DEF RunsAlone

LEMMA RunsAloneStep ==
  ASSUME RunsAlone, BreakerInv, [Next]_vars
  PROVE  RunsAlone'
<1>1. CASE UNCHANGED jobs
  BY <1>1 DEF RunsAlone
<1>2. ASSUME NEW j \in Jobs, Execute(j)
      PROVE  RunsAlone'
  BY <1>2, OnlyOneMoves, OneJobMoves
<1>3. ASSUME NEW j \in Jobs, Commit(j) \/ Raise(j)
      PROVE  RunsAlone'
  <2>1. PICK as : Leaves({j}, as)
    BY <1>3 DEF Commit, Raise
  <2> QED BY <2>1, GoneStopRunning
<1>4. CASE Crash
  <2>1. PICK gone \in SUBSET Jobs : Leaves(gone, "lost")
    BY <1>4 DEF Crash
  <2> QED BY <2>1, GoneStopRunning
<1>5. CASE \/ \E lv \in Settings : SetLevel(lv)
           \/ Toggle \/ (\E mode \in {"auto", "observe_only"} : SetMode(mode))
           \/ (\E j \in Jobs : Draft(j) \/ Approve(j)) \/ Age
  <2>1. UNCHANGED jobs
    BY <1>5 DEF SetLevel, Toggle, SetMode, Draft, Approve, Age
  <2> QED BY <1>1, <2>1
<1>6. CASE UNCHANGED vars
  BY <1>1, <1>6 DEF vars
<1> QED BY <1>2, <1>3, <1>4, <1>5, <1>6 DEF Next

(* Every plan, job, run and counter keeps its type, and the event loop never runs
   two jobs at once, however they wait, fail and die. *)
THEOREM RemediationTypeCorrect == RemediationSpec => []TypeOK
<1>1. ASSUME RunsAlone, BreakerInv, PlansInv
      PROVE  TypeOK
  <2>1. \A j \in Jobs :
          /\ plans[j].stage \in {"none", "drafted", "approved"} /\ plans[j].mode \in {"auto", "manual"}
          /\ plans[j].critic \in {"none", "pass", "soft", "rejected"}
          /\ \A i \in DOMAIN plans[j].actions : plans[j].actions[i] \in Action
    <3>1. ASSUME NEW j \in Jobs
          PROVE  plans[j] \in Plan /\ plans[j].actions \in Seq(Action)
      BY <1>1 DEF PlansInv, Plan
    <3> QED BY <3>1 DEF Plan
  <2>2. Cardinality({j \in Jobs : jobs[j].at \notin Waiting}) <= 1
    <3> DEFINE busy == {j \in Jobs : jobs[j].at \notin Waiting}
    <3>1. CASE busy = {}
      BY <3>1, FS_EmptySet
    <3>2. CASE busy # {}
      <4>1. PICK j \in Jobs : busy = {j}
        BY <1>1, <3>2 DEF RunsAlone
      <4>2. Cardinality({j}) = 1
        BY FS_Singleton
      <4> QED BY <4>1, <4>2
    <3> QED BY <3>1, <3>2
  <2> QED BY <1>1, <2>1, <2>2 DEF TypeOK, BreakerInv, Typed, PlansInv
<1>2. Init => RunsAlone /\ BreakerInv /\ PlansInv
  <2>1. Init => RunsAlone
    BY DEF Init, RunsAlone, Idle, Waiting
  <2> QED BY <2>1, BreakerInvInit, PlansInvInit
<1>3. RunsAlone /\ BreakerInv /\ PlansInv /\ [Next]_vars => RunsAlone' /\ BreakerInv' /\ PlansInv'
  BY RunsAloneStep, BreakerInvStep, PlansInvStep
<1> QED BY <1>1, <1>2, <1>3, PTL DEF RemediationSpec

-----------------------------------------------------------------------------
(* DeviceAccess: its types. *)

LEMMA AccessConstants ==
  /\ Creds # {} /\ Keys # {} /\ Ports # {}
  /\ Deployed \in D!NetBox /\ Payloads \subseteq D!Payload /\ Edits \subseteq D!Edit
BY ServicesAssumption DEF D!DeviceAccessAssumption

LEMMA EmptyRecords ==
  D!NewCred \in D!Cred /\ D!NoReg \in D!Reg /\ D!NoSession \in D!Session
<1>1. D!AnyPort \in Ports /\ (CHOOSE k \in Keys : TRUE) \in Keys /\ (CHOOSE c \in Creds : TRUE) \in Creds
  BY AccessConstants DEF D!AnyPort
<1>2. D!NewCred \in D!Cred
  BY <1>1 DEF D!NewCred, D!Cred, D!Scopes, D!Secrets
<1>3. D!NoReg \in D!Reg
  BY <1>1 DEF D!NoReg, D!Reg
<1>4. D!NoSession \in D!Session
  BY <1>1 DEF D!NoSession, D!Session, D!Scopes
<1>5. QED
  BY <1>2, <1>3, <1>4

LEMMA AccessInitTyped == D!Init => D!TypeOK
<1> SUFFICES ASSUME D!Init PROVE D!TypeOK
  OBVIOUS
<1>1. settings \in D!NetBox
  BY AccessConstants DEF D!Init
<1>2. creds \in [Creds -> D!Cred]
  <2> DEFINE Left == {[D!NewCred EXCEPT !.life = "live", !.password = t] : t \in {Deployed.token} \ {"none"}}
  <2>1. creds \in [Creds -> {D!NewCred} \cup Left]
    BY DEF D!Init
  <2>2. ASSUME NEW t \in {Deployed.token} \ {"none"}
        PROVE  [D!NewCred EXCEPT !.life = "live", !.password = t] \in D!Cred
    <3>1. t \in D!Secrets
      BY AccessConstants DEF D!NetBox, D!Secrets
    <3>2. QED
      BY <3>1, EmptyRecords DEF D!Cred
  <2>3. {D!NewCred} \cup Left \subseteq D!Cred
    BY <2>2, EmptyRecords
  <2> HIDE DEF Left
  <2>4. QED
    BY <2>1, <2>3
<1>3. /\ hostKeys \in Seq(D!HostKey) /\ running \in BOOLEAN
      /\ regs \in [Admins -> D!Reg] /\ sessions \in [Sessions -> D!Session]
      /\ accessEnv \in [D!EnvKinds -> Nat]
  <2>1. hostKeys \in Seq(D!HostKey) /\ running \in BOOLEAN
    <3>1. hostKeys = <<>>
      BY DEF D!Init
    <3>2. running = FALSE
      BY DEF D!Init
    <3>3. hostKeys \in Seq(D!HostKey)
      BY <3>1
    <3>4. running \in BOOLEAN
      BY <3>2, Zenon
    <3>5. QED
      BY <3>3, <3>4
  <2>2. regs \in [Admins -> D!Reg] /\ sessions \in [Sessions -> D!Session]
    BY EmptyRecords DEF D!Init
  <2>3. accessEnv \in [D!EnvKinds -> Nat]
    BY DEF D!Init
  <2>4. QED
    BY <2>1, <2>2, <2>3
<1>4. QED
  BY <1>1, <1>2, <1>3 DEF D!TypeOK

LEMMA SealedSecret ==
  ASSUME NEW edit, NEW old \in D!Secrets
  PROVE  D!Sealed(edit, old) \in D!Secrets
BY DEF D!Sealed, D!Secrets

LEMMA AccessHappens ==
  ASSUME accessEnv \in [D!EnvKinds -> Nat], NEW kind \in D!EnvKinds, D!Happens(kind)
  PROVE  accessEnv' \in [D!EnvKinds -> Nat]
BY DEF D!Happens

(* The edits of the settings and of the credentials keep the types. *)
LEMMA SettingsTyped ==
  ASSUME D!TypeOK, NEW p \in Payloads, D!UpsertNetBox(p)
  PROVE  D!TypeOK'
<1>1. p \in D!Payload
  BY AccessConstants
<1> DEFINE row == IF settings.stored THEN settings ELSE [settings EXCEPT !.url = FALSE, !.token = "none"]
<1>2. row \in D!NetBox
  BY DEF D!TypeOK, D!NetBox
<1>3. settings' = [stored |-> TRUE, enabled |-> p.enabled,
                   url |-> IF p.url = "kept" THEN row.url ELSE p.url = "given",
                   token |-> CASE p.clear -> "none" [] p.token # "none" -> p.token [] OTHER -> row.token]
  BY DEF D!UpsertNetBox
<1> HIDE DEF row
<1>4. (IF p.url = "kept" THEN row.url ELSE p.url = "given") \in BOOLEAN
  <2>1. row.url \in BOOLEAN /\ (p.url = "given") \in BOOLEAN
    BY <1>2, Zenon DEF D!NetBox
  <2>2. QED
    BY <2>1, Zenon
<1>5. (CASE p.clear -> "none" [] p.token # "none" -> p.token [] OTHER -> row.token) \in Tokens \cup {"none"}
  BY <1>1, <1>2 DEF D!NetBox, D!Payload
<1>6. settings' \in D!NetBox
  BY <1>1, <1>3, <1>4, <1>5 DEF D!NetBox, D!Payload
<1>7. accessEnv' \in [D!EnvKinds -> Nat]
  BY AccessHappens DEF D!UpsertNetBox, D!TypeOK, D!EnvKinds
<1>8. UNCHANGED <<creds, hostKeys, regs, sessions, running>>
  BY DEF D!UpsertNetBox
<1>9. QED
  BY <1>6, <1>7, <1>8 DEF D!TypeOK

LEMMA CredentialsTyped ==
  ASSUME D!TypeOK, NEW c \in Creds,
         \/ \E e \in Edits : D!CreateCredential(c, e) \/ D!UpdateCredential(c, e)
         \/ D!DeleteCredential(c) \/ D!BindDevice(c) \/ D!TestConnectivity(c)
  PROVE  D!TypeOK' /\ UNCHANGED <<hostKeys, regs, sessions>>
<1>typed. creds[c] \in D!Cred /\ creds \in [Creds -> D!Cred]
  BY DEF D!TypeOK
<1>1. /\ D!Happens("edit")
      /\ UNCHANGED <<settings, hostKeys, regs, sessions, running>>
  BY DEF D!CreateCredential, D!UpdateCredential, D!DeleteCredential, D!BindDevice, D!TestConnectivity
<1>2. accessEnv' \in [D!EnvKinds -> Nat]
  BY <1>1, AccessHappens DEF D!TypeOK, D!EnvKinds
<1>3. creds' \in [Creds -> D!Cred]
  <2>1. ASSUME NEW e \in Edits, D!CreateCredential(c, e)
        PROVE  creds' \in [Creds -> D!Cred]
    <3>1. e \in D!Edit
      BY AccessConstants
    <3>2. "none" \in D!Secrets
      BY DEF D!Secrets
    <3>3. D!Sealed(e.password, "none") \in D!Secrets /\ D!Sealed(e.key, "none") \in D!Secrets
      BY <3>2, SealedSecret
    <3>4. [D!NewCred EXCEPT !.life = "live", !.auth = e.auth, !.scope = e.scope,
             !.password = D!Sealed(e.password, "none"),
             !.key = D!Sealed(e.key, "none"), !.port = e.port] \in D!Cred
      BY <3>1, <3>3, EmptyRecords DEF D!Cred, D!Edit
    <3>5. QED
      BY <2>1, <3>4, <1>typed DEF D!CreateCredential
  <2>2. ASSUME NEW e \in Edits, D!UpdateCredential(c, e)
        PROVE  creds' \in [Creds -> D!Cred]
    <3>1. e \in D!Edit
      BY AccessConstants
    <3>2. D!Sealed(e.password, creds[c].password) \in D!Secrets /\ D!Sealed(e.key, creds[c].key) \in D!Secrets
      BY <1>typed, SealedSecret DEF D!Cred
    <3>3. [creds[c] EXCEPT !.enabled = e.enabled, !.auth = e.auth, !.scope = e.scope, !.port = e.port,
             !.password = D!Sealed(e.password, creds[c].password),
             !.key = D!Sealed(e.key, creds[c].key)] \in D!Cred
      BY <3>1, <3>2, <1>typed DEF D!Cred, D!Edit
    <3>4. creds' = [creds EXCEPT ![c] =
            [creds[c] EXCEPT !.enabled = e.enabled, !.auth = e.auth, !.scope = e.scope, !.port = e.port,
             !.password = D!Sealed(e.password, creds[c].password),
             !.key = D!Sealed(e.key, creds[c].key)]]
      BY <2>2, <1>typed DEF D!UpdateCredential
    <3>5. QED
      BY <3>3, <3>4, <1>typed
  <2>3. CASE D!DeleteCredential(c)
    BY <2>3, <1>typed, EmptyRecords DEF D!DeleteCredential, D!Cred
  <2>4. CASE D!BindDevice(c)
    BY <2>4, <1>typed DEF D!BindDevice, D!Cred
  <2>5. CASE D!TestConnectivity(c)
    <3>1. PICK result \in {"failed", "success", "auth_failed"} : creds' = [creds EXCEPT ![c].binding = result]
      BY <2>5 DEF D!TestConnectivity
    <3>2. QED
      BY <3>1, <1>typed DEF D!Cred
  <2>6. QED
    BY <2>1, <2>2, <2>3, <2>4, <2>5
<1>4. QED
  BY <1>1, <1>2, <1>3 DEF D!TypeOK

-----------------------------------------------------------------------------
(* The host keys of a port, and who has locked which. *)

(* A registration has locked active rows of its own port only, no other has locked
   the same ones, and what is inserted has locked all of them, alone on its port. *)
RegsInv ==
  \A u \in Admins :
    /\ regs[u].at \in {"idle", "seeking"} => regs[u].held = {}
    /\ regs[u].seen \subseteq D!Rows(regs[u].port)
    /\ regs[u].held \subseteq D!Active(regs[u].port)
    /\ regs[u].at = "inserted" => D!Active(regs[u].port) \subseteq regs[u].held
    /\ \A v \in Admins \ {u} :
         /\ regs[u].held \cap regs[v].held = {}
         /\ regs[u].at = "inserted" /\ regs[v].at = "inserted" => regs[u].port # regs[v].port

PortsInv == \A port \in Ports : D!Rows(port) # {} => \E i : D!Active(port) = {i}

(* A session goes by a row that was active after it had been asked for, and has been
   shown that row's key. *)
Guided(x) ==
  /\ \A i \in x.retired : i \in DOMAIN hostKeys /\ ~hostKeys[i].active
  /\ x.at \in {"ready", "open"} => x.row \in DOMAIN hostKeys /\ x.row \notin x.retired
  /\ x.at = "open" => x.shown = hostKeys[x.row].key

SessionsInv == \A s \in Sessions : Guided(sessions[s])

HostsInv == D!TypeOK /\ RegsInv /\ PortsInv /\ SessionsInv

LEMMA HostsInit == D!Init => HostsInv
<1> SUFFICES ASSUME D!Init PROVE HostsInv
  OBVIOUS
<1>1. D!TypeOK
  BY AccessInitTyped
<1>2. /\ hostKeys = <<>> /\ \A u \in Admins : regs[u] = D!NoReg
      /\ \A s \in Sessions : sessions[s] = D!NoSession
  BY DEF D!Init
<1>3. RegsInv
  <2>1. \A u \in Admins : regs[u].at = "idle" /\ regs[u].held = {} /\ regs[u].seen = {}
    <3>1. D!NoReg.at = "idle" /\ D!NoReg.held = {} /\ D!NoReg.seen = {}
      BY DEF D!NoReg
    <3>2. QED
      BY <1>2, <3>1
  <2>2. QED
    BY <2>1 DEF RegsInv
<1>4. PortsInv
  BY <1>2 DEF PortsInv, D!Rows
<1>5. SessionsInv
  <2>1. \A s \in Sessions : sessions[s].at = "idle" /\ sessions[s].retired = {}
    <3>1. D!NoSession.at = "idle" /\ D!NoSession.retired = {}
      BY DEF D!NoSession
    <3>2. QED
      BY <1>2, <3>1
  <2>2. QED
    BY <2>1 DEF SessionsInv, Guided
<1>6. QED
  BY <1>1, <1>3, <1>4, <1>5 DEF HostsInv

(* What a commit does to the rows: those locked are no longer active, a new one is,
   and it is its port's only one. *)
LEMMA CommittedRows ==
  ASSUME HostsInv, NEW u \in Admins, D!Commit(u)
  PROVE  /\ hostKeys' \in Seq(D!HostKey) /\ DOMAIN hostKeys \subseteq DOMAIN hostKeys'
         /\ \A i \in DOMAIN hostKeys :
              /\ hostKeys'[i].port = hostKeys[i].port /\ hostKeys'[i].key = hostKeys[i].key
              /\ hostKeys'[i].active => hostKeys[i].active
         /\ \A port \in Ports : D!Rows(port) \subseteq D!Rows(port)'
         /\ \A port \in Ports : port # regs[u].port =>
              D!Rows(port)' = D!Rows(port) /\ D!Active(port)' = D!Active(port)
         /\ \A port \in Ports : port = regs[u].port => \E i : D!Active(port)' = {i}
<1> DEFINE n == Len(hostKeys)
<1> DEFINE kept == [i \in DOMAIN hostKeys |->
                      IF i \in regs[u].held THEN [hostKeys[i] EXCEPT !.active = FALSE] ELSE hostKeys[i]]
<1> DEFINE added == [port |-> regs[u].port, key |-> regs[u].key, active |-> TRUE]
<1>typed. /\ hostKeys \in Seq(D!HostKey) /\ regs[u] \in D!Reg /\ regs[u].at = "inserted"
          /\ D!Active(regs[u].port) = regs[u].held
  <2>1. regs[u].at = "inserted"
    BY DEF D!Commit
  <2>2. D!Active(regs[u].port) = regs[u].held
    BY <2>1 DEF HostsInv, RegsInv
  <2>3. QED
    BY <2>1, <2>2 DEF HostsInv, D!TypeOK
<1>1. n \in Nat /\ DOMAIN hostKeys = 1 .. n /\ \A i \in 1 .. n : hostKeys[i] \in D!HostKey
  BY <1>typed
<1>2. kept \in Seq(D!HostKey) /\ Len(kept) = n /\ added \in D!HostKey
  <2>1. \A i \in 1 .. n : kept[i] \in D!HostKey
    BY <1>1 DEF D!HostKey
  <2>2. kept \in [1 .. n -> D!HostKey]
    BY <1>1, <2>1
  <2>3. added \in D!HostKey
    BY <1>typed DEF D!HostKey, D!Reg
  <2>4. QED
    BY <1>1, <2>2, <2>3
<1>3. hostKeys' = Append(kept, added)
  BY DEF D!Commit
<1>4. \A i \in 1 .. n :
        /\ kept[i].port = hostKeys[i].port /\ kept[i].key = hostKeys[i].key
        /\ kept[i].active = (hostKeys[i].active /\ i \notin regs[u].held)
  BY <1>1 DEF D!HostKey
<1> HIDE DEF kept
<1>5. /\ hostKeys' \in Seq(D!HostKey) /\ DOMAIN hostKeys' = 1 .. n + 1
      /\ \A i \in 1 .. n : hostKeys'[i] = kept[i]
      /\ hostKeys'[n + 1] = added
  BY <1>1, <1>2, <1>3
<1>6. \A port \in Ports : D!Rows(port) \subseteq D!Rows(port)'
  BY <1>1, <1>4, <1>5 DEF D!Rows
<1>7. ASSUME NEW port \in Ports, port # regs[u].port
      PROVE  D!Rows(port)' = D!Rows(port) /\ D!Active(port)' = D!Active(port)
  <2>1. D!Rows(port)' = D!Rows(port)
    BY <1>1, <1>4, <1>5, <1>7 DEF D!Rows
  <2>2. \A i \in D!Rows(port) : i \in 1 .. n /\ i \notin regs[u].held
    BY <1>1, <1>7, <1>typed DEF D!Rows, D!Active
  <2>3. \A i \in D!Rows(port) : hostKeys'[i].active = hostKeys[i].active
    BY <2>2, <1>1, <1>4, <1>5 DEF D!HostKey
  <2>4. QED
    BY <2>1, <2>3 DEF D!Active
<1>8. ASSUME NEW port \in Ports, port = regs[u].port
      PROVE  D!Active(port)' = {n + 1}
  <2>1. ASSUME NEW i \in 1 .. n, hostKeys'[i].port = port PROVE ~hostKeys'[i].active
    <3>1. CASE i \in regs[u].held
      BY <3>1, <1>4, <1>5
    <3>2. CASE i \notin regs[u].held
      BY <3>2, <1>1, <1>4, <1>5, <1>8, <1>typed, <2>1 DEF D!Active, D!Rows
    <3>3. QED
      BY <3>1, <3>2
  <2>2. hostKeys'[n + 1].port = port /\ hostKeys'[n + 1].active
    BY <1>5, <1>8
  <2>3. D!Active(port)' = {i \in DOMAIN hostKeys' : hostKeys'[i].port = port /\ hostKeys'[i].active}
    BY DEF D!Active, D!Rows
  <2>4. \A i \in 1 .. n + 1 : i \in 1 .. n \/ i = n + 1
    BY <1>1
  <2>5. n + 1 \in 1 .. n + 1
    BY <1>1
  <2>6. QED
    BY <2>1, <2>2, <2>3, <2>4, <2>5, <1>5
<1>9. \A port \in Ports : port = regs[u].port => \E i : D!Active(port)' = {i}
  BY <1>8
<1>10. /\ DOMAIN hostKeys \subseteq DOMAIN hostKeys'
       /\ \A i \in DOMAIN hostKeys :
            /\ hostKeys'[i].port = hostKeys[i].port /\ hostKeys'[i].key = hostKeys[i].key
            /\ hostKeys'[i].active => hostKeys[i].active
  <2>1. ASSUME NEW i \in 1 .. n
        PROVE  /\ hostKeys'[i].port = hostKeys[i].port /\ hostKeys'[i].key = hostKeys[i].key
               /\ hostKeys'[i].active => hostKeys[i].active
    BY <1>4, <1>5
  <2>2. 1 .. n \subseteq 1 .. n + 1
    BY <1>1
  <2>3. QED
    BY <2>1, <2>2, <1>1, <1>5
<1>11. QED
  BY <1>5, <1>6, <1>7, <1>9, <1>10

LEMMA RegsKept ==
  ASSUME RegsInv, PortsInv, UNCHANGED <<hostKeys, regs>>
  PROVE  RegsInv' /\ PortsInv'
<1>1. \A port : D!Rows(port)' = D!Rows(port)
  BY DEF D!Rows
<1>2. \A port : D!Active(port)' = D!Active(port)
  BY <1>1 DEF D!Active
<1>3. PortsInv'
  BY <1>1, <1>2 DEF PortsInv
<1>4. RegsInv'
  BY DEF RegsInv, D!Active, D!Rows
<1>5. QED
  BY <1>3, <1>4

LEMMA HostsKept ==
  ASSUME HostsInv, D!TypeOK', UNCHANGED <<hostKeys, regs, sessions>>
  PROVE  HostsInv'
<1>1. RegsInv' /\ PortsInv'
  BY RegsKept DEF HostsInv
<1>2. SessionsInv'
  BY DEF HostsInv, SessionsInv, Guided
<1>3. QED
  BY <1>1, <1>2 DEF HostsInv

(* The registrations of host keys. *)
LEMMA RegsStep ==
  ASSUME HostsInv, NEW u \in Admins,
         D!Register(u) \/ D!Deactivate(u) \/ D!Insert(u) \/ D!RollBack(u)
  PROVE  HostsInv'
<1>typed. /\ D!TypeOK /\ RegsInv /\ PortsInv /\ SessionsInv
          /\ regs \in [Admins -> D!Reg] /\ regs[u] \in D!Reg /\ hostKeys \in Seq(D!HostKey)
  BY DEF HostsInv, D!TypeOK
<1>none. D!NoReg \in D!Reg /\ D!NoReg.at = "idle" /\ D!NoReg.held = {} /\ D!NoReg.seen = {}
  <2>1. D!NoReg.at = "idle" /\ D!NoReg.held = {} /\ D!NoReg.seen = {}
    BY DEF D!NoReg
  <2>2. QED
    BY <2>1, EmptyRecords
<1>same. UNCHANGED <<settings, creds, hostKeys, sessions, running>>
  BY DEF D!Register, D!Deactivate, D!Insert, D!RollBack
<1>env. accessEnv' \in [D!EnvKinds -> Nat]
  <2>1. accessEnv \in [D!EnvKinds -> Nat]
    BY <1>typed DEF D!TypeOK
  <2>2. CASE D!Register(u)
    BY <2>1, <2>2, AccessHappens DEF D!Register, D!EnvKinds
  <2>3. CASE D!RollBack(u)
    BY <2>1, <2>3, AccessHappens DEF D!RollBack, D!EnvKinds
  <2>4. CASE D!Deactivate(u) \/ D!Insert(u)
    BY <2>1, <2>4 DEF D!Deactivate, D!Insert
  <2>5. QED
    BY <2>2, <2>3, <2>4
<1>rest. ASSUME regs' \in [Admins -> D!Reg], RegsInv' PROVE HostsInv'
  <2>1. D!TypeOK'
    BY <1>rest, <1>same, <1>env, <1>typed DEF D!TypeOK
  <2>2. PortsInv' /\ SessionsInv'
    BY <1>same, <1>typed DEF PortsInv, SessionsInv, Guided, D!Rows, D!Active
  <2>3. QED
    BY <1>rest, <2>1, <2>2 DEF HostsInv
<1>1. CASE D!Register(u)
  <2>1. PICK port \in Ports, key \in Keys :
          regs' = [regs EXCEPT ![u] = [D!NoReg EXCEPT !.at = "seeking", !.port = port, !.key = key,
                                                      !.seen = D!Active(port)]]
    BY <1>1 DEF D!Register
  <2> DEFINE r == [D!NoReg EXCEPT !.at = "seeking", !.port = port, !.key = key, !.seen = D!Active(port)]
  <2>2. D!Active(port) \subseteq Nat /\ D!Active(port) \subseteq D!Rows(port)
    BY <1>typed DEF D!Active, D!Rows
  <2>3. r \in D!Reg /\ r.at = "seeking" /\ r.held = {} /\ r.seen = D!Active(port) /\ r.port = port
    BY <1>none, <2>2 DEF D!Reg
  <2> HIDE DEF r
  <2>4. regs' = [regs EXCEPT ![u] = r]
    BY <2>1 DEF r
  <2>5. RegsInv'
    BY <2>2, <2>3, <2>4, <1>typed, <1>same DEF RegsInv, D!Active, D!Rows
  <2>6. QED
    BY <2>3, <2>4, <2>5, <1>typed, <1>rest
<1>2. CASE D!Deactivate(u)
  <2> DEFINE r == [regs[u] EXCEPT !.at = "holding", !.held = {i \in regs[u].seen : hostKeys[i].active}]
  <2>1. /\ regs' = [regs EXCEPT ![u] = r] /\ regs[u].at = "seeking"
        /\ \A v \in Admins \ {u} : regs[v].held \cap regs[u].seen = {}
    BY <1>2, <1>typed DEF D!Deactivate, D!Others
  <2>2. /\ r \in D!Reg /\ r.at = "holding" /\ r.port = regs[u].port /\ r.seen = regs[u].seen
        /\ r.held = {i \in regs[u].seen : hostKeys[i].active}
    BY <1>typed DEF D!Reg
  <2> HIDE DEF r
  <2>3. RegsInv'
    BY <2>1, <2>2, <1>typed, <1>same DEF RegsInv, D!Active, D!Rows
  <2>4. QED
    BY <2>1, <2>2, <2>3, <1>typed, <1>rest
<1>3. CASE D!Insert(u) /\ D!Admitted(u)
  <2> DEFINE r == [regs[u] EXCEPT !.at = "inserted"]
  <2>1. /\ regs' = [regs EXCEPT ![u] = r] /\ D!Active(regs[u].port) \subseteq regs[u].held
        /\ \A v \in Admins \ {u} : regs[v].at = "inserted" => regs[v].port # regs[u].port
    BY <1>3, <1>typed DEF D!Insert, D!Others, D!Admitted
  <2>2. /\ r \in D!Reg /\ r.at = "inserted" /\ r.port = regs[u].port /\ r.seen = regs[u].seen
        /\ r.held = regs[u].held
    BY <1>typed DEF D!Reg
  <2> HIDE DEF r
  <2>3. RegsInv'
    BY <2>1, <2>2, <1>typed, <1>same DEF RegsInv, D!Active, D!Rows
  <2>4. QED
    BY <2>1, <2>2, <2>3, <1>typed, <1>rest
<1>4. CASE (D!Insert(u) /\ ~D!Admitted(u)) \/ D!RollBack(u)
  <2>1. regs' = [regs EXCEPT ![u] = D!NoReg]
    BY <1>4 DEF D!Insert, D!RollBack
  <2>2. RegsInv'
    BY <2>1, <1>none, <1>typed, <1>same DEF RegsInv, D!Active, D!Rows
  <2>3. QED
    BY <2>1, <2>2, <1>none, <1>typed, <1>rest
<1>5. QED
  BY <1>1, <1>2, <1>3, <1>4

LEMMA CommitStep ==
  ASSUME HostsInv, NEW u \in Admins, D!Commit(u)
  PROVE  HostsInv'
<1>typed. /\ D!TypeOK /\ RegsInv /\ PortsInv /\ SessionsInv
          /\ regs \in [Admins -> D!Reg] /\ hostKeys \in Seq(D!HostKey)
          /\ regs[u].at = "inserted" /\ regs[u].port \in Ports
  BY DEF HostsInv, D!TypeOK, D!Commit, D!Reg
<1>none. D!NoReg \in D!Reg /\ D!NoReg.at = "idle" /\ D!NoReg.held = {} /\ D!NoReg.seen = {}
  <2>1. D!NoReg.at = "idle" /\ D!NoReg.held = {} /\ D!NoReg.seen = {}
    BY DEF D!NoReg
  <2>2. QED
    BY <2>1, EmptyRecords
<1>1. regs' = [regs EXCEPT ![u] = D!NoReg] /\ UNCHANGED <<settings, creds, sessions, running, accessEnv>>
  BY DEF D!Commit
<1>2. /\ hostKeys' \in Seq(D!HostKey) /\ DOMAIN hostKeys \subseteq DOMAIN hostKeys'
      /\ \A i \in DOMAIN hostKeys :
           /\ hostKeys'[i].port = hostKeys[i].port /\ hostKeys'[i].key = hostKeys[i].key
           /\ hostKeys'[i].active => hostKeys[i].active
      /\ \A port \in Ports : D!Rows(port) \subseteq D!Rows(port)'
      /\ \A port \in Ports : port # regs[u].port =>
           D!Rows(port)' = D!Rows(port) /\ D!Active(port)' = D!Active(port)
      /\ \A port \in Ports : port = regs[u].port => \E i : D!Active(port)' = {i}
  BY CommittedRows
<1>3. D!TypeOK'
  BY <1>1, <1>2, <1>none, <1>typed DEF D!TypeOK
<1>4. PortsInv'
  BY <1>2, <1>typed DEF PortsInv
<1>5. SessionsInv'
  <2> SUFFICES ASSUME NEW s \in Sessions PROVE Guided(sessions[s])'
    BY <1>1 DEF SessionsInv
  <2>1. Guided(sessions[s])
    BY <1>typed DEF SessionsInv
  <2>2. QED
    BY <2>1, <1>1, <1>2 DEF Guided
<1>6. RegsInv'
  <2>1. \A v \in Admins \ {u} : regs'[v] = regs[v] /\ regs[v] \in D!Reg
    BY <1>1, <1>typed
  <2>2. regs'[u].at = "idle" /\ regs'[u].held = {} /\ regs'[u].seen = {}
    BY <1>1, <1>none, <1>typed
  <2>3. ASSUME NEW v \in Admins \ {u}, NEW port \in Ports, port = regs[v].port
        PROVE  /\ regs[v].seen \subseteq D!Rows(port)'
               /\ regs[v].held \subseteq D!Active(port)'
               /\ regs[v].at = "inserted" => D!Active(port)' \subseteq regs[v].held
    <3>1. regs[v].seen \subseteq D!Rows(port) /\ regs[v].held \subseteq D!Active(port)
      BY <2>3, <1>typed DEF RegsInv
    <3>2. CASE port # regs[u].port
      BY <3>1, <3>2, <1>2, <2>3, <1>typed DEF RegsInv
    <3>3. CASE port = regs[u].port
      <4>1. regs[v].at # "inserted" /\ regs[v].held = {}
        BY <3>1, <3>3, <2>3, <1>typed DEF RegsInv
      <4>2. QED
        BY <3>1, <4>1, <1>2
    <3>4. QED
      BY <3>2, <3>3
  <2>4. \A v \in Admins \ {u} :
          /\ regs'[v].seen \subseteq D!Rows(regs[v].port)'
          /\ regs'[v].held \subseteq D!Active(regs[v].port)'
          /\ regs'[v].at = "inserted" => D!Active(regs[v].port)' \subseteq regs'[v].held
    <3> SUFFICES ASSUME NEW v \in Admins \ {u}
                 PROVE  /\ regs'[v].seen \subseteq D!Rows(regs[v].port)'
                        /\ regs'[v].held \subseteq D!Active(regs[v].port)'
                        /\ regs'[v].at = "inserted" => D!Active(regs[v].port)' \subseteq regs'[v].held
      OBVIOUS
    <3>1. PICK port \in Ports : port = regs[v].port
      BY <2>1 DEF D!Reg
    <3>2. /\ regs[v].seen \subseteq D!Rows(port)'
          /\ regs[v].held \subseteq D!Active(port)'
          /\ regs[v].at = "inserted" => D!Active(port)' \subseteq regs[v].held
      BY <3>1, <2>3
    <3>3. D!Rows(regs[v].port)' = D!Rows(port)' /\ D!Active(regs[v].port)' = D!Active(port)'
      BY <3>1, <2>1 DEF D!Active, D!Rows
    <3>4. QED
      BY <3>2, <3>3, <2>1
  <2>5. QED
    BY <2>1, <2>2, <2>4, <1>typed DEF RegsInv
<1>7. QED
  BY <1>3, <1>4, <1>5, <1>6 DEF HostsInv

(* The probes and changes. *)
LEMMA SessionsStep ==
  ASSUME HostsInv, NEW s \in Sessions,
         \/ \E c \in Creds, scope \in D!Scopes : D!Resolve(s, c, scope)
         \/ D!Unknown(s) \/ D!BeginProbe(s) \/ D!BeginChange(s) \/ D!Connect(s)
         \/ D!Finish(s) \/ D!Die(s)
  PROVE  HostsInv'
<1>typed. /\ D!TypeOK /\ RegsInv /\ PortsInv /\ SessionsInv
          /\ sessions \in [Sessions -> D!Session] /\ sessions[s] \in D!Session
          /\ creds \in [Creds -> D!Cred] /\ hostKeys \in Seq(D!HostKey)
          /\ Guided(sessions[s]) /\ sessions[s].cred \in Creds
  BY DEF HostsInv, D!TypeOK, SessionsInv, D!Session
<1>none. /\ D!NoSession \in D!Session /\ D!NoSession.at = "idle" /\ D!NoSession.retired = {}
         /\ Guided(D!NoSession)
  <2>1. D!NoSession.at = "idle" /\ D!NoSession.retired = {}
    BY DEF D!NoSession
  <2>2. QED
    BY <2>1, EmptyRecords DEF Guided
<1>same. UNCHANGED <<settings, hostKeys, regs>>
  BY DEF D!Resolve, D!Unknown, D!BeginProbe, D!BeginChange, D!Connect, D!Finish, D!Die
(* The credential that is used, if any. *)
<1>cred. ASSUME NEW c \in Creds, creds' = creds \/ creds' = [creds EXCEPT ![c].used = TRUE]
         PROVE  creds' \in [Creds -> D!Cred]
  <2>1. [creds[c] EXCEPT !.used = TRUE] \in D!Cred
    <3>1. creds[c] \in D!Cred
      BY <1>typed
    <3>2. QED
      BY <3>1 DEF D!Cred
  <2>2. QED
    BY <2>1, <1>cred, <1>typed
<1>rest. ASSUME NEW x \in D!Session, Guided(x), sessions' = [sessions EXCEPT ![s] = x] \/ sessions' = sessions,
                NEW c \in Creds, creds' = creds \/ creds' = [creds EXCEPT ![c].used = TRUE],
                running' \in BOOLEAN, accessEnv' \in [D!EnvKinds -> Nat]
         PROVE  HostsInv'
  <2>1. creds' \in [Creds -> D!Cred]
    BY <1>cred, <1>rest
  <2>2. sessions' \in [Sessions -> D!Session] /\ \A t \in Sessions : sessions'[t] \in {sessions[t], x}
    BY <1>rest, <1>typed
  <2>3. D!TypeOK'
    BY <2>1, <2>2, <1>rest, <1>same, <1>typed DEF D!TypeOK
  <2>4. RegsInv' /\ PortsInv'
    <3>1. UNCHANGED <<hostKeys, regs>>
      BY <1>same, <1>rest
    <3>2. QED
      BY <3>1, <1>typed, RegsKept
  <2>5. SessionsInv'
    <3> SUFFICES ASSUME NEW t \in Sessions PROVE Guided(sessions[t])'
      BY DEF SessionsInv
    <3>1. Guided(sessions[t])
      BY <1>typed DEF SessionsInv
    <3>2. CASE sessions'[t] = sessions[t]
      BY <3>1, <3>2, <1>same DEF Guided
    <3>3. CASE sessions'[t] = x
      BY <3>3, <1>rest, <1>same DEF Guided
    <3>4. QED
      BY <3>2, <3>3, <2>2
  <2>6. QED
    BY <2>3, <2>4, <2>5 DEF HostsInv
<1>env. accessEnv \in [D!EnvKinds -> Nat] /\ running \in BOOLEAN
  BY <1>typed DEF D!TypeOK
<1>1. ASSUME NEW c \in Creds, NEW scope \in D!Scopes, D!Resolve(s, c, scope)
      PROVE  HostsInv'
  <2> DEFINE x == [D!NoSession EXCEPT !.at = "resolving", !.scope = scope, !.cred = c, !.port = creds[c].port,
                     !.retired = {i \in DOMAIN hostKeys : ~hostKeys[i].active}]
  <2>1. /\ x \in D!Session /\ x.at = "resolving"
        /\ x.retired = {i \in DOMAIN hostKeys : ~hostKeys[i].active}
    <3>1. {i \in DOMAIN hostKeys : ~hostKeys[i].active} \subseteq Nat
      BY <1>typed
    <3>2. creds[c].port \in Ports
      BY <1>typed DEF D!Cred
    <3>3. QED
      BY <3>1, <3>2, <1>none DEF D!Session
  <2>2. /\ sessions' = [sessions EXCEPT ![s] = x] \/ sessions' = sessions
        /\ creds' = creds \/ creds' = [creds EXCEPT ![c].used = TRUE]
        /\ running' = running
    BY <1>1 DEF D!Resolve
  <2>3. accessEnv' \in [D!EnvKinds -> Nat]
    BY <1>1, <1>env, AccessHappens DEF D!Resolve, D!EnvKinds
  <2> HIDE DEF x
  <2>4. Guided(x)
    BY <2>1 DEF Guided
  <2>5. QED
    BY <2>1, <2>2, <2>3, <2>4, <1>env, <1>rest
<1>2. CASE D!Unknown(s)
  <2>1. /\ sessions' = [sessions EXCEPT ![s] = D!NoSession]
        /\ creds' = creds \/ creds' = [creds EXCEPT ![sessions[s].cred].used = TRUE]
        /\ running' = running /\ accessEnv' = accessEnv
    BY <1>2 DEF D!Unknown, D!Leaves
  <2>2. QED
    BY <2>1, <1>none, <1>env, <1>typed, <1>rest
<1>3. CASE D!BeginProbe(s)
  <2>1. PICK row \in D!Active(sessions[s].port) :
          \/ /\ sessions' = [sessions EXCEPT ![s] = D!NoSession] /\ creds' = creds /\ running' = running
          \/ /\ sessions' = [sessions EXCEPT ![s].at = "ready", ![s].row = row]
             /\ creds' = [creds EXCEPT ![sessions[s].cred].used = TRUE] /\ running' = TRUE
    BY <1>3 DEF D!BeginProbe, D!Known, D!Leaves, D!Refers
  <2>2. accessEnv' \in [D!EnvKinds -> Nat] /\ running' \in BOOLEAN
    BY <2>1, <1>3, <1>env DEF D!BeginProbe
  <2>3. CASE sessions' = [sessions EXCEPT ![s] = D!NoSession] /\ creds' = creds
    BY <2>2, <2>3, <1>none, <1>typed, <1>rest
  <2>4. CASE /\ sessions' = [sessions EXCEPT ![s].at = "ready", ![s].row = row]
             /\ creds' = [creds EXCEPT ![sessions[s].cred].used = TRUE]
    <3> DEFINE x == [sessions[s] EXCEPT !.at = "ready", !.row = row]
    <3>1. row \in DOMAIN hostKeys /\ hostKeys[row].active /\ row \in Nat
      BY <1>typed DEF D!Active, D!Rows
    <3>2. x \in D!Session /\ x.at = "ready" /\ x.row = row /\ x.retired = sessions[s].retired
      BY <3>1, <1>typed DEF D!Session
    <3>3. sessions' = [sessions EXCEPT ![s] = x]
      BY <2>4, <1>typed
    <3> HIDE DEF x
    <3>4. Guided(x)
      BY <3>1, <3>2, <1>typed DEF Guided
    <3>5. QED
      BY <3>2, <3>3, <3>4, <2>2, <2>4, <1>typed, <1>rest
  <2>5. QED
    BY <2>1, <2>3, <2>4
<1>4. CASE D!BeginChange(s)
  <2>1. PICK row \in D!Active(sessions[s].port) :
          sessions' = [sessions EXCEPT ![s].at = "ready", ![s].row = row]
    BY <1>4 DEF D!BeginChange, D!Known
  <2> DEFINE x == [sessions[s] EXCEPT !.at = "ready", !.row = row]
  <2>2. creds' = creds /\ running' = running /\ accessEnv' = accessEnv
    BY <1>4 DEF D!BeginChange
  <2>3. row \in DOMAIN hostKeys /\ hostKeys[row].active /\ row \in Nat
    BY <1>typed DEF D!Active, D!Rows
  <2>4. x \in D!Session /\ x.at = "ready" /\ x.row = row /\ x.retired = sessions[s].retired
    BY <2>3, <1>typed DEF D!Session
  <2>5. sessions' = [sessions EXCEPT ![s] = x]
    BY <2>1, <1>typed
  <2> HIDE DEF x
  <2>6. Guided(x)
    BY <2>3, <2>4, <1>typed DEF Guided
  <2>7. QED
    BY <2>2, <2>4, <2>5, <2>6, <1>env, <1>typed, <1>rest
<1>5. CASE D!Connect(s)
  <2>1. PICK shown \in Keys : /\ shown = hostKeys[sessions[s].row].key
                              /\ sessions' = [sessions EXCEPT ![s].at = "open", ![s].shown = shown]
    BY <1>5 DEF D!Connect
  <2> DEFINE x == [sessions[s] EXCEPT !.at = "open", !.shown = shown]
  <2>2. creds' = creds /\ running' = running /\ accessEnv' = accessEnv /\ sessions[s].at = "ready"
    BY <1>5 DEF D!Connect, D!At
  <2>3. /\ x \in D!Session /\ x.at = "open" /\ x.row = sessions[s].row /\ x.shown = shown
        /\ x.retired = sessions[s].retired
    BY <1>typed DEF D!Session
  <2>4. sessions' = [sessions EXCEPT ![s] = x]
    BY <2>1, <1>typed
  <2> HIDE DEF x
  <2>5. Guided(x)
    BY <2>1, <2>2, <2>3, <1>typed DEF Guided
  <2>6. QED
    BY <2>2, <2>3, <2>4, <2>5, <1>env, <1>typed, <1>rest
<1>6. CASE D!Finish(s)
  <2>1. /\ sessions' = [sessions EXCEPT ![s] = D!NoSession] /\ creds' = creds /\ accessEnv' = accessEnv
        /\ running' \in {FALSE, running}
    BY <1>6 DEF D!Finish, D!Leaves
  <2>2. running' \in BOOLEAN
    BY <2>1, <1>env
  <2>3. QED
    BY <2>1, <2>2, <1>none, <1>env, <1>typed, <1>rest
<1>7. CASE D!Die(s)
  <2>1. /\ sessions' = [sessions EXCEPT ![s] = D!NoSession] /\ creds' = creds /\ running' = running
    BY <1>7 DEF D!Die, D!Leaves
  <2>2. accessEnv' \in [D!EnvKinds -> Nat]
    BY <1>7, <1>env, AccessHappens DEF D!Die, D!EnvKinds
  <2>3. QED
    BY <2>1, <2>2, <1>none, <1>env, <1>typed, <1>rest
<1>8. QED
  BY <1>1, <1>2, <1>3, <1>4, <1>5, <1>6, <1>7

LEMMA HostsStep == HostsInv /\ [D!Next]_D!vars => HostsInv'
<1> SUFFICES ASSUME HostsInv, [D!Next]_D!vars PROVE HostsInv'
  OBVIOUS
<1>typed. D!TypeOK
  BY DEF HostsInv
<1>1. CASE UNCHANGED D!vars
  <2>1. D!TypeOK' /\ UNCHANGED <<hostKeys, regs, sessions>>
    BY <1>1, <1>typed DEF D!vars, D!TypeOK
  <2>2. QED
    BY <2>1, HostsKept
<1>2. ASSUME NEW p \in Payloads, D!UpsertNetBox(p) PROVE HostsInv'
  <2>1. UNCHANGED <<hostKeys, regs, sessions>>
    BY <1>2 DEF D!UpsertNetBox
  <2>2. QED
    BY <2>1, <1>2, <1>typed, SettingsTyped, HostsKept
<1>3. ASSUME NEW c \in Creds,
             \/ \E e \in Edits : D!CreateCredential(c, e) \/ D!UpdateCredential(c, e)
             \/ D!DeleteCredential(c) \/ D!BindDevice(c) \/ D!TestConnectivity(c)
      PROVE  HostsInv'
  BY <1>3, <1>typed, CredentialsTyped, HostsKept
<1>4. ASSUME NEW u \in Admins, D!Register(u) \/ D!Deactivate(u) \/ D!Insert(u) \/ D!RollBack(u)
      PROVE  HostsInv'
  BY <1>4, RegsStep
<1>5. ASSUME NEW u \in Admins, D!Commit(u) PROVE HostsInv'
  BY <1>5, CommitStep
<1>6. ASSUME NEW s \in Sessions,
             \/ \E c \in Creds, scope \in D!Scopes : D!Resolve(s, c, scope)
             \/ D!Unknown(s) \/ D!BeginProbe(s) \/ D!BeginChange(s) \/ D!Connect(s)
             \/ D!Finish(s) \/ D!Die(s)
      PROVE  HostsInv'
  BY <1>6, SessionsStep
<1>7. QED
  BY <1>1, <1>2, <1>3, <1>4, <1>5, <1>6 DEF D!Next

LEMMA HostsAlways == D!DeviceAccessSpec => []HostsInv
BY HostsInit, HostsStep, PTL DEF D!DeviceAccessSpec

(* The settings, credentials, host keys, registrations and sessions keep their types. *)
THEOREM DeviceAccessTypes == D!DeviceAccessSpec => []D!TypeOK
<1>1. HostsInv => D!TypeOK
  BY DEF HostsInv
<1>2. QED
  BY <1>1, HostsAlways, PTL

LEMMA SingleHostKey == ASSUME NEW i PROVE D!Cardinality({i}) = 1
<1>1. D!Cardinality({i}) = Cardinality({i})
  BY DEF D!Cardinality, Cardinality
<1>2. QED
  BY <1>1, FS_Singleton

(* However many registrations run at once, blocked, refused, dead half-way or not, a
   registered port of the device has exactly one active host key. *)
THEOREM OneActiveHostKey == D!DeviceAccessSpec => []OneHostKey
<1>1. HostsInv => OneHostKey
  <2> SUFFICES ASSUME HostsInv, NEW port \in Ports, D!Rows(port) # {}
               PROVE  D!Cardinality(D!Active(port)) = 1
    BY DEF OneHostKey, D!OneHostKey
  <2>1. PICK i : D!Active(port) = {i}
    BY DEF HostsInv, PortsInv
  <2>2. QED
    BY <2>1, SingleHostKey
<1>2. QED
  BY <1>1, HostsAlways, PTL

(* However many probes and changes, and however keys and credentials are edited
   meanwhile: the session of one, by the pinned transport (probes/ssh_transport.py),
   only opens to a host that has shown a registered key which had not been replaced
   when the session was asked for. *)
THEOREM SessionsKnowTheirHost == D!DeviceAccessSpec => []KnowsItsHost
<1>1. HostsInv => KnowsItsHost
  <2> SUFFICES ASSUME HostsInv, NEW s \in Sessions, D!At(s, "open")
               PROVE  \E i \in DOMAIN hostKeys :
                        i \notin sessions[s].retired /\ hostKeys[i].key = sessions[s].shown
    BY DEF KnowsItsHost, D!KnowsItsHost
  <2>1. Guided(sessions[s]) /\ sessions[s].at = "open"
    BY DEF HostsInv, SessionsInv, D!At
  <2>2. QED
    BY <2>1 DEF Guided
<1>2. QED
  BY <1>1, HostsAlways, PTL

-----------------------------------------------------------------------------
(* AssetMirror. *)

AssetsTyped ==
  /\ now \in Nat /\ cleared \in 0 .. now
  /\ devices \in [Devices -> A!Device]
  /\ cache \in [Asked -> A!Entry]
  /\ answer \in [asOf : Nat, given : Nat, cleared : Nat]
  /\ mirror \in [Devices -> Nat]

(* What is cached was found after the cache was cleared last, and expires when its
   lifetime is over. *)
CacheTrue ==
  \A q \in Asked :
    cache[q].asOf > 0 => /\ cache[q].asOf \in cleared .. now
                         /\ cache[q].expires = cache[q].asOf + TTL

(* A row of the mirror is not ahead of NetBox, nor NetBox of the clock. *)
MirrorBehind ==
  \A d \in Devices : mirror[d] <= devices[d].rev /\ devices[d].rev <= now

AssetsInv == AssetsTyped /\ CacheTrue /\ MirrorBehind /\ AnswersFresh

(* What a list finds is an entry of now, with revisions NetBox has. *)
LEMMA FoundEntry ==
  ASSUME AssetsTyped, NEW q
  PROVE  /\ A!Found(q) \in A!Entry
         /\ A!Found(q).asOf = now /\ A!Found(q).expires = now + TTL
         /\ \A d \in Devices : A!Found(q).revs[d] \in {0, devices[d].rev}
BY ServicesAssumption
   DEF A!Found, A!Entry, AssetsTyped, A!Device, A!AssetMirrorAssumption

(* Writing revisions NetBox has, or none, to the mirror keeps its type and leaves
   every row where it was or at NetBox's revision. *)
LEMMA SyncedRows ==
  ASSUME AssetsTyped, NEW revs,
         \A d \in Devices : revs[d] \in {0, devices[d].rev}
  PROVE  /\ A!Synced(revs) \in [Devices -> Nat]
         /\ \A d \in Devices : A!Synced(revs)[d] \in {mirror[d], devices[d].rev}
BY DEF A!Synced, AssetsTyped, A!Device

LEMMA MirrorWritten ==
  ASSUME AssetsTyped, MirrorBehind, NEW revs,
         \A d \in Devices : revs[d] \in {0, devices[d].rev},
         mirror' = A!Synced(revs), devices' = devices, now' = now
  PROVE  /\ mirror' \in [Devices -> Nat]
         /\ MirrorBehind'
         /\ \A d \in Devices : mirror'[d] >= mirror[d]
<1>1. /\ mirror' \in [Devices -> Nat]
      /\ \A d \in Devices : mirror'[d] \in {mirror[d], devices[d].rev}
  BY SyncedRows
<1>2. \A d \in Devices : mirror[d] \in Nat /\ devices[d].rev \in Nat
  BY DEF AssetsTyped, A!Device
<1>3. QED
  BY <1>1, <1>2 DEF MirrorBehind

(* An answer given now, of an entry of the cache or of what is found now, is fresh. *)
LEMMA SaysFresh ==
  ASSUME AssetsTyped, NEW entry, entry \in A!Entry, A!Says(entry),
         entry.asOf \in cleared .. now, now - entry.asOf <= TTL, cleared' = cleared
  PROVE  AnswersFresh' /\ answer' \in [asOf : Nat, given : Nat, cleared : Nat]
BY DEF A!Says, AnswersFresh, A!AnswersFresh, A!Entry, AssetsTyped

LEMMA AssetsInit == A!Init => AssetsInv
<1> SUFFICES ASSUME A!Init PROVE AssetsInv
  OBVIOUS
<1>1. AssetsTyped
  <2>1. now \in Nat /\ cleared \in 0 .. now /\ answer \in [asOf : Nat, given : Nat, cleared : Nat]
    BY DEF A!Init
  <2>2. devices \in [Devices -> A!Device]
    <3> DEFINE First == {[there |-> r = 1, rev |-> r, ip |-> TRUE, vendor |-> v] : r \in {0, 1}, v \in Vendors}
    <3>1. devices \in [Devices -> First]
      BY DEF A!Init
    <3>2. ASSUME NEW r \in {0, 1}, NEW v \in Vendors
          PROVE  [there |-> r = 1, rev |-> r, ip |-> TRUE, vendor |-> v] \in A!Device
      <4>1. (r = 1) \in BOOLEAN
        BY Zenon
      <4>2. QED
        BY <4>1 DEF A!Device
    <3>3. First \subseteq A!Device
      BY <3>2
    <3> HIDE DEF First
    <3>4. QED
      BY <3>1, <3>3
  <2>3. cache \in [Asked -> A!Entry] /\ mirror \in [Devices -> Nat]
    BY DEF A!Init, A!Entry, A!Nothing
  <2>4. QED
    BY <2>1, <2>2, <2>3 DEF AssetsTyped
<1>2. CacheTrue
  BY DEF A!Init, CacheTrue, A!Nothing
<1>3. MirrorBehind
  BY DEF A!Init, MirrorBehind
<1>4. AnswersFresh
  BY DEF A!Init, AnswersFresh, A!AnswersFresh
<1>5. QED
  BY <1>1, <1>2, <1>3, <1>4 DEF AssetsInv

LEMMA AssetsStep ==
  ASSUME AssetsInv, [A!Next]_A!vars
  PROVE  AssetsInv' /\ (\A d \in Devices : mirror'[d] >= mirror[d])
<1> USE ServicesAssumption DEF A!AssetMirrorAssumption
<1>typed. AssetsTyped /\ CacheTrue /\ MirrorBehind /\ AnswersFresh
  BY DEF AssetsInv
<1>rows. \A d \in Devices : mirror[d] \in Nat /\ devices[d].rev \in Nat
  BY <1>typed DEF AssetsTyped, A!Device
<1>1. CASE UNCHANGED A!vars
  BY <1>1, <1>typed, <1>rows DEF A!vars, AssetsInv, AssetsTyped, CacheTrue, MirrorBehind, AnswersFresh, A!AnswersFresh
<1>2. CASE A!Tick
  BY <1>2, <1>typed, <1>rows DEF A!Tick, AssetsInv, AssetsTyped, CacheTrue, MirrorBehind, AnswersFresh, A!AnswersFresh
<1>3. ASSUME NEW d \in Devices, A!Edit(d) \/ A!Remove(d) \/ A!EditContext(d)
      PROVE  AssetsInv' /\ (\A e \in Devices : mirror'[e] >= mirror[e])
  <2>1. /\ now' = now + 1 /\ UNCHANGED <<cache, cleared, answer, mirror>>
        /\ devices' \in [Devices -> A!Device]
        /\ \A e \in Devices : devices'[e].rev \in {devices[e].rev, now'}
    <3>1. CASE A!Edit(d)
      BY <3>1, <1>typed DEF A!Edit, AssetsTyped, A!Device
    <3>2. CASE A!Remove(d)
      BY <3>2, <1>typed DEF A!Remove, AssetsTyped, A!Device
    <3>3. CASE A!EditContext(d)
      BY <3>3, <1>typed DEF A!EditContext, AssetsTyped
    <3>4. QED
      BY <3>1, <3>2, <3>3, <1>3
  <2>2. AssetsTyped' /\ CacheTrue' /\ AnswersFresh'
    BY <2>1, <1>typed DEF AssetsTyped, CacheTrue, AnswersFresh, A!AnswersFresh
  <2>3. MirrorBehind' /\ (\A e \in Devices : mirror'[e] >= mirror[e])
    BY <2>1, <1>typed, <1>rows DEF MirrorBehind, AssetsTyped
  <2>4. QED
    BY <2>2, <2>3 DEF AssetsInv
<1>4. ASSUME NEW d \in Devices, A!Detail(d)
      PROVE  AssetsInv' /\ (\A e \in Devices : mirror'[e] >= mirror[e])
  <2> DEFINE revs == [A!Nothing.revs EXCEPT ![d] = devices[d].rev]
  <2>1. mirror' = A!Synced(revs) /\ UNCHANGED <<now, devices, cache, cleared, answer>>
    BY <1>4 DEF A!Detail
  <2>2. \A e \in Devices : revs[e] \in {0, devices[e].rev}
    BY DEF A!Nothing
  <2> HIDE DEF revs
  <2>3. mirror' \in [Devices -> Nat] /\ MirrorBehind' /\ (\A e \in Devices : mirror'[e] >= mirror[e])
    BY <2>1, <2>2, <1>typed, MirrorWritten
  <2>4. AssetsTyped' /\ CacheTrue' /\ AnswersFresh'
    BY <2>1, <2>3, <1>typed DEF AssetsTyped, CacheTrue, AnswersFresh, A!AnswersFresh
  <2>5. QED
    BY <2>3, <2>4 DEF AssetsInv
<1>5. ASSUME NEW vendor, A!SyncDevices(vendor)
      PROVE  AssetsInv' /\ (\A e \in Devices : mirror'[e] >= mirror[e])
  <2> DEFINE found == A!Found(<<"devices", vendor>>)
  <2>1. mirror' = A!Synced(found.revs) /\ UNCHANGED <<now, devices, cache, cleared, answer>>
    BY <1>5 DEF A!SyncDevices
  <2>2. \A e \in Devices : found.revs[e] \in {0, devices[e].rev}
    BY <1>typed, FoundEntry
  <2> HIDE DEF found
  <2>3. mirror' \in [Devices -> Nat] /\ MirrorBehind' /\ (\A e \in Devices : mirror'[e] >= mirror[e])
    BY <2>1, <2>2, <1>typed, MirrorWritten
  <2>4. AssetsTyped' /\ CacheTrue' /\ AnswersFresh'
    BY <2>1, <2>3, <1>typed DEF AssetsTyped, CacheTrue, AnswersFresh, A!AnswersFresh
  <2>5. QED
    BY <2>3, <2>4 DEF AssetsInv
<1>6. ASSUME NEW q \in Asked, A!Hit(q)
      PROVE  AssetsInv' /\ (\A e \in Devices : mirror'[e] >= mirror[e])
  <2>1. /\ cache[q].asOf > 0 /\ now <= cache[q].expires /\ A!Says(cache[q])
        /\ UNCHANGED <<now, devices, cache, cleared, mirror>>
    BY <1>6 DEF A!Hit, A!Cached
  <2>2. cache[q] \in A!Entry /\ cache[q].asOf \in cleared .. now /\ now - cache[q].asOf <= TTL
    BY <2>1, <1>typed DEF AssetsTyped, CacheTrue, A!Entry
  <2>3. AnswersFresh' /\ answer' \in [asOf : Nat, given : Nat, cleared : Nat]
    BY <2>1, <2>2, <1>typed, SaysFresh
  <2>4. AssetsTyped' /\ CacheTrue' /\ MirrorBehind' /\ (\A e \in Devices : mirror'[e] >= mirror[e])
    BY <2>1, <2>3, <1>typed, <1>rows DEF AssetsTyped, CacheTrue, MirrorBehind
  <2>5. QED
    BY <2>3, <2>4 DEF AssetsInv
<1>7. ASSUME NEW q \in Asked, A!Miss(q)
      PROVE  AssetsInv' /\ (\A e \in Devices : mirror'[e] >= mirror[e])
  <2> DEFINE found == A!Found(q)
  <2>1. /\ A!Says(found) /\ cache' = [cache EXCEPT ![q] = found]
        /\ mirror' = A!Synced(found.revs) \/ mirror' = mirror
        /\ UNCHANGED <<now, devices, cleared>>
    BY <1>7 DEF A!Miss
  <2>2. /\ found \in A!Entry /\ found.asOf = now /\ found.expires = now + TTL
        /\ \A e \in Devices : found.revs[e] \in {0, devices[e].rev}
    BY <1>typed, FoundEntry
  <2> HIDE DEF found
  <2>3. AnswersFresh' /\ answer' \in [asOf : Nat, given : Nat, cleared : Nat]
    <3>1. found.asOf \in cleared .. now /\ now - found.asOf <= TTL
      BY <2>2, <1>typed DEF AssetsTyped
    <3>2. QED
      BY <2>1, <2>2, <3>1, <1>typed, SaysFresh
  <2>4. mirror' \in [Devices -> Nat] /\ MirrorBehind' /\ (\A e \in Devices : mirror'[e] >= mirror[e])
    <3>1. CASE mirror' = A!Synced(found.revs)
      BY <3>1, <2>1, <2>2, <1>typed, MirrorWritten
    <3>2. CASE mirror' = mirror
      BY <3>2, <2>1, <1>typed, <1>rows DEF AssetsTyped, MirrorBehind
    <3>3. QED
      BY <3>1, <3>2, <2>1
  <2>5. AssetsTyped'
    BY <2>1, <2>2, <2>3, <2>4, <1>typed DEF AssetsTyped
  <2>6. CacheTrue'
    BY <2>1, <2>2, <1>typed DEF AssetsTyped, CacheTrue
  <2>7. QED
    BY <2>3, <2>4, <2>5, <2>6 DEF AssetsInv
<1>8. CASE A!ClearCache
  <2>1. /\ cleared' = now /\ UNCHANGED <<now, devices, answer, mirror>>
        /\ cache' = [q \in Asked |-> IF q[1] \in A!Prefixes THEN A!Nothing ELSE cache[q]]
    BY <1>8 DEF A!ClearCache, A!Listed
  <2>2. \A q \in Asked : q[1] \in A!Prefixes
    BY DEF A!Requests
  <2>3. cache' = [q \in Asked |-> A!Nothing]
    BY <2>1, <2>2
  <2>4. AssetsTyped' /\ CacheTrue'
    BY <2>1, <2>3, <1>typed DEF AssetsTyped, CacheTrue, A!Nothing, A!Entry
  <2>5. MirrorBehind' /\ AnswersFresh' /\ (\A e \in Devices : mirror'[e] >= mirror[e])
    BY <2>1, <1>typed, <1>rows DEF MirrorBehind, AnswersFresh, A!AnswersFresh
  <2>6. QED
    BY <2>4, <2>5 DEF AssetsInv
<1>9. ASSUME NEW f \in Fetches,
             (\E d \in Devices : A!BeginFetch(f, d)) \/ A!SaveConfig(f) \/ A!FetchFails(f)
      PROVE  AssetsInv' /\ (\A e \in Devices : mirror'[e] >= mirror[e])
  <2>1. UNCHANGED <<now, devices, cache, cleared, answer, mirror>>
    BY <1>9 DEF A!BeginFetch, A!SaveConfig, A!FetchFails
  <2>2. QED
    BY <2>1, <1>typed, <1>rows
       DEF AssetsInv, AssetsTyped, CacheTrue, MirrorBehind, AnswersFresh, A!AnswersFresh
<1>10. QED
  BY <1>1, <1>2, <1>3, <1>4, <1>5, <1>6, <1>7, <1>8, <1>9 DEF A!Next

(* The rest of AssetMirror's types: the clock's bound, the context data and who reads it. *)
ContextTyped ==
  /\ now \in 0 .. MaxNow
  /\ context \in [Devices -> A!Context]
  /\ fetches \in [Fetches -> A!Fetch]
  /\ assetsEnv \in [A!EnvKinds -> Nat]

LEMMA NoFetchTyped == A!NoFetch \in A!Fetch
<1> DEFINE d == CHOOSE d \in Devices : TRUE
<1>1. d \in Devices
  BY ServicesAssumption DEF A!AssetMirrorAssumption
<1>2. [config |-> 0, rest |-> 0] \in A!Context
  BY DEF A!Context
<1> HIDE DEF d
<1>3. [at |-> "idle", device |-> d, context |-> [config |-> 0, rest |-> 0]] \in A!Fetch
  BY <1>1, <1>2 DEF A!Fetch
<1>4. QED
  BY <1>3 DEF A!NoFetch, d

LEMMA ContextInit == A!Init => ContextTyped
<1> SUFFICES ASSUME A!Init PROVE ContextTyped
  OBVIOUS
<1>1. now \in 0 .. MaxNow
  BY ServicesAssumption DEF A!Init, A!AssetMirrorAssumption
<1>2. context \in [Devices -> A!Context]
  BY DEF A!Init, A!Context
<1>3. fetches \in [Fetches -> A!Fetch]
  BY NoFetchTyped DEF A!Init
<1>4. assetsEnv \in [A!EnvKinds -> Nat]
  BY DEF A!Init
<1>5. QED
  BY <1>1, <1>2, <1>3, <1>4 DEF ContextTyped

LEMMA ContextStep ==
  ASSUME ContextTyped, [A!Next]_A!vars
  PROVE  ContextTyped'
<1>typed. /\ now \in 0 .. MaxNow /\ MaxNow \in Nat /\ context \in [Devices -> A!Context]
          /\ fetches \in [Fetches -> A!Fetch] /\ assetsEnv \in [A!EnvKinds -> Nat]
  BY ServicesAssumption DEF ContextTyped, A!AssetMirrorAssumption
<1>counts. \A k \in A!EnvKinds : [assetsEnv EXCEPT ![k] = @ + 1] \in [A!EnvKinds -> Nat]
  BY <1>typed
<1>1. CASE UNCHANGED A!vars
  BY <1>1 DEF A!vars, ContextTyped
<1>2. CASE A!Tick
  BY <1>2, <1>typed DEF A!Tick, ContextTyped
<1>3. ASSUME NEW d \in Devices, A!Edit(d) \/ A!Remove(d) \/ A!EditContext(d)
      PROVE  ContextTyped'
  <2>1. /\ now' \in 0 .. MaxNow /\ fetches' = fetches
        /\ assetsEnv' = [assetsEnv EXCEPT !["edit"] = @ + 1]
        /\ context' = context \/ context' = [context EXCEPT ![d].rest = now']
    BY <1>3, <1>typed DEF A!Edit, A!Remove, A!EditContext, A!Happens
  <2>2. context' \in [Devices -> A!Context]
    BY <2>1, <1>typed DEF A!Context
  <2>3. assetsEnv' \in [A!EnvKinds -> Nat]
    BY <2>1, <1>counts DEF A!EnvKinds
  <2>4. QED
    BY <2>1, <2>2, <2>3, <1>typed DEF ContextTyped
<1>4. CASE \/ A!ClearCache \/ \E d \in Devices : A!Detail(d)
           \/ \E q \in Asked : A!Hit(q) \/ A!Miss(q)
           \/ \E vendor \in {"all"} \cup Vendors : A!SyncDevices(vendor)
  <2>1. UNCHANGED <<now, context, fetches, assetsEnv>>
    BY <1>4 DEF A!ClearCache, A!Detail, A!Hit, A!Miss, A!SyncDevices
  <2>2. QED
    BY <2>1, <1>typed DEF ContextTyped
<1>5. ASSUME NEW f \in Fetches, NEW d \in Devices, A!BeginFetch(f, d)
      PROVE  ContextTyped'
  <2>1. /\ fetches' = [fetches EXCEPT ![f] = [at |-> "fetching", device |-> d, context |-> context[d]]]
        /\ assetsEnv' = [assetsEnv EXCEPT !["fetch"] = @ + 1] /\ UNCHANGED <<now, context>>
    BY <1>5 DEF A!BeginFetch, A!Happens
  <2>2. [at |-> "fetching", device |-> d, context |-> context[d]] \in A!Fetch
    BY <1>typed DEF A!Fetch
  <2>3. fetches' \in [Fetches -> A!Fetch]
    BY <2>1, <2>2, <1>typed
  <2>4. assetsEnv' \in [A!EnvKinds -> Nat]
    BY <2>1, <1>counts DEF A!EnvKinds
  <2>5. QED
    BY <2>1, <2>3, <2>4, <1>typed DEF ContextTyped
<1>6. ASSUME NEW f \in Fetches, A!SaveConfig(f) \/ A!FetchFails(f)
      PROVE  ContextTyped'
  <2>1. /\ fetches' = [fetches EXCEPT ![f] = A!NoFetch] /\ UNCHANGED <<now, assetsEnv>>
        /\ \/ context' = context
           \/ context' = [context EXCEPT ![fetches[f].device] = [fetches[f].context EXCEPT !.config = now]]
    BY <1>6 DEF A!SaveConfig, A!FetchFails
  <2>2. [fetches[f].context EXCEPT !.config = now] \in A!Context
    <3>1. fetches[f].context \in A!Context /\ now \in Nat
      BY <1>typed DEF A!Fetch
    <3>2. QED
      BY <3>1 DEF A!Context
  <2>3. context' \in [Devices -> A!Context]
    BY <2>1, <2>2, <1>typed
  <2>4. fetches' \in [Fetches -> A!Fetch]
    BY <2>1, NoFetchTyped, <1>typed
  <2>5. QED
    BY <2>1, <2>3, <2>4, <1>typed DEF ContextTyped
<1>7. QED
  BY <1>1, <1>2, <1>3, <1>4, <1>5, <1>6 DEF A!Next

(* NetBox's devices, the cache, the mirror and the reads under way keep their types. *)
THEOREM AssetMirrorTypes == A!AssetMirrorSpec => []A!TypeOK
<1>1. A!Init => AssetsInv /\ ContextTyped
  BY AssetsInit, ContextInit
<1>2. AssetsInv /\ ContextTyped /\ [A!Next]_A!vars => AssetsInv' /\ ContextTyped'
  BY AssetsStep, ContextStep
<1>3. AssetsInv /\ ContextTyped => A!TypeOK
  BY DEF AssetsInv, AssetsTyped, ContextTyped, A!TypeOK
<1>4. QED
  BY <1>1, <1>2, <1>3, PTL DEF A!AssetMirrorSpec

(* An answer of the asset API is never older than the cache's lifetime nor than the
   last time the cache was cleared, for every set of lists that is asked for. *)
THEOREM CachedAnswersFresh == A!AssetMirrorSpec => []AnswersFresh
<1>1. A!Init => AssetsInv
  BY AssetsInit
<1>2. AssetsInv /\ [A!Next]_A!vars => AssetsInv'
  BY AssetsStep
<1>3. AssetsInv => AnswersFresh
  BY DEF AssetsInv
<1>4. QED
  BY <1>1, <1>2, <1>3, PTL DEF A!AssetMirrorSpec

(* A row of the mirror never goes back to an earlier revision, however lists from
   the cache, lists from NetBox, pages and synchronisations alternate. *)
THEOREM MirrorNeverGoesBack == A!AssetMirrorSpec => MirrorForward
<1>1. A!Init => AssetsInv
  BY AssetsInit
<1>2. AssetsInv /\ [A!Next]_A!vars => AssetsInv'
  BY AssetsStep
<1>3. AssetsInv /\ [A!Next]_A!vars => [\A d \in Devices : mirror'[d] >= mirror[d]]_A!vars
  BY AssetsStep
<1>4. QED
  BY <1>1, <1>2, <1>3, PTL DEF A!AssetMirrorSpec, MirrorForward, A!MirrorForward

-----------------------------------------------------------------------------
(* EventClusters: what is inserted into and removed from a sequence. *)

LEMMA SameCardinality == \A S : E!Cardinality(S) = Cardinality(S)
<1> TAKE S
<1> QED
  BY DEF E!Cardinality, Cardinality

LEMMA InsertedAt ==
  ASSUME NEW S, NEW s \in Seq(S), NEW p \in 1 .. Len(s) + 1, NEW e \in S
  PROVE  /\ E!InsertAt(s, p, e) \in Seq(S) /\ Len(E!InsertAt(s, p, e)) = Len(s) + 1
         /\ \A k \in 1 .. Len(s) + 1 :
              E!InsertAt(s, p, e)[k] = IF k < p THEN s[k] ELSE IF k = p THEN e ELSE s[k - 1]
<1> DEFINE before == SubSeq(s, 1, p - 1)
<1> DEFINE after == SubSeq(s, p, Len(s))
<1>1. Len(s) \in Nat /\ \A k \in 1 .. Len(s) : s[k] \in S
  OBVIOUS
<1>2. /\ before \in Seq(S) /\ Len(before) = p - 1
      /\ \A k \in 1 .. p - 1 : before[k] = s[k]
  <2>1. p - 1 \in Int /\ 1 \in Int /\ \A k \in 1 .. p - 1 : s[k] \in S
    BY <1>1
  <2>2. /\ before \in Seq(S) /\ Len(before) = IF 1 <= p - 1 THEN p - 1 - 1 + 1 ELSE 0
        /\ \A k \in 1 .. p - 1 - 1 + 1 : before[k] = s[1 + k - 1]
    BY <2>1, SubSeqProperties
  <2> HIDE DEF before
  <2>3. QED
    BY <2>2, <1>1
<1>3. /\ after \in Seq(S) /\ Len(after) = Len(s) - p + 1
      /\ \A k \in 1 .. Len(s) - p + 1 : after[k] = s[p + k - 1]
  <2>1. p \in Int /\ Len(s) \in Int /\ \A k \in p .. Len(s) : s[k] \in S
    BY <1>1
  <2>2. /\ after \in Seq(S) /\ Len(after) = IF p <= Len(s) THEN Len(s) - p + 1 ELSE 0
        /\ \A k \in 1 .. Len(s) - p + 1 : after[k] = s[p + k - 1]
    BY <2>1, SubSeqProperties
  <2> HIDE DEF after
  <2>3. QED
    BY <2>2, <1>1
<1>4. E!InsertAt(s, p, e) = before \o <<e>> \o after
  BY DEF E!InsertAt
<1> HIDE DEF before, after
<1>5. /\ before \o <<e>> \in Seq(S) /\ Len(before \o <<e>>) = p
      /\ \A k \in 1 .. p : (before \o <<e>>)[k] = IF k < p THEN s[k] ELSE e
  <2>1. <<e>> \in Seq(S) /\ Len(<<e>>) = 1 /\ <<e>>[1] = e
    OBVIOUS
  <2>2. /\ before \o <<e>> \in Seq(S) /\ Len(before \o <<e>>) = p - 1 + 1
        /\ \A k \in 1 .. p - 1 + 1 :
             (before \o <<e>>)[k] = IF k <= p - 1 THEN before[k] ELSE <<e>>[k - (p - 1)]
    BY <2>1, <1>2, ConcatProperties
  <2>3. QED
    BY <2>1, <2>2, <1>2, <1>1, SMTT(30)
<1> DEFINE front == before \o <<e>>
<1>6. /\ front \o after \in Seq(S)
      /\ Len(front \o after) = Len(front) + Len(after)
      /\ \A k \in 1 .. Len(front) + Len(after) :
           (front \o after)[k] = IF k <= Len(front) THEN front[k] ELSE after[k - Len(front)]
  <2> HIDE DEF front
  <2>1. front \in Seq(S)
    BY <1>5 DEF front
  <2>2. QED
    BY <2>1, <1>3, ConcatProperties
<1>7. E!InsertAt(s, p, e) = front \o after
  BY <1>4
<1>8. /\ Len(front) = p /\ Len(front) + Len(after) = Len(s) + 1
      /\ \A k \in 1 .. p : front[k] = IF k < p THEN s[k] ELSE e
  <2>1. Len(front) = p /\ \A k \in 1 .. p : front[k] = IF k < p THEN s[k] ELSE e
    BY <1>5
  <2> HIDE DEF front
  <2>2. QED
    BY <2>1, <1>1, <1>3
<1> HIDE DEF front
<1>9. \A k \in 1 .. Len(s) + 1 :
        (front \o after)[k] = IF k < p THEN s[k] ELSE IF k = p THEN e ELSE s[k - 1]
  <2> SUFFICES ASSUME NEW k \in 1 .. Len(s) + 1
               PROVE  (front \o after)[k] = IF k < p THEN s[k] ELSE IF k = p THEN e ELSE s[k - 1]
    OBVIOUS
  <2>1. (front \o after)[k] = IF k <= p THEN front[k] ELSE after[k - p]
    BY <1>6, <1>8
  <2>2. CASE k <= p
    BY <2>1, <2>2, <1>1, <1>8
  <2>3. CASE k > p
    <3>1. k - p \in 1 .. Len(s) - p + 1 /\ p + (k - p) - 1 = k - 1
      BY <2>3, <1>1
    <3>2. QED
      BY <2>1, <2>3, <3>1, <1>1, <1>3
  <2>4. k <= p \/ k > p
    BY <1>1
  <2>5. QED
    BY <2>2, <2>3, <2>4
<1>10. QED
  BY <1>6, <1>7, <1>8, <1>9

LEMMA RemovedAt ==
  ASSUME NEW S, NEW s \in Seq(S), NEW i \in 1 .. Len(s)
  PROVE  /\ E!RemoveAt(s, i) \in Seq(S) /\ Len(E!RemoveAt(s, i)) = Len(s) - 1
         /\ \A k \in 1 .. Len(s) - 1 :
              E!RemoveAt(s, i)[k] = IF k < i THEN s[k] ELSE s[k + 1]
<1> DEFINE before == SubSeq(s, 1, i - 1)
<1> DEFINE after == SubSeq(s, i + 1, Len(s))
<1>1. Len(s) \in Nat /\ \A k \in 1 .. Len(s) : s[k] \in S
  OBVIOUS
<1>2. /\ before \in Seq(S) /\ Len(before) = i - 1
      /\ \A k \in 1 .. i - 1 : before[k] = s[k]
  <2>1. i - 1 \in Int /\ 1 \in Int /\ \A k \in 1 .. i - 1 : s[k] \in S
    BY <1>1
  <2>2. /\ before \in Seq(S) /\ Len(before) = IF 1 <= i - 1 THEN i - 1 - 1 + 1 ELSE 0
        /\ \A k \in 1 .. i - 1 - 1 + 1 : before[k] = s[1 + k - 1]
    BY <2>1, SubSeqProperties
  <2> HIDE DEF before
  <2>3. QED
    BY <2>2, <1>1
<1>3. /\ after \in Seq(S) /\ Len(after) = Len(s) - i
      /\ \A k \in 1 .. Len(s) - i : after[k] = s[i + k]
  <2>1. i + 1 \in Int /\ Len(s) \in Int /\ \A k \in i + 1 .. Len(s) : s[k] \in S
    BY <1>1
  <2>2. /\ after \in Seq(S) /\ Len(after) = IF i + 1 <= Len(s) THEN Len(s) - (i + 1) + 1 ELSE 0
        /\ \A k \in 1 .. Len(s) - (i + 1) + 1 : after[k] = s[i + 1 + k - 1]
    BY <2>1, SubSeqProperties
  <2> HIDE DEF after
  <2>3. QED
    BY <2>2, <1>1
<1>4. E!RemoveAt(s, i) = before \o after
  BY DEF E!RemoveAt
<1> HIDE DEF before, after
<1>5. /\ before \o after \in Seq(S)
      /\ Len(before \o after) = Len(before) + Len(after)
      /\ \A k \in 1 .. Len(before) + Len(after) :
           (before \o after)[k] = IF k <= Len(before) THEN before[k] ELSE after[k - Len(before)]
  BY <1>2, <1>3, ConcatProperties
<1>6. \A k \in 1 .. Len(s) - 1 : (before \o after)[k] = IF k < i THEN s[k] ELSE s[k + 1]
  <2> SUFFICES ASSUME NEW k \in 1 .. Len(s) - 1
               PROVE  (before \o after)[k] = IF k < i THEN s[k] ELSE s[k + 1]
    OBVIOUS
  <2>1. (before \o after)[k] = IF k <= i - 1 THEN before[k] ELSE after[k - (i - 1)]
    BY <1>1, <1>2, <1>3, <1>5
  <2>2. CASE k < i
    BY <2>1, <2>2, <1>1, <1>2
  <2>3. CASE k >= i
    <3>1. k - (i - 1) \in 1 .. Len(s) - i /\ i + (k - (i - 1)) = k + 1
      BY <2>3, <1>1
    <3>2. QED
      BY <2>1, <2>3, <3>1, <1>1, <1>3
  <2>4. k < i \/ k >= i
    BY <1>1
  <2>5. QED
    BY <2>2, <2>3, <2>4
<1>7. Len(before) + Len(after) = Len(s) - 1
  BY <1>1, <1>2, <1>3
<1>8. QED
  BY <1>4, <1>5, <1>6, <1>7

(* A finite set of numbers that is not empty has a greatest one, and Max is it: the
   set of those above a number shrinks as the number grows. *)
LEMMA GreatestIsMax ==
  ASSUME NEW S \in SUBSET Int, IsFiniteSet(S), S # {}
  PROVE  E!Max(S) \in S /\ \A y \in S : y <= E!Max(S)
<1> DEFINE Above(x) == {y \in S : x < y}
<1> DEFINE T == {Above(x) : x \in S}
<1>1. T \subseteq FiniteSubsetsOf(S)
  <2>1. \A x \in S : Above(x) \in SUBSET S
    OBVIOUS
  <2>2. \A x \in S : IsFiniteSet(Above(x))
    BY <2>1, FS_Subset
  <2>3. QED
    BY <2>1, <2>2 DEF FiniteSubsetsOf
<1>2. T # {}
  OBVIOUS
<1>3. \E U \in T : \A V \in T : ~ (<<V, U>> \in StrictSubsetOrdering(S))
  <2> HIDE DEF T
  <2>1. IsWellFoundedOn(StrictSubsetOrdering(S), FiniteSubsetsOf(S))
    BY FS_StrictSubsetOrderingWellFounded
  <2>2. QED
    BY <1>1, <1>2, <2>1, WFMin
<1>4. PICK x \in S : \A z \in S : ~ (<<Above(z), Above(x)>> \in StrictSubsetOrdering(S))
  BY <1>3
<1>5. \A z \in S : z <= x
  <2> SUFFICES ASSUME NEW z \in S, ~(z <= x) PROVE FALSE
    OBVIOUS
  <2>1. x \in Int /\ z \in Int /\ x < z
    OBVIOUS
  <2>4. \A y \in S : z < y => x < y
    BY <2>1
  <2>5. ~(z < z)
    BY <2>1
  <2>6. Above(z) \subseteq Above(x) /\ z \in Above(x) /\ z \notin Above(z)
    BY <2>1, <2>4, <2>5
  <2>2. <<Above(z), Above(x)>> \in StrictSubsetOrdering(S)
    BY <2>6 DEF StrictSubsetOrdering
  <2>3. QED
    BY <1>4, <2>2
<1> HIDE DEF T, Above
<1>6. \E m \in S : \A y \in S : m >= y
  BY <1>5
<1>7. E!Max(S) = CHOOSE m \in S : \A y \in S : m >= y
  BY DEF E!Max
<1>8. QED
  BY <1>6, <1>7

-----------------------------------------------------------------------------
(* The reader of the event list. *)

Ahead(asks, i) == Cardinality(E!Newer(asks, i))

(* What the reader has still to see, and no page has cut off from the rest of its
   time, is asked for, and newer events alone fill what the reader has skipped. *)
DueAhead ==
  reader.at = "reading" =>
    \A i \in DOMAIN events :
      events[i].mark = "due" => i \in E!AskedFor(reader.asks) /\ Ahead(reader.asks, i) >= reader.skip

EventsInv == E!TypeOK /\ DueAhead /\ NothingEscapes

LEMMA EventsShape ==
  ASSUME E!TypeOK
  PROVE  /\ events \in Seq(E!Event) /\ Len(events) \in Nat /\ DOMAIN events = 1 .. Len(events)
         /\ \A i \in DOMAIN events : events[i] \in E!Event
         /\ reader.at \in {"idle", "reading", "done", "spoiled"} /\ reader.asks \in Readers
         /\ reader.skip \in Nat
BY DEF E!TypeOK

LEMMA FiniteAsked ==
  ASSUME E!TypeOK, NEW asks, NEW i
  PROVE  /\ IsFiniteSet(E!AskedFor(asks)) /\ IsFiniteSet(E!Newer(asks, i)) /\ IsFiniteSet(E!SameTime(asks, i))
         /\ Ahead(asks, i) \in Nat /\ Cardinality(E!SameTime(asks, i)) \in Nat
         /\ Cardinality(E!AskedFor(asks)) \in Nat
<1>1. IsFiniteSet(DOMAIN events)
  BY EventsShape, FS_Interval
<1>2. /\ E!AskedFor(asks) \in SUBSET DOMAIN events
      /\ E!Newer(asks, i) \in SUBSET E!AskedFor(asks) /\ E!SameTime(asks, i) \in SUBSET E!AskedFor(asks)
  BY DEF E!AskedFor, E!Newer, E!SameTime
<1>3. IsFiniteSet(E!AskedFor(asks))
  BY <1>1, <1>2, FS_Subset
<1>4. IsFiniteSet(E!Newer(asks, i)) /\ IsFiniteSet(E!SameTime(asks, i))
  BY <1>2, <1>3, FS_Subset
<1>5. QED
  BY <1>3, <1>4, FS_CardinalityType DEF Ahead

(* Not all that is asked for is newer than an event that is asked for. *)
LEMMA NotAllNewer ==
  ASSUME E!TypeOK, NEW asks, NEW i \in E!AskedFor(asks)
  PROVE  Ahead(asks, i) < Cardinality(E!AskedFor(asks))
<1>1. events[i].time \in Nat
  <2>1. i \in DOMAIN events
    BY DEF E!AskedFor
  <2>2. QED
    BY <2>1, EventsShape, ServicesAssumption DEF E!Event, E!EventClustersAssumption
<1>2. i \notin E!Newer(asks, i) /\ E!Newer(asks, i) \subseteq E!AskedFor(asks)
  BY <1>1 DEF E!Newer
<1>3. E!Newer(asks, i) # E!AskedFor(asks)
  BY <1>2
<1>4. QED
  BY <1>2, <1>3, FiniteAsked, FS_Subset, FS_CardinalityType DEF Ahead

(* Events that move and keep their categories stay in the reader's view: the events
   newer than one that is due stay newer than it. *)
LEMMA DueMoved ==
  ASSUME EventsInv, E!TypeOK', reader' = reader, NEW f \in Injection(DOMAIN events, DOMAIN events'),
         \A j \in DOMAIN events : events'[f[j]].kind.category = events[j].kind.category,
         \A i \in DOMAIN events' : events'[i].mark = "due" =>
           \E k \in DOMAIN events : /\ f[k] = i /\ events[k].mark = "due"
                                    /\ \A j \in DOMAIN events : events[j].time > events[k].time =>
                                         events'[f[j]].time > events'[i].time
  PROVE  DueAhead'
<1> SUFFICES ASSUME reader.at = "reading", NEW i \in DOMAIN events', events'[i].mark = "due",
                    NEW asks, asks = reader.asks
             PROVE  i \in E!AskedFor(asks)' /\ Ahead(asks, i)' >= reader.skip
  BY DEF DueAhead, Ahead, E!Newer, E!AskedFor
<1>1. PICK k \in DOMAIN events : /\ f[k] = i /\ events[k].mark = "due"
                                 /\ \A j \in DOMAIN events : events[j].time > events[k].time =>
                                      events'[f[j]].time > events'[i].time
  OBVIOUS
<1>2. k \in E!AskedFor(asks) /\ Ahead(asks, k) >= reader.skip
  BY <1>1 DEF EventsInv, DueAhead
<1>3. f \in [DOMAIN events -> DOMAIN events'] /\ \A a, b \in DOMAIN events : f[a] = f[b] => a = b
  BY DEF Injection, IsInjective
<1>4. \A j \in E!AskedFor(asks) : j \in DOMAIN events /\ f[j] \in E!AskedFor(asks)'
  BY <1>3 DEF E!AskedFor
<1> DEFINE S == E!Newer(asks, k)
<1> DEFINE T == E!Newer(asks, i)'
<1> DEFINE g == [j \in S |-> f[j]]
<1>5. g \in Injection(S, T)
  <2>1. \A j \in S : j \in DOMAIN events /\ f[j] \in T
    BY <1>1, <1>4 DEF E!Newer
  <2>2. g \in [S -> T]
    BY <2>1
  <2>3. \A a, b \in S : g[a] = g[b] => a = b
    BY <1>3, <2>1
  <2>4. QED
    BY <2>2, <2>3 DEF Injection, IsInjective
<1>6. IsFiniteSet(T) /\ Ahead(asks, i)' = Cardinality(T)
  <2>1. IsFiniteSet(DOMAIN events')
    <3>1. Len(events') \in Nat /\ DOMAIN events' = 1 .. Len(events')
      BY DEF E!TypeOK
    <3>2. IsFiniteSet(1 .. Len(events'))
      BY <3>1, FS_Interval
    <3>3. QED
      BY <3>1, <3>2
  <2>2. T \in SUBSET DOMAIN events'
    BY DEF E!Newer, E!AskedFor
  <2>3. QED
    BY <2>1, <2>2, FS_Subset DEF Ahead
<1>7. Cardinality(S) <= Cardinality(T)
  <2> HIDE DEF S, T, g
  <2>1. QED
    BY <1>5, <1>6, FS_Injection
<1>8. Cardinality(S) = Ahead(asks, k) /\ Cardinality(S) \in Nat /\ Cardinality(T) \in Nat
  <2>1. IsFiniteSet(S)
    BY FiniteAsked DEF EventsInv
  <2>2. QED
    BY <2>1, <1>6, FS_CardinalityType DEF Ahead
<1>9. reader.skip \in Nat
  BY EventsShape DEF EventsInv
<1>10. i \in E!AskedFor(asks)'
  BY <1>1, <1>2, <1>4
<1> HIDE DEF S, T, g
<1>11. QED
  BY <1>2, <1>6, <1>7, <1>8, <1>9, <1>10

LEMMA EventsHappen ==
  ASSUME E!TypeOK, NEW kind \in E!EnvKinds, E!Happens(kind)
  PROVE  eventsEnv' \in [E!EnvKinds -> Nat]
BY DEF E!Happens, E!TypeOK

LEMMA EventsInit == E!Init => EventsInv
<1> SUFFICES ASSUME E!Init PROVE EventsInv
  OBVIOUS
<1>1. events = <<>> /\ reader = [E!Idle EXCEPT !.asks = CHOOSE r \in Readers : TRUE]
  BY DEF E!Init
<1>2. (CHOOSE r \in Readers : TRUE) \in Readers
  BY ServicesAssumption DEF E!EventClustersAssumption
<1>3. /\ reader \in [at : {"idle", "reading", "done", "spoiled"}, asks : Readers, skip : Nat]
      /\ reader.at = "idle"
  BY <1>1, <1>2 DEF E!Idle
<1>4. eventsEnv \in [E!EnvKinds -> Nat]
  BY DEF E!Init
<1>5. events \in Seq(E!Event)
  BY <1>1
<1>6. E!TypeOK
  BY <1>3, <1>4, <1>5 DEF E!TypeOK
<1>7. DueAhead /\ NothingEscapes
  BY <1>3 DEF DueAhead, NothingEscapes, E!NothingEscapes
<1>8. QED
  BY <1>6, <1>7 DEF EventsInv

LEMMA CollectStep ==
  ASSUME EventsInv, NEW kind \in Kinds, NEW time \in Times, NEW p \in 1 .. Len(events) + 1,
         E!Collect(kind, time, p)
  PROVE  EventsInv'
<1> DEFINE e == [kind |-> kind, time |-> time, case |-> FALSE, ticket |-> FALSE, mark |-> "new"]
<1>shape. E!TypeOK /\ events \in Seq(E!Event) /\ Len(events) \in Nat /\ DOMAIN events = 1 .. Len(events)
  BY EventsShape DEF EventsInv
<1>1. e \in E!Event /\ e.mark = "new"
  BY ServicesAssumption DEF E!EventClustersAssumption, E!Event
<1>2. events' = E!InsertAt(events, p, e) /\ reader' = reader /\ eventsEnv' \in [E!EnvKinds -> Nat]
  BY <1>shape, EventsHappen DEF E!Collect, E!EnvKinds
<1> HIDE DEF e
<1>3. /\ events' \in Seq(E!Event) /\ Len(events') = Len(events) + 1
      /\ \A k \in 1 .. Len(events) + 1 :
           events'[k] = IF k < p THEN events[k] ELSE IF k = p THEN e ELSE events[k - 1]
  <2>1. /\ E!InsertAt(events, p, e) \in Seq(E!Event) /\ Len(E!InsertAt(events, p, e)) = Len(events) + 1
        /\ \A k \in 1 .. Len(events) + 1 :
             E!InsertAt(events, p, e)[k] = IF k < p THEN events[k] ELSE IF k = p THEN e ELSE events[k - 1]
    BY <1>shape, <1>1, InsertedAt
  <2>2. QED
    BY <1>2, <2>1
<1>4. E!TypeOK'
  BY <1>2, <1>3, <1>shape DEF E!TypeOK
<1>5. DOMAIN events' = 1 .. Len(events) + 1
  BY <1>3, <1>shape
<1> DEFINE f == [j \in DOMAIN events |-> IF j < p THEN j ELSE j + 1]
<1>6. f \in Injection(DOMAIN events, DOMAIN events')
  <2>1. f \in [DOMAIN events -> DOMAIN events']
    BY <1>shape, <1>5
  <2>2. \A a, b \in DOMAIN events : f[a] = f[b] => a = b
    BY <1>shape
  <2>3. QED
    BY <2>1, <2>2 DEF Injection, IsInjective
<1>7. \A j \in DOMAIN events : events'[f[j]] = events[j]
  <2> SUFFICES ASSUME NEW j \in DOMAIN events PROVE events'[f[j]] = events[j]
    OBVIOUS
  <2>1. CASE j < p
    BY <2>1, <1>shape, <1>3
  <2>2. CASE ~(j < p)
    <3>1. f[j] = j + 1 /\ j + 1 \in 1 .. Len(events) + 1 /\ ~(j + 1 < p) /\ j + 1 # p /\ j + 1 - 1 = j
      BY <2>2, <1>shape
    <3>2. QED
      BY <3>1, <1>3
  <2>3. QED
    BY <2>1, <2>2
<1>8. ASSUME NEW i \in DOMAIN events', events'[i].mark = "due"
      PROVE  \E k \in DOMAIN events : /\ f[k] = i /\ events[k].mark = "due"
                                      /\ \A j \in DOMAIN events : events[j].time > events[k].time =>
                                           events'[f[j]].time > events'[i].time
  <2>1. i # p
    BY <1>1, <1>3, <1>5, <1>8
  <2> DEFINE k == IF i < p THEN i ELSE i - 1
  <2>2. k \in DOMAIN events /\ f[k] = i
    BY <1>shape, <1>5, <2>1
  <2>3. events[k].mark = "due"
    BY <1>7, <1>8, <2>2
  <2> HIDE DEF k, f
  <2>4. events'[i].time = events[k].time
    BY <1>7, <2>2
  <2>5. QED
    BY <1>7, <2>2, <2>3, <2>4
<1> HIDE DEF f
<1>9. DueAhead'
  <2>1. \A j \in DOMAIN events : events'[f[j]].kind.category = events[j].kind.category
    BY <1>7
  <2>2. QED
    BY <1>2, <1>4, <1>6, <1>8, <2>1, DueMoved
<1>10. NothingEscapes'
  BY <1>2, <1>8 DEF EventsInv, NothingEscapes, E!NothingEscapes
<1>11. QED
  BY <1>4, <1>9, <1>10 DEF EventsInv

LEMMA AgainStep ==
  ASSUME EventsInv, NEW i \in DOMAIN events, NEW p \in DOMAIN events,
         NEW time \in Times, NEW severity \in {kind.severity : kind \in Kinds},
         E!Again(i, time, p, severity)
  PROVE  EventsInv'
<1> DEFINE e == [kind |-> [events[i].kind EXCEPT !.severity = severity], time |-> time,
                 case |-> FALSE, ticket |-> FALSE, mark |-> "new"]
<1> DEFINE s == E!RemoveAt(events, i)
<1>shape. /\ E!TypeOK /\ events \in Seq(E!Event) /\ Len(events) \in Nat /\ DOMAIN events = 1 .. Len(events)
          /\ events[i] \in E!Event /\ reader.asks \in Readers /\ reader.skip \in Nat
  BY EventsShape DEF EventsInv
<1>1. e \in E!Event /\ e.mark = "new" /\ e.kind.category = events[i].kind.category /\ e.time = time
  <2>1. severity \in E!Severity
    BY ServicesAssumption DEF E!EventClustersAssumption, E!Kind
  <2>2. QED
    BY <2>1, <1>shape DEF E!Event, E!Kind
<1>2. /\ events' = E!InsertAt(s, p, e) /\ eventsEnv' \in [E!EnvKinds -> Nat]
      /\ reader' = IF time < events[i].time /\ reader.at = "reading" THEN [reader EXCEPT !.at = "spoiled"] ELSE reader
  BY <1>shape, EventsHappen DEF E!Again, E!EnvKinds
<1>3. /\ s \in Seq(E!Event) /\ Len(s) = Len(events) - 1
      /\ \A k \in 1 .. Len(events) - 1 : s[k] = IF k < i THEN events[k] ELSE events[k + 1]
  BY <1>shape, RemovedAt
<1> HIDE DEF e, s
<1>4. /\ events' \in Seq(E!Event) /\ Len(events') = Len(s) + 1
      /\ \A k \in 1 .. Len(s) + 1 :
           events'[k] = IF k < p THEN s[k] ELSE IF k = p THEN e ELSE s[k - 1]
  <2>1. p \in 1 .. Len(s) + 1
    BY <1>shape, <1>3
  <2>2. /\ E!InsertAt(s, p, e) \in Seq(E!Event) /\ Len(E!InsertAt(s, p, e)) = Len(s) + 1
        /\ \A k \in 1 .. Len(s) + 1 :
             E!InsertAt(s, p, e)[k] = IF k < p THEN s[k] ELSE IF k = p THEN e ELSE s[k - 1]
    <3>1. s \in Seq(E!Event) /\ e \in E!Event
      BY <1>1, <1>3
    <3>2. \A t \in Seq(E!Event) : \A ev \in E!Event, q \in 1 .. Len(t) + 1 :
            /\ E!InsertAt(t, q, ev) \in Seq(E!Event) /\ Len(E!InsertAt(t, q, ev)) = Len(t) + 1
            /\ \A k \in 1 .. Len(t) + 1 :
                 E!InsertAt(t, q, ev)[k] = IF k < q THEN t[k] ELSE IF k = q THEN ev ELSE t[k - 1]
      BY InsertedAt
    <3>3. QED
      BY <3>1, <3>2, <2>1, ZenonT(40)
  <2>3. QED
    BY <1>2, <2>2
<1>5. Len(events') = Len(events) /\ DOMAIN events' = DOMAIN events
  BY <1>3, <1>4, <1>shape
<1>6. E!TypeOK'
  <2>1. reader' \in [at : {"idle", "reading", "done", "spoiled"}, asks : Readers, skip : Nat]
    BY <1>2, <1>shape DEF E!TypeOK
  <2>2. QED
    BY <1>2, <1>4, <2>1 DEF E!TypeOK
<1> DEFINE f == [j \in DOMAIN events |->
                   IF j = i THEN p
                   ELSE IF j < i THEN (IF j < p THEN j ELSE j + 1) ELSE (IF j <= p THEN j - 1 ELSE j)]
<1>7. f \in Injection(DOMAIN events, DOMAIN events')
  <2>1. f \in [DOMAIN events -> DOMAIN events']
    BY <1>shape, <1>5
  <2>2. \A a, b \in DOMAIN events : f[a] = f[b] => a = b
    BY <1>shape
  <2>3. QED
    BY <2>1, <2>2 DEF Injection, IsInjective
<1>8. events'[p] = e
  BY <1>shape, <1>3, <1>4
<1>9. ASSUME NEW j \in DOMAIN events, j # i PROVE events'[f[j]] = events[j]
  <2>1. CASE j < i /\ j < p
    BY <2>1, <1>shape, <1>3, <1>4
  <2>2. CASE j < i /\ ~(j < p)
    <3>1. /\ f[j] = j + 1 /\ j + 1 \in 1 .. Len(s) + 1 /\ ~(j + 1 < p) /\ j + 1 # p /\ j + 1 - 1 = j
          /\ j \in 1 .. Len(events) - 1
      BY <2>2, <1>shape, <1>3
    <3>2. QED
      BY <2>2, <3>1, <1>3, <1>4
  <2>3. CASE j > i /\ j <= p
    <3>1. /\ f[j] = j - 1 /\ j - 1 \in 1 .. Len(s) + 1 /\ j - 1 < p /\ ~(j - 1 < i) /\ j - 1 + 1 = j
          /\ j - 1 \in 1 .. Len(events) - 1
      BY <2>3, <1>shape, <1>3
    <3>2. QED
      BY <2>3, <3>1, <1>3, <1>4
  <2>4. CASE j > i /\ ~(j <= p)
    <3>1. /\ f[j] = j /\ j \in 1 .. Len(s) + 1 /\ ~(j < p) /\ j # p /\ ~(j - 1 < i) /\ j - 1 + 1 = j
          /\ j - 1 \in 1 .. Len(events) - 1
      BY <2>4, <1>shape, <1>3
    <3>2. QED
      BY <2>4, <3>1, <1>3, <1>4
  <2>5. (j < i \/ j > i) /\ (j < p \/ ~(j < p)) /\ (j <= p \/ ~(j <= p))
    BY <1>9, <1>shape
  <2>6. QED
    BY <2>1, <2>2, <2>3, <2>4, <2>5
<1>10. ASSUME NEW m \in DOMAIN events', events'[m].mark = "due"
       PROVE  \E k \in DOMAIN events : f[k] = m /\ events[k].mark = "due"
  <2>1. m # p
    BY <1>1, <1>8, <1>10
  <2> DEFINE k == IF m < p THEN (IF m < i THEN m ELSE m + 1) ELSE (IF m <= i THEN m - 1 ELSE m)
  <2>2. k \in DOMAIN events /\ k # i /\ f[k] = m
    BY <1>shape, <1>5, <2>1
  <2> HIDE DEF f, k
  <2>3. QED
    BY <1>9, <1>10, <2>2
<1>11. DueAhead'
  <2>1. CASE reader.at = "reading" /\ time < events[i].time
    <3>1. reader'.at = "spoiled"
      BY <2>1, <1>2, <1>shape DEF E!TypeOK
    <3>2. QED
      BY <3>1 DEF DueAhead
  <2>2. CASE reader.at # "reading"
    <3>1. reader' = reader
      BY <2>2, <1>2
    <3>2. QED
      BY <2>2, <3>1 DEF DueAhead
  <2>3. CASE reader.at = "reading" /\ ~(time < events[i].time)
    <3>1. reader' = reader
      BY <2>3, <1>2
    <3>2. \A j \in DOMAIN events : events'[f[j]].kind.category = events[j].kind.category
      <4>1. f[i] = p
        OBVIOUS
      <4> HIDE DEF f
      <4>2. QED
        BY <4>1, <1>1, <1>8, <1>9
    <3>3. ASSUME NEW m \in DOMAIN events', events'[m].mark = "due"
          PROVE  \E k \in DOMAIN events : /\ f[k] = m /\ events[k].mark = "due"
                                          /\ \A j \in DOMAIN events : events[j].time > events[k].time =>
                                               events'[f[j]].time > events'[m].time
      <4>1. PICK k \in DOMAIN events : f[k] = m /\ events[k].mark = "due"
        BY <1>10, <3>3
      <4>2. k # i
        BY <4>1, <3>3, <1>1, <1>8
      <4>3. f[i] = p
        OBVIOUS
      <4> HIDE DEF f
      <4>4. events'[m].time = events[k].time
        BY <1>9, <4>1, <4>2
      <4>5. \A j \in DOMAIN events : events[j].time \in Nat
        BY EventsShape, <1>shape, ServicesAssumption DEF E!Event, E!EventClustersAssumption
      <4>6. time \in Nat
        BY ServicesAssumption DEF E!EventClustersAssumption
      <4>7. ASSUME NEW j \in DOMAIN events, events[j].time > events[k].time
            PROVE  events'[f[j]].time > events'[m].time
        <5>1. CASE j = i
          BY <5>1, <4>3, <4>4, <4>5, <4>6, <4>7, <2>3, <1>1, <1>8
        <5>2. CASE j # i
          BY <5>2, <1>9, <4>4, <4>7
        <5>3. QED
          BY <5>1, <5>2
      <4>8. QED
        BY <4>1, <4>7
    <3> HIDE DEF f
    <3>4. QED
      BY <3>1, <3>2, <3>3, <1>6, <1>7, DueMoved
  <2>4. QED
    BY <2>1, <2>2, <2>3
<1>12. NothingEscapes'
  <2>1. reader'.at = "done" => reader.at = "done"
    BY <1>2, <1>shape DEF E!TypeOK
  <2> HIDE DEF f
  <2>2. QED
    BY <2>1, <1>10 DEF EventsInv, NothingEscapes, E!NothingEscapes
<1>13. QED
  BY <1>6, <1>11, <1>12 DEF EventsInv

LEMMA LinkStep ==
  ASSUME EventsInv, NEW i \in DOMAIN events, NEW to \in {"case", "ticket"}, E!Link(i, to)
  PROVE  EventsInv'
<1>shape. /\ E!TypeOK /\ events \in Seq(E!Event) /\ DOMAIN events = 1 .. Len(events)
          /\ \A j \in DOMAIN events : events[j] \in E!Event
  BY EventsShape DEF EventsInv
<1>1. /\ events' = [events EXCEPT ![i].case = @ \/ to = "case", ![i].ticket = @ \/ to = "ticket"]
      /\ reader' = reader /\ eventsEnv' \in [E!EnvKinds -> Nat]
  BY <1>shape, EventsHappen DEF E!Link, E!EnvKinds
<1> DEFINE a == events[i].case \/ to = "case"
<1> DEFINE b == events[i].ticket \/ to = "ticket"
<1> DEFINE e == [events[i] EXCEPT !.case = a, !.ticket = b]
<1>2. e.kind = events[i].kind /\ e.time = events[i].time /\ e.mark = events[i].mark /\ e \in E!Event
  <2>1. a \in BOOLEAN /\ b \in BOOLEAN
    BY ZenonT(30)
  <2> HIDE DEF a, b
  <2>2. QED
    BY <2>1, <1>shape DEF E!Event
<1>3. /\ DOMAIN events' = DOMAIN events /\ events' \in Seq(E!Event)
      /\ \A j \in DOMAIN events : events'[j] = IF j = i THEN e ELSE events[j]
  <2> DEFINE middle == [events EXCEPT ![i] = [events[i] EXCEPT !.case = a]]
  <2>1. events' = [middle EXCEPT ![i] = [middle[i] EXCEPT !.ticket = b]]
    <3>1. middle[i].ticket = events[i].ticket
      <4> HIDE DEF a
      <4>1. QED
        BY <1>shape DEF E!Event
    <3>2. events' = [middle EXCEPT ![i] = [middle[i] EXCEPT !.ticket = middle[i].ticket \/ to = "ticket"]]
      BY <1>1, Zenon
    <3>3. QED
      BY <3>1, <3>2, Zenon
  <2> HIDE DEF a, b
  <2>2. /\ middle[i] = [events[i] EXCEPT !.case = a] /\ DOMAIN middle = DOMAIN events
        /\ \A j \in DOMAIN events : j # i => middle[j] = events[j]
    BY <1>shape
  <2>3. [middle[i] EXCEPT !.ticket = b] = e
    BY <2>2
  <2> HIDE DEF middle, e
  <2>4. DOMAIN events' = DOMAIN events /\ \A j \in DOMAIN events : events'[j] = IF j = i THEN e ELSE events[j]
    BY <2>1, <2>2, <2>3
  <2>5. events' = [j \in 1 .. Len(events) |-> events'[j]] /\ Len(events) \in Nat
    <3>1. events' = [j \in DOMAIN middle |-> IF j = i THEN [middle[i] EXCEPT !.ticket = b] ELSE middle[j]]
      BY <2>1
    <3>2. events' = [j \in DOMAIN events' |-> events'[j]]
      BY <3>1
    <3>3. QED
      BY <2>4, <3>2, <1>shape
  <2>6. \A j \in DOMAIN events : events'[j] \in E!Event
    BY <2>4, <1>2, <1>shape
  <2>7. events' \in Seq(E!Event)
    BY <2>5, <2>6, <1>shape
  <2>8. QED
    BY <2>4, <2>7
<1> HIDE DEF e
<1>4. \A j \in DOMAIN events : /\ events'[j].kind = events[j].kind /\ events'[j].time = events[j].time
                              /\ events'[j].mark = events[j].mark
  BY <1>2, <1>3
<1>5. E!TypeOK'
  BY <1>1, <1>3, <1>shape DEF E!TypeOK
<1>6. DueAhead' /\ NothingEscapes'
  <2>1. \A asks : E!AskedFor(asks)' = E!AskedFor(asks)
    BY <1>3, <1>4 DEF E!AskedFor
  <2>2. \A asks : \A k \in DOMAIN events : Ahead(asks, k)' = Ahead(asks, k)
    <3> SUFFICES ASSUME NEW asks, NEW k \in DOMAIN events PROVE Ahead(asks, k)' = Ahead(asks, k)
      OBVIOUS
    <3>1. E!Newer(asks, k)' = E!Newer(asks, k)
      BY <2>1, <1>4 DEF E!Newer, E!AskedFor
    <3>2. QED
      BY <3>1 DEF Ahead
  <2>3. QED
    BY <1>1, <1>3, <1>4, <2>1, <2>2 DEF EventsInv, DueAhead, NothingEscapes, E!NothingEscapes
<1>7. QED
  BY <1>5, <1>6 DEF EventsInv

LEMMA ReadStep ==
  ASSUME EventsInv, NEW asks \in Readers, E!Read(asks)
  PROVE  EventsInv'
<1>shape. /\ E!TypeOK /\ events \in Seq(E!Event) /\ Len(events) \in Nat /\ DOMAIN events = 1 .. Len(events)
          /\ \A j \in DOMAIN events : events[j] \in E!Event
  BY EventsShape DEF EventsInv
<1>1. /\ events' = [i \in DOMAIN events |-> [events[i] EXCEPT !.mark = IF i \in E!AskedFor(asks) THEN "due" ELSE "new"]]
      /\ reader' = [at |-> "reading", asks |-> asks, skip |-> 0] /\ eventsEnv' \in [E!EnvKinds -> Nat]
  BY <1>shape, EventsHappen DEF E!Read, E!EnvKinds
<1>2. /\ DOMAIN events' = DOMAIN events /\ events' \in Seq(E!Event)
      /\ \A i \in DOMAIN events : /\ events'[i].kind = events[i].kind /\ events'[i].time = events[i].time
                                  /\ events'[i].mark = "due" => i \in E!AskedFor(asks)
  <2>1. \A i \in DOMAIN events : events'[i] = [events[i] EXCEPT !.mark = IF i \in E!AskedFor(asks) THEN "due" ELSE "new"]
    BY <1>1
  <2>2. \A i \in DOMAIN events :
          /\ events'[i] \in E!Event
          /\ events'[i].kind = events[i].kind /\ events'[i].time = events[i].time
          /\ events'[i].mark = "due" => i \in E!AskedFor(asks)
    <3> SUFFICES ASSUME NEW i \in DOMAIN events
                 PROVE  /\ events'[i] \in E!Event
                        /\ events'[i].kind = events[i].kind /\ events'[i].time = events[i].time
                        /\ events'[i].mark = "due" => i \in E!AskedFor(asks)
      OBVIOUS
    <3>1. CASE i \in E!AskedFor(asks)
      <4>1. events'[i] = [events[i] EXCEPT !.mark = "due"]
        BY <2>1, <3>1
      <4>2. QED
        BY <3>1, <4>1, <1>shape DEF E!Event
    <3>2. CASE i \notin E!AskedFor(asks)
      <4>1. events'[i] = [events[i] EXCEPT !.mark = "new"]
        BY <2>1, <3>2
      <4>2. QED
        BY <4>1, <1>shape DEF E!Event
    <3>3. QED
      BY <3>1, <3>2
  <2>3. events' = [i \in 1 .. Len(events) |-> events'[i]] /\ DOMAIN events' = DOMAIN events
    BY <1>1, <1>shape
  <2>4. QED
    BY <2>2, <2>3, <1>shape
<1>3. E!TypeOK'
  BY <1>1, <1>2 DEF E!TypeOK
<1>4. E!AskedFor(asks)' = E!AskedFor(asks)
  BY <1>2 DEF E!AskedFor
<1>5. DueAhead'
  <2> SUFFICES ASSUME NEW i \in DOMAIN events', events'[i].mark = "due"
               PROVE  i \in E!AskedFor(asks)' /\ Ahead(asks, i)' >= 0
    <3>1. reader'.asks = asks /\ reader'.skip = 0
      BY <1>1
    <3>2. QED
      BY <3>1 DEF DueAhead, Ahead, E!Newer, E!AskedFor
  <2>1. i \in E!AskedFor(asks)
    BY <1>2
  <2>2. E!Newer(asks, i)' = E!Newer(asks, i)
    BY <1>2, <1>4, <2>1 DEF E!Newer, E!AskedFor
  <2>3. Ahead(asks, i)' = Ahead(asks, i) /\ Ahead(asks, i) \in Nat
    BY <2>2, <1>shape, FiniteAsked DEF Ahead
  <2>4. QED
    BY <1>4, <2>1, <2>3
<1>6. NothingEscapes'
  BY <1>1 DEF NothingEscapes, E!NothingEscapes
<1>7. QED
  BY <1>3, <1>5, <1>6 DEF EventsInv

LEMMA GreaterOfTwo ==
  ASSUME NEW x \in Int
  PROVE  E!Max({0, x}) = IF x > 0 THEN x ELSE 0
<1>1. {0, x} \in SUBSET Int /\ {0, x} # {}
  OBVIOUS
<1>2. IsFiniteSet({0, x})
  <2>1. IsFiniteSet({0} \cup {x})
    BY FS_Singleton, FS_Union
  <2>2. {0, x} = {0} \cup {x}
    OBVIOUS
  <2>3. QED
    BY <2>1, <2>2
<1>3. E!Max({0, x}) \in {0, x} /\ \A y \in {0, x} : y <= E!Max({0, x})
  BY <1>1, <1>2, GreatestIsMax
<1>4. QED
  BY <1>3

(* A page that gives none of the events of a time ends before them, if what was
   skipped did. *)
LEMMA GivesNone ==
  ASSUME E!TypeOK, NEW asks, NEW i \in E!AskedFor(asks), NEW given,
         NEW skip \in Nat, NEW returned \in Nat, Ahead(asks, i) >= skip,
         E!Fits(asks, given, skip + 1, skip + returned), given \cap E!SameTime(asks, i) = {}
  PROVE  Ahead(asks, i) >= skip + returned
<1> DEFINE before == Ahead(asks, i)
<1> DEFINE same == Cardinality(E!SameTime(asks, i))
<1> DEFINE S == (before + 1 .. before + same) \cap (skip + 1 .. skip + returned)
<1>1. before \in Nat /\ same \in Nat /\ IsFiniteSet(E!SameTime(asks, i))
  BY FiniteAsked
<1>2. same # 0
  <2>1. i \in E!SameTime(asks, i)
    BY DEF E!SameTime
  <2>2. QED
    BY <2>1, <1>1, FS_EmptySet
<1>3. Cardinality(S) = 0
  <2>1. \A T : E!Cardinality(T) = Cardinality(T)
    BY SameCardinality
  <2>2. Cardinality(given \cap E!SameTime(asks, i)) = Cardinality(S)
    BY <2>1 DEF E!Fits, Ahead
  <2>3. QED
    BY <2>2, FS_EmptySet
<1>4. IsFiniteSet(S)
  <2>1. S \subseteq before + 1 .. before + same
    OBVIOUS
  <2> HIDE DEF before, same
  <2>2. IsFiniteSet(before + 1 .. before + same)
    BY <1>1, FS_Interval
  <2> HIDE DEF S
  <2>3. QED
    BY <2>1, <2>2, FS_Subset
<1>5. before + 1 \notin S
  <2> HIDE DEF S
  <2>1. S = {}
    BY <1>3, <1>4, FS_EmptySet
  <2>2. QED
    BY <2>1
<1> HIDE DEF same, before
<1>6. QED
  BY <1>1, <1>2, <1>5 DEF before

LEMMA PageStep ==
  ASSUME EventsInv, E!Page
  PROVE  EventsInv'
<1> DEFINE asks == reader.asks
<1> DEFINE total == Cardinality(E!AskedFor(asks))
<1> DEFINE returned == E!Max({0, E!AtMost(Limit, total - reader.skip)})
<1>shape. /\ E!TypeOK /\ events \in Seq(E!Event) /\ Len(events) \in Nat /\ DOMAIN events = 1 .. Len(events)
          /\ \A i \in DOMAIN events : events[i] \in E!Event
          /\ reader.asks \in Readers /\ reader.skip \in Nat
  BY EventsShape DEF EventsInv
<1>1. PICK given \in SUBSET E!AskedFor(asks) :
        /\ E!Fits(asks, given, reader.skip + 1, reader.skip + returned)
        /\ events' = [i \in DOMAIN events |->
             IF i \in given THEN [events[i] EXCEPT !.mark = "seen"]
             ELSE IF events[i].mark = "due" /\ given \cap E!SameTime(asks, i) # {}
               THEN [events[i] EXCEPT !.mark = "cut"]
             ELSE events[i]]
  <2>1. \A S : E!Cardinality(S) = Cardinality(S)
    BY SameCardinality
  <2>2. QED
    BY <2>1 DEF E!Page
<1>reader. /\ reader' = IF E!HasMore(reader.skip, returned, total)
                          THEN [reader EXCEPT !.skip = @ + returned]
                          ELSE [reader EXCEPT !.at = IF @ = "reading" THEN "done" ELSE "idle"]
           /\ reader.at \in {"reading", "spoiled"} /\ eventsEnv' = eventsEnv
  <2>1. \A S : E!Cardinality(S) = Cardinality(S)
    BY SameCardinality
  <2>2. QED
    BY <2>1 DEF E!Page
<1>2. total \in Nat
  BY <1>shape, FiniteAsked
<1> HIDE DEF total
<1>3. returned \in Nat
  <2>1. E!AtMost(Limit, total - reader.skip) \in Int
    BY <1>2, <1>shape, ServicesAssumption DEF E!AtMost, E!EventClustersAssumption
  <2>2. QED
    BY <2>1, GreaterOfTwo
<1> HIDE DEF returned
<1>4. \A i \in DOMAIN events :
        /\ events'[i] \in E!Event /\ events'[i].kind = events[i].kind /\ events'[i].time = events[i].time
        /\ events'[i].mark = "due" => events[i].mark = "due" /\ given \cap E!SameTime(asks, i) = {}
  <2> SUFFICES ASSUME NEW i \in DOMAIN events
               PROVE  /\ events'[i] \in E!Event /\ events'[i].kind = events[i].kind
                      /\ events'[i].time = events[i].time
                      /\ events'[i].mark = "due" =>
                           events[i].mark = "due" /\ given \cap E!SameTime(asks, i) = {}
    OBVIOUS
  <2>1. CASE i \in given
    <3>1. events'[i] = [events[i] EXCEPT !.mark = "seen"]
      BY <1>1, <2>1
    <3>2. QED
      BY <3>1, <1>shape DEF E!Event
  <2>2. CASE i \notin given /\ events[i].mark = "due" /\ given \cap E!SameTime(asks, i) # {}
    <3>1. events'[i] = [events[i] EXCEPT !.mark = "cut"]
      BY <1>1, <2>2
    <3>2. QED
      BY <3>1, <1>shape DEF E!Event
  <2>3. CASE i \notin given /\ ~(events[i].mark = "due" /\ given \cap E!SameTime(asks, i) # {})
    <3>1. events'[i] = events[i]
      BY <1>1, <2>3
    <3>2. QED
      BY <3>1, <2>3, <1>shape
  <2>4. QED
    BY <2>1, <2>2, <2>3
<1>5. DOMAIN events' = DOMAIN events /\ events' \in Seq(E!Event)
  <2>1. events' = [i \in 1 .. Len(events) |-> events'[i]] /\ DOMAIN events' = DOMAIN events
    BY <1>1, <1>shape
  <2>2. QED
    BY <2>1, <1>4, <1>shape
<1>6. ASSUME NEW i \in DOMAIN events, events'[i].mark = "due", reader.at = "reading"
      PROVE  i \in E!AskedFor(asks) /\ Ahead(asks, i) >= reader.skip + returned
  <2>1. i \in E!AskedFor(asks) /\ Ahead(asks, i) >= reader.skip /\ given \cap E!SameTime(asks, i) = {}
    BY <1>4, <1>6 DEF EventsInv, DueAhead
  <2>2. QED
    BY <2>1, <1>1, <1>3, <1>shape, GivesNone
<1>7. CASE E!HasMore(reader.skip, returned, total)
  <2>1. reader' = [reader EXCEPT !.skip = @ + returned]
    BY <1>reader, <1>7
  <2>2. /\ reader' \in [at : {"idle", "reading", "done", "spoiled"}, asks : Readers, skip : Nat]
        /\ reader'.at = reader.at /\ reader'.asks = reader.asks /\ reader'.skip = reader.skip + returned
    BY <2>1, <1>3, <1>shape DEF E!TypeOK
  <2>3. E!TypeOK'
    BY <2>2, <1>reader, <1>5, <1>shape DEF E!TypeOK
  <2>4. \A a : E!AskedFor(a)' = E!AskedFor(a)
    BY <1>4, <1>5 DEF E!AskedFor
  <2>5. \A a : \A i \in DOMAIN events : Ahead(a, i)' = Ahead(a, i)
    <3> SUFFICES ASSUME NEW a, NEW i \in DOMAIN events PROVE Ahead(a, i)' = Ahead(a, i)
      OBVIOUS
    <3>1. E!Newer(a, i)' = E!Newer(a, i)
      BY <2>4, <1>4 DEF E!Newer, E!AskedFor
    <3>2. QED
      BY <3>1 DEF Ahead
  <2>6. DueAhead'
    BY <1>5, <1>6, <2>2, <2>4, <2>5 DEF DueAhead
  <2>7. NothingEscapes'
    BY <1>reader, <2>2 DEF NothingEscapes, E!NothingEscapes
  <2>8. QED
    BY <2>3, <2>6, <2>7 DEF EventsInv
<1>8. CASE ~E!HasMore(reader.skip, returned, total)
  <2>1. reader' = [reader EXCEPT !.at = IF @ = "reading" THEN "done" ELSE "idle"]
    BY <1>reader, <1>8
  <2>2. /\ reader' \in [at : {"idle", "reading", "done", "spoiled"}, asks : Readers, skip : Nat]
        /\ reader'.at # "reading" /\ (reader'.at = "done" => reader.at = "reading")
    BY <2>1, <1>shape DEF E!TypeOK
  <2>3. E!TypeOK'
    BY <2>2, <1>reader, <1>5, <1>shape DEF E!TypeOK
  <2>4. DueAhead'
    BY <2>2 DEF DueAhead
  <2>5. NothingEscapes'
    <3> SUFFICES ASSUME reader.at = "reading", NEW i \in DOMAIN events, events'[i].mark = "due"
                 PROVE  FALSE
      BY <2>2, <1>5 DEF NothingEscapes, E!NothingEscapes
    <3>1. Ahead(asks, i) >= reader.skip + returned /\ Ahead(asks, i) < total /\ Ahead(asks, i) \in Nat
      BY <1>6, <1>shape, NotAllNewer, FiniteAsked DEF total
    <3>2. QED
      BY <3>1, <1>2, <1>3, <1>8, <1>shape DEF E!HasMore
  <2>6. QED
    BY <2>3, <2>4, <2>5 DEF EventsInv
<1>9. QED
  BY <1>7, <1>8

LEMMA EventsStep == EventsInv /\ [E!Next]_(E!vars) => EventsInv'
<1> SUFFICES ASSUME EventsInv, [E!Next]_(E!vars) PROVE EventsInv'
  OBVIOUS
<1>1. CASE \E kind \in Kinds, time \in Times, p \in 1 .. Len(events) + 1 : E!Collect(kind, time, p)
  BY <1>1, CollectStep
<1>2. CASE \E i, p \in DOMAIN events, time \in Times, severity \in {kind.severity : kind \in Kinds} :
             E!Again(i, time, p, severity)
  <2>1. PICK i \in DOMAIN events, p \in DOMAIN events, time \in Times,
             severity \in {kind.severity : kind \in Kinds} : E!Again(i, time, p, severity)
    BY <1>2
  <2>2. QED
    BY <2>1, AgainStep
<1>3. CASE \E i \in DOMAIN events, to \in {"case", "ticket"} : E!Link(i, to)
  BY <1>3, LinkStep
<1>4. CASE \E asks \in Readers : E!Read(asks)
  BY <1>4, ReadStep
<1>5. CASE E!Page
  BY <1>5, PageStep
<1>6. CASE UNCHANGED E!vars
  <2>1. events' = events /\ reader' = reader /\ eventsEnv' = eventsEnv
    BY <1>6 DEF E!vars
  <2>2. QED
    BY <2>1 DEF EventsInv, E!TypeOK, DueAhead, NothingEscapes, E!NothingEscapes, Ahead,
              E!Newer, E!AskedFor
<1>7. QED
  BY <1>1, <1>2, <1>3, <1>4, <1>5, <1>6 DEF E!Next

(* The event centre's state keeps its shape, whatever is stored, linked and read. *)
THEOREM EventClustersTypes == E!EventClustersSpec => []E!TypeOK
<1>1. EventsInv => E!TypeOK
  BY DEF EventsInv
<1>2. QED
  BY <1>1, EventsInit, EventsStep, PTL DEF E!EventClustersSpec

(* A reader who follows has_more to the end of the list has been given every event
   that was there at the start and has not changed since, but for one that a page
   ended right beside of, between it and another event of its time: whatever came
   in between only pushes the events that are due further ahead of what was
   skipped, and a page that holds no event of a time ends before all of them. *)
THEOREM ReadersMissNothing == E!EventClustersSpec => []NothingEscapes
<1>1. EventsInv => NothingEscapes
  BY DEF EventsInv
<1>2. QED
  BY <1>1, EventsInit, EventsStep, PTL DEF E!EventClustersSpec

-----------------------------------------------------------------------------
(* The clusters of a longer list: no count, no severity and no score of theirs is less
   than it was, since every event is still there. *)

(* f finds each element of M another one in N. *)
Embeds(f, M, N) == (\A a \in M : f[a] \in N) /\ \A a, b \in M : f[a] = f[b] => a = b

LEMMA CountGrows ==
  ASSUME NEW M, NEW N, NEW f, IsFiniteSet(N), Embeds(f, M, N)
  PROVE  /\ IsFiniteSet(M) /\ Cardinality(M) \in Nat /\ Cardinality(N) \in Nat
         /\ Cardinality(M) <= Cardinality(N)
<1> DEFINE g == [a \in M |-> f[a]]
<1>1. g \in [M -> N] /\ \A a, b \in M : g[a] = g[b] => a = b
  BY DEF Embeds
<1>2. g \in Injection(M, N)
  BY <1>1 DEF Injection, IsInjective
<1> HIDE DEF g
<1>3. IsFiniteSet(M) /\ Cardinality(M) <= Cardinality(N)
  BY <1>2, FS_Injection
<1>4. QED
  BY <1>3, FS_CardinalityType

LEMMA FiniteImage ==
  ASSUME NEW h, IsFiniteSet(DOMAIN h), h = [x \in DOMAIN h |-> h[x]]
  PROVE  IsFiniteSet({h[x] : x \in DOMAIN h})
<1> DEFINE T == {h[x] : x \in DOMAIN h}
<1>1. h \in [DOMAIN h -> T] /\ \A t \in T : \E x \in DOMAIN h : h[x] = t
  OBVIOUS
<1>2. h \in Surjection(DOMAIN h, T)
  BY <1>1 DEF Surjection
<1> HIDE DEF T
<1>3. IsFiniteSet(T)
  BY <1>2, FS_Surjection
<1>4. QED
  BY <1>3 DEF T

LEMMA FiniteMembers ==
  ASSUME NEW s \in Seq(E!Event), NEW key
  PROVE  IsFiniteSet(DOMAIN s) /\ IsFiniteSet(E!Members(s, key)) /\ E!Members(s, key) \subseteq DOMAIN s
<1>1. DOMAIN s = 1 .. Len(s) /\ Len(s) \in Int
  OBVIOUS
<1>2. IsFiniteSet(DOMAIN s)
  <2>1. IsFiniteSet(1 .. Len(s))
    BY <1>1, FS_Interval
  <2>2. QED
    BY <1>1, <2>1
<1>3. E!Members(s, key) \in SUBSET DOMAIN s
  BY DEF E!Members
<1>4. QED
  BY <1>2, <1>3, FS_Subset

LEMMA HighestIs ==
  ASSUME NEW s \in Seq(E!Event), NEW key \in E!ClusterKeys(s)
  PROVE  /\ E!Highest(s, E!Members(s, key)) \in {s[i].kind.severity : i \in E!Members(s, key)}
         /\ \A i \in E!Members(s, key) : s[i].kind.severity <= E!Highest(s, E!Members(s, key))
         /\ E!Highest(s, E!Members(s, key)) \in Int
<1> DEFINE m == E!Members(s, key)
<1> DEFINE h == [i \in m |-> s[i].kind.severity]
<1> DEFINE S == {h[i] : i \in DOMAIN h}
<1>1. IsFiniteSet(m) /\ m \subseteq DOMAIN s /\ m # {}
  <2>1. m # {}
    BY DEF E!ClusterKeys, E!Members
  <2>2. QED
    BY <2>1, FiniteMembers
<1>2. \A i \in DOMAIN s : s[i].kind.severity \in Int
  <2>1. \A i \in DOMAIN s : s[i] \in E!Event
    OBVIOUS
  <2>2. QED
    BY <2>1, ServicesAssumption DEF E!EventClustersAssumption, E!Event, E!Kind, E!Severity
<1> HIDE DEF m
<1>3. DOMAIN h = m /\ h = [i \in DOMAIN h |-> h[i]] /\ S \in SUBSET Int /\ S # {}
  BY <1>1, <1>2
<1>4. IsFiniteSet(S)
  <2> HIDE DEF h
  <2>1. QED
    BY <1>1, <1>3, FiniteImage
<1>5. E!Max(S) \in S /\ \A y \in S : y <= E!Max(S)
  <2> HIDE DEF S
  <2>1. QED
    BY <1>3, <1>4, GreatestIsMax
<1>6. S = {s[i].kind.severity : i \in m}
  OBVIOUS
<1>7. E!Highest(s, m) = E!Max(S)
  BY <1>6 DEF E!Highest
<1>8. \A i \in m : s[i].kind.severity \in S
  BY <1>6
<1> HIDE DEF S
<1>9. QED
  BY <1>2, <1>3, <1>5, <1>6, <1>7, <1>8 DEF m

LEMMA ClusterShape ==
  ASSUME NEW s \in Seq(E!Event), NEW key \in E!ClusterKeys(s), NEW n, n = E!Cluster(s, E!Members(s, key))
  PROVE  /\ n.events \in Nat /\ n.cases \in Nat /\ n.tickets \in Nat
         /\ n.highest \in Int /\ n.sources \subseteq E!Categories
<1> DEFINE M == E!Members(s, key)
<1> DEFINE C == {i \in M : s[i].case}
<1> DEFINE G == {i \in M : s[i].ticket}
<1>1. /\ n.events = Cardinality(M) /\ n.cases = Cardinality(C) /\ n.tickets = Cardinality(G)
      /\ n.highest = E!Highest(s, M) /\ n.sources = {s[i].kind.category : i \in M}
  BY SameCardinality DEF E!Cluster
<1>2. IsFiniteSet(M) /\ M \subseteq DOMAIN s /\ C \in SUBSET M /\ G \in SUBSET M
  BY FiniteMembers
<1>3. n.sources \subseteq E!Categories
  <2>1. \A i \in DOMAIN s : s[i] \in E!Event
    OBVIOUS
  <2>2. \A i \in DOMAIN s : s[i].kind.category \in E!Categories
    BY <2>1, ServicesAssumption DEF E!EventClustersAssumption, E!Event, E!Kind
  <2> HIDE DEF M
  <2>3. QED
    BY <1>1, <1>2, <2>2
<1>4. E!Highest(s, M) \in Int
  BY HighestIs
<1> HIDE DEF M, C, G
<1>5. IsFiniteSet(C) /\ IsFiniteSet(G)
  BY <1>2, FS_Subset
<1>6. QED
  BY <1>1, <1>2, <1>3, <1>4, <1>5, FS_CardinalityType

LEMMA ClusterGrows ==
  ASSUME NEW s \in Seq(E!Event), NEW t \in Seq(E!Event), NEW f,
         \A j \in DOMAIN s : f[j] \in DOMAIN t /\ t[f[j]] = s[j],
         \A a, b \in DOMAIN s : f[a] = f[b] => a = b,
         NEW key \in E!ClusterKeys(s),
         NEW o, o = E!Cluster(s, E!Members(s, key)), NEW n, n = E!Cluster(t, E!Members(t, key))
  PROVE  /\ key \in E!ClusterKeys(t)
         /\ o.events \in Nat /\ n.events \in Nat /\ o.events <= n.events
         /\ o.cases \in Nat /\ n.cases \in Nat /\ o.cases <= n.cases
         /\ o.tickets \in Nat /\ n.tickets \in Nat /\ o.tickets <= n.tickets
         /\ o.highest \in Int /\ n.highest \in Int /\ o.highest <= n.highest
         /\ o.sources \subseteq n.sources /\ n.sources \subseteq E!Categories
<1> DEFINE M == E!Members(s, key)
<1> DEFINE N == E!Members(t, key)
<1>1. IsFiniteSet(M) /\ IsFiniteSet(N) /\ M \subseteq DOMAIN s /\ N \subseteq DOMAIN t
  BY FiniteMembers
<1>2. \A j \in M : f[j] \in N /\ t[f[j]] = s[j]
  BY DEF E!Members
<1>3. key \in E!ClusterKeys(t)
  <2>1. M # {}
    BY DEF E!ClusterKeys, E!Members
  <2>2. PICK j \in M : TRUE
    BY <2>1
  <2>3. f[j] \in N
    BY <1>2
  <2>4. QED
    BY <2>3 DEF E!ClusterKeys, E!Members
<1>4. \A a, b \in M : f[a] = f[b] => a = b
  BY <1>1
<1>5. /\ o.events = Cardinality(M) /\ n.events = Cardinality(N)
      /\ o.cases = Cardinality({i \in M : s[i].case}) /\ n.cases = Cardinality({i \in N : t[i].case})
      /\ o.tickets = Cardinality({i \in M : s[i].ticket}) /\ n.tickets = Cardinality({i \in N : t[i].ticket})
      /\ o.highest = E!Highest(s, M) /\ n.highest = E!Highest(t, N)
      /\ o.sources = {s[i].kind.category : i \in M} /\ n.sources = {t[i].kind.category : i \in N}
  BY SameCardinality DEF E!Cluster
<1>6. o.highest \in Int /\ n.highest \in Int /\ o.highest <= n.highest
  <2>1. PICK i \in M : E!Highest(s, M) = s[i].kind.severity
    BY HighestIs
  <2>2. f[i] \in N /\ t[f[i]].kind.severity = E!Highest(s, M)
    BY <1>2, <2>1
  <2>3. /\ E!Highest(s, M) \in Int /\ E!Highest(t, N) \in Int
        /\ t[f[i]].kind.severity <= E!Highest(t, N)
    BY <1>3, <2>2, HighestIs
  <2>4. QED
    BY <1>5, <2>2, <2>3
<1>7. o.sources \subseteq n.sources
  <2> HIDE DEF M, N
  <2>1. QED
    BY <1>2, <1>5
<1>8. n.sources \subseteq E!Categories
  BY <1>3, ClusterShape
<1> HIDE DEF M, N
<1>9. o.events \in Nat /\ n.events \in Nat /\ o.events <= n.events
  <2>1. IsFiniteSet(N) /\ Embeds(f, M, N)
    BY <1>1, <1>2, <1>4 DEF Embeds
  <2>2. QED
    BY <2>1, <1>5, CountGrows
<1>10. o.cases \in Nat /\ n.cases \in Nat /\ o.cases <= n.cases
  <2> DEFINE C == {i \in M : s[i].case}
  <2> DEFINE G == {i \in N : t[i].case}
  <2>1. IsFiniteSet(G) /\ Embeds(f, C, G)
    <3>1. G \in SUBSET N
      OBVIOUS
    <3>2. IsFiniteSet(G)
      <4> HIDE DEF G
      <4>1. QED
        BY <1>1, <3>1, FS_Subset
    <3>3. QED
      BY <1>2, <1>4, <3>2 DEF Embeds
  <2>2. o.cases = Cardinality(C) /\ n.cases = Cardinality(G)
    BY <1>5
  <2> HIDE DEF C, G
  <2>3. QED
    BY <2>1, <2>2, CountGrows
<1>11. o.tickets \in Nat /\ n.tickets \in Nat /\ o.tickets <= n.tickets
  <2> DEFINE C == {i \in M : s[i].ticket}
  <2> DEFINE G == {i \in N : t[i].ticket}
  <2>1. IsFiniteSet(G) /\ Embeds(f, C, G)
    <3>1. G \in SUBSET N
      OBVIOUS
    <3>2. IsFiniteSet(G)
      <4> HIDE DEF G
      <4>1. QED
        BY <1>1, <3>1, FS_Subset
    <3>3. QED
      BY <1>2, <1>4, <3>2 DEF Embeds
  <2>2. o.tickets = Cardinality(C) /\ n.tickets = Cardinality(G)
    BY <1>5
  <2> HIDE DEF C, G
  <2>3. QED
    BY <2>1, <2>2, CountGrows
<1>12. QED
  BY <1>3, <1>6, <1>7, <1>8, <1>9, <1>10, <1>11

LEMMA FewSources ==
  ASSUME NEW S, NEW T, S \subseteq T, T \subseteq E!Categories
  PROVE  Cardinality(S) \in Nat /\ Cardinality(T) \in Nat /\ Cardinality(S) <= Cardinality(T)
<1>1. IsFiniteSet(E!Categories)
  <2>1. IsFiniteSet({"log_signal"} \cup {"zabbix_alert"} \cup {"unknown"})
    BY FS_Singleton, FS_Union
  <2>2. E!Categories = {"log_signal"} \cup {"zabbix_alert"} \cup {"unknown"}
    BY DEF E!Categories
  <2>3. QED
    BY <2>1, <2>2
<1>2. T \in SUBSET E!Categories /\ S \in SUBSET T
  OBVIOUS
<1>3. IsFiniteSet(T)
  BY <1>1, <1>2, FS_Subset
<1>4. IsFiniteSet(S) /\ Cardinality(S) <= Cardinality(T)
  BY <1>2, <1>3, FS_Subset
<1>5. QED
  BY <1>3, <1>4, FS_CardinalityType

(* What a cluster of the newest events weighs, and what its candidate does. *)

LEMMA WeightGrows ==
  ASSUME NEW o, NEW n, NEW place, NEW failed,
         o.events \in Nat, n.events \in Nat, o.events <= n.events,
         o.cases \in Nat, n.cases \in Nat, o.cases <= n.cases,
         o.tickets \in Nat, n.tickets \in Nat, o.tickets <= n.tickets,
         o.highest \in Int, n.highest \in Int, o.highest <= n.highest,
         o.sources \subseteq n.sources, n.sources \subseteq E!Categories
  PROVE  /\ E!ClusterScore(o, E!Impact(place, failed)) \in Int
         /\ E!ClusterScore(n, E!Impact(place, failed)) \in Int
         /\ E!ClusterScore(o, E!Impact(place, failed)) <= E!ClusterScore(n, E!Impact(place, failed))
<1> DEFINE weight == E!ImpactWeight[E!Impact(place, failed)]
<1>1. weight \in Int
  <2>1. E!Impact(place, failed) \in {"topology_wide", "adjacent_devices", "site_scope", "device_scope"}
    BY DEF E!Impact
  <2>2. \A i \in {"topology_wide", "adjacent_devices", "site_scope", "device_scope"} : E!ImpactWeight[i] \in Int
    BY DEF E!ImpactWeight
  <2>3. QED
    BY <2>1, <2>2
<1>2. Cardinality(o.sources) \in Nat /\ Cardinality(n.sources) \in Nat
      /\ Cardinality(o.sources) <= Cardinality(n.sources)
  BY FewSources
<1>3. /\ E!AtMost(300, 35 * o.events) \in Int /\ E!AtMost(300, 35 * n.events) \in Int
      /\ E!AtMost(300, 35 * o.events) <= E!AtMost(300, 35 * n.events)
  BY DEF E!AtMost
<1>4. /\ E!AtMost(240, 60 * o.cases) \in Int /\ E!AtMost(240, 60 * n.cases) \in Int
      /\ E!AtMost(240, 60 * o.cases) <= E!AtMost(240, 60 * n.cases)
  BY DEF E!AtMost
<1>5. /\ E!AtMost(100, 25 * o.tickets) \in Int /\ E!AtMost(100, 25 * n.tickets) \in Int
      /\ E!AtMost(100, 25 * o.tickets) <= E!AtMost(100, 25 * n.tickets)
  BY DEF E!AtMost
<1> DEFINE Crossed(cluster) == IF Cardinality(cluster.sources) > 1 THEN 180 ELSE 60
<1>6. Crossed(o) \in Int /\ Crossed(n) \in Int /\ Crossed(o) <= Crossed(n)
  BY <1>2
<1>7. \A cluster :
        E!ClusterScore(cluster, E!Impact(place, failed)) =
          100 * cluster.highest + E!AtMost(300, 35 * cluster.events) + E!AtMost(240, 60 * cluster.cases)
          + E!AtMost(100, 25 * cluster.tickets) + weight + Crossed(cluster)
  BY SameCardinality DEF E!ClusterScore
<1> HIDE DEF weight, Crossed
<1>8. QED
  BY <1>1, <1>3, <1>4, <1>5, <1>6, <1>7

LEMMA ViewedIs ==
  ASSUME NEW s \in Seq(E!Event), Len(s) <= Window
  PROVE  /\ IsFiniteSet(DOMAIN E!Viewed(s)) /\ DOMAIN E!Viewed(s) \subseteq E!ClusterKeys(s)
         /\ \A key \in DOMAIN E!Viewed(s) : E!Viewed(s)[key] = E!Cluster(s, E!Members(s, key))
<1> DEFINE limit == E!Max({3 * Limit, 12})
<1>1. E!Viewed(s) = E!Clusters(s, limit)
  <2>1. E!AtMost(Window, Len(s)) = Len(s)
    BY ServicesAssumption DEF E!AtMost, E!EventClustersAssumption
  <2>2. SubSeq(s, 1, Len(s)) = s
    BY SubSeqFull
  <2>3. QED
    BY <2>1, <2>2 DEF E!Viewed
<1> DEFINE all == [key \in E!ClusterKeys(s) |-> E!Cluster(s, E!Members(s, key))]
<1> DEFINE shown == {key \in DOMAIN all :
                       E!Cardinality({other \in DOMAIN all : E!Before(all[other], all[key])}) < limit}
<1>2. E!Clusters(s, limit) = [key \in shown |-> all[key]]
  BY DEF E!Clusters, E!Restrict
<1>3. shown \in SUBSET E!ClusterKeys(s)
  OBVIOUS
<1>4. \A key \in shown : all[key] = E!Cluster(s, E!Members(s, key))
  BY <1>3
<1> HIDE DEF shown, all, limit
<1>5. IsFiniteSet(E!ClusterKeys(s))
  <2> DEFINE h == [i \in DOMAIN s |-> <<s[i].kind.place, s[i].kind.family>>]
  <2>1. DOMAIN h = DOMAIN s /\ h = [i \in DOMAIN h |-> h[i]] /\ E!ClusterKeys(s) = {h[i] : i \in DOMAIN h}
    BY DEF E!ClusterKeys
  <2>2. IsFiniteSet(DOMAIN s)
    BY FiniteMembers
  <2> HIDE DEF h
  <2>3. QED
    BY <2>1, <2>2, FiniteImage
<1>6. IsFiniteSet(shown)
  BY <1>3, <1>5, FS_Subset
<1>7. QED
  BY <1>1, <1>2, <1>3, <1>4, <1>6

LEMMA CandidateGrows ==
  ASSUME NEW s \in Seq(E!Event), NEW t \in Seq(E!Event), Len(s) <= Window, Len(t) <= Window, NEW f,
         \A j \in DOMAIN s : f[j] \in DOMAIN t /\ t[f[j]] = s[j],
         \A a, b \in DOMAIN s : f[a] = f[b] => a = b,
         NEW c, E!Merged(E!Viewed(s), c) # {}, E!Merged(E!Viewed(s), c) \subseteq E!Merged(E!Viewed(t), c),
         NEW failed
  PROVE  E!CandidateScore(E!Viewed(t), c, failed) >= E!CandidateScore(E!Viewed(s), c, failed)
<1> DEFINE old == E!Viewed(s)
<1> DEFINE new == E!Viewed(t)
<1> DEFINE mo == E!Merged(old, c)
<1> DEFINE mn == E!Merged(new, c)
<1>1. mo # {} /\ mo \subseteq mn /\ mo \subseteq DOMAIN old /\ mn \subseteq DOMAIN new
  BY DEF E!Merged
<1>2. IsFiniteSet(mn) /\ IsFiniteSet(mo) /\ Cardinality(mo) \in Nat /\ Cardinality(mn) \in Nat
      /\ Cardinality(mo) <= Cardinality(mn)
  <2>1. IsFiniteSet(DOMAIN new)
    BY ViewedIs
  <2> HIDE DEF mo, mn, new, old
  <2>2. mn \in SUBSET DOMAIN new /\ mo \in SUBSET mn
    BY <1>1
  <2>3. IsFiniteSet(mn)
    BY <2>1, <2>2, FS_Subset
  <2>4. IsFiniteSet(mo) /\ Cardinality(mo) <= Cardinality(mn)
    BY <2>2, <2>3, FS_Subset
  <2>5. QED
    BY <2>3, <2>4, FS_CardinalityType
<1>3. ASSUME NEW key \in mo
      PROVE  /\ E!Score(old, key, failed) \in Int /\ E!Score(new, key, failed) \in Int
             /\ E!Score(old, key, failed) <= E!Score(new, key, failed)
             /\ old[key].sources \subseteq new[key].sources
  <2>1. /\ key \in E!ClusterKeys(s) /\ old[key] = E!Cluster(s, E!Members(s, key))
        /\ new[key] = E!Cluster(t, E!Members(t, key))
    BY <1>1, <1>3, ViewedIs
  <2> HIDE DEF old, new, mo, mn
  <2>2. /\ old[key].events \in Nat /\ new[key].events \in Nat /\ old[key].events <= new[key].events
        /\ old[key].cases \in Nat /\ new[key].cases \in Nat /\ old[key].cases <= new[key].cases
        /\ old[key].tickets \in Nat /\ new[key].tickets \in Nat /\ old[key].tickets <= new[key].tickets
        /\ old[key].highest \in Int /\ new[key].highest \in Int /\ old[key].highest <= new[key].highest
        /\ old[key].sources \subseteq new[key].sources /\ new[key].sources \subseteq E!Categories
    <3> SUFFICES ASSUME NEW o, NEW n, o = E!Cluster(s, E!Members(s, key)), n = E!Cluster(t, E!Members(t, key))
                 PROVE  /\ o.events \in Nat /\ n.events \in Nat /\ o.events <= n.events
                        /\ o.cases \in Nat /\ n.cases \in Nat /\ o.cases <= n.cases
                        /\ o.tickets \in Nat /\ n.tickets \in Nat /\ o.tickets <= n.tickets
                        /\ o.highest \in Int /\ n.highest \in Int /\ o.highest <= n.highest
                        /\ o.sources \subseteq n.sources /\ n.sources \subseteq E!Categories
      BY <2>1
    <3>1. key \in E!ClusterKeys(s)
      BY <2>1
    <3>2. QED
      BY <3>1, ClusterGrows, SMTT(60)
  <2>3. QED
    BY <2>2, WeightGrows DEF E!Score
<1>4. ASSUME NEW key \in mn
      PROVE  E!Score(new, key, failed) \in Int /\ new[key].sources \subseteq E!Categories
  <2>1. /\ key \in E!ClusterKeys(t) /\ new[key] = E!Cluster(t, E!Members(t, key))
    BY <1>1, <1>4, ViewedIs
  <2> HIDE DEF old, new, mo, mn
  <2>3. /\ new[key].events \in Nat /\ new[key].cases \in Nat /\ new[key].tickets \in Nat
        /\ new[key].highest \in Int /\ new[key].sources \subseteq E!Categories
    <3> SUFFICES ASSUME NEW n, n = E!Cluster(t, E!Members(t, key))
                 PROVE  /\ n.events \in Nat /\ n.cases \in Nat /\ n.tickets \in Nat
                        /\ n.highest \in Int /\ n.sources \subseteq E!Categories
      BY <2>1
    <3>1. key \in E!ClusterKeys(t)
      BY <2>1
    <3>2. QED
      BY <3>1, ClusterShape
  <2>4. /\ new[key].events <= new[key].events /\ new[key].cases <= new[key].cases
        /\ new[key].tickets <= new[key].tickets /\ new[key].highest <= new[key].highest
    BY <2>3
  <2>5. QED
    BY <2>3, <2>4, WeightGrows DEF E!Score
<1> HIDE DEF old, new, mo, mn
<1>5. E!Best(old, mo, failed) \in Int /\ E!Best(new, mn, failed) \in Int
      /\ E!Best(old, mo, failed) <= E!Best(new, mn, failed)
  <2> DEFINE ho == [key \in mo |-> E!Score(old, key, failed)]
  <2> DEFINE hn == [key \in mn |-> E!Score(new, key, failed)]
  <2> DEFINE So == {ho[key] : key \in DOMAIN ho}
  <2> DEFINE Sn == {hn[key] : key \in DOMAIN hn}
  <2>1. E!Best(old, mo, failed) = E!Max(So) /\ E!Best(new, mn, failed) = E!Max(Sn)
    <3>1. So = {E!Score(old, key, failed) : key \in mo} /\ Sn = {E!Score(new, key, failed) : key \in mn}
      OBVIOUS
    <3>2. QED
      BY <3>1 DEF E!Best
  <2>2. /\ DOMAIN ho = mo /\ ho = [x \in DOMAIN ho |-> ho[x]] /\ So \in SUBSET Int /\ So # {}
        /\ DOMAIN hn = mn /\ hn = [x \in DOMAIN hn |-> hn[x]] /\ Sn \in SUBSET Int /\ Sn # {}
    BY <1>1, <1>3, <1>4
  <2>3. (\A x \in So : \E key \in mo : x = E!Score(old, key, failed)) /\ \A key \in mn : E!Score(new, key, failed) \in Sn
    OBVIOUS
  <2>4. IsFiniteSet(So) /\ IsFiniteSet(Sn)
    <3> HIDE DEF ho, hn
    <3>1. QED
      BY <1>2, <2>2, FiniteImage
  <2> HIDE DEF ho, hn, So, Sn
  <2>5. E!Max(So) \in So /\ E!Max(Sn) \in Sn /\ \A y \in Sn : y <= E!Max(Sn)
    BY <2>2, <2>4, GreatestIsMax
  <2>6. PICK key \in mo : E!Max(So) = E!Score(old, key, failed)
    BY <2>3, <2>5
  <2>7. E!Score(old, key, failed) <= E!Score(new, key, failed) /\ E!Score(new, key, failed) <= E!Max(Sn)
        /\ E!Score(old, key, failed) \in Int /\ E!Score(new, key, failed) \in Int /\ E!Max(Sn) \in Int
    BY <1>1, <1>3, <2>2, <2>3, <2>5
  <2>8. QED
    BY <2>1, <2>6, <2>7
<1> DEFINE Uo == UNION {old[key].sources : key \in mo}
<1> DEFINE Un == UNION {new[key].sources : key \in mn}
<1>6. Cardinality(Uo) \in Nat /\ Cardinality(Un) \in Nat /\ Cardinality(Uo) <= Cardinality(Un)
  <2>1. Uo \subseteq Un /\ Un \subseteq E!Categories
    BY <1>1, <1>3, <1>4
  <2> HIDE DEF Uo, Un
  <2>2. QED
    BY <2>1, FewSources
<1>7. /\ E!AtMost(200, 45 * Cardinality(mo)) \in Int /\ E!AtMost(200, 45 * Cardinality(mn)) \in Int
      /\ E!AtMost(200, 45 * Cardinality(mo)) <= E!AtMost(200, 45 * Cardinality(mn))
  BY <1>2 DEF E!AtMost
<1>8. /\ E!CandidateScore(old, c, failed) =
           E!Best(old, mo, failed) + E!AtMost(200, 45 * Cardinality(mo)) + (IF Cardinality(Uo) > 1 THEN 80 ELSE 0)
      /\ E!CandidateScore(new, c, failed) =
           E!Best(new, mn, failed) + E!AtMost(200, 45 * Cardinality(mn)) + (IF Cardinality(Un) > 1 THEN 80 ELSE 0)
  BY SameCardinality DEF E!CandidateScore, mo, mn
<1> HIDE DEF Uo, Un
<1>9. E!CandidateScore(new, c, failed) >= E!CandidateScore(old, c, failed)
  BY <1>5, <1>6, <1>7, <1>8
<1>10. QED
  BY <1>9 DEF old, new

(* Only an event that is stored for the first time counts as collected. *)
LEMMA OnlyCollect ==
  ASSUME EventsInv, E!Next, eventsEnv'["collect"] > eventsEnv["collect"]
  PROVE  \E kind \in Kinds, time \in Times, p \in 1 .. Len(events) + 1 : E!Collect(kind, time, p)
<1>1. eventsEnv \in [E!EnvKinds -> Nat]
  BY DEF EventsInv, E!TypeOK
<1>2. ASSUME NEW kind \in E!EnvKinds, kind # "collect", E!Happens(kind)
      PROVE  eventsEnv'["collect"] = eventsEnv["collect"]
  BY <1>1, <1>2 DEF E!Happens, E!EnvKinds
<1>3. eventsEnv'["collect"] # eventsEnv["collect"]
  BY <1>1 DEF E!EnvKinds
<1>4. ~ \E i, p \in DOMAIN events, time \in Times, severity \in {kind.severity : kind \in Kinds} :
          E!Again(i, time, p, severity)
  BY <1>2, <1>3 DEF E!Again, E!EnvKinds
<1>5. ~ \E i \in DOMAIN events, to \in {"case", "ticket"} : E!Link(i, to)
  BY <1>2, <1>3 DEF E!Link, E!EnvKinds
<1>6. ~ \E asks \in Readers : E!Read(asks)
  BY <1>2, <1>3 DEF E!Read, E!EnvKinds
<1>7. ~ E!Page
  BY <1>3 DEF E!Page
<1>8. QED
  BY <1>4, <1>5, <1>6, <1>7 DEF E!Next

LEMMA EvidenceStep ==
  ASSUME EventsInv, E!Next, eventsEnv'["collect"] > eventsEnv["collect"], Len(events') <= Window,
         NEW c \in {E!Candidate(key, E!Viewed(events)[key]) : key \in DOMAIN E!Viewed(events)},
         E!Merged(E!Viewed(events), c) \subseteq E!Merged(E!Viewed(events'), c),
         NEW failed
  PROVE  E!CandidateScore(E!Viewed(events'), c, failed) >= E!CandidateScore(E!Viewed(events), c, failed)
<1>1. PICK kind \in Kinds, time \in Times, p \in 1 .. Len(events) + 1 : E!Collect(kind, time, p)
  BY OnlyCollect
<1> DEFINE e == [kind |-> kind, time |-> time, case |-> FALSE, ticket |-> FALSE, mark |-> "new"]
<1> DEFINE f == [j \in DOMAIN events |-> IF j < p THEN j ELSE j + 1]
<1>2. events \in Seq(E!Event) /\ Len(events) \in Nat /\ DOMAIN events = 1 .. Len(events)
  BY EventsShape DEF EventsInv
<1>3. e \in E!Event
  BY ServicesAssumption DEF E!EventClustersAssumption, E!Event
<1>4. events' = E!InsertAt(events, p, e)
  BY <1>1 DEF E!Collect
<1> HIDE DEF e
<1>5. /\ events' \in Seq(E!Event) /\ Len(events') = Len(events) + 1
      /\ \A k \in 1 .. Len(events) + 1 :
           events'[k] = IF k < p THEN events[k] ELSE IF k = p THEN e ELSE events[k - 1]
  <2>1. /\ E!InsertAt(events, p, e) \in Seq(E!Event) /\ Len(E!InsertAt(events, p, e)) = Len(events) + 1
        /\ \A k \in 1 .. Len(events) + 1 :
             E!InsertAt(events, p, e)[k] = IF k < p THEN events[k] ELSE IF k = p THEN e ELSE events[k - 1]
    BY <1>2, <1>3, InsertedAt
  <2>2. QED
    BY <1>4, <2>1
<1>6. DOMAIN events' = 1 .. Len(events) + 1
  BY <1>2, <1>5
<1>7. \A j \in DOMAIN events : f[j] \in DOMAIN events' /\ events'[f[j]] = events[j]
  <2> SUFFICES ASSUME NEW j \in DOMAIN events PROVE f[j] \in DOMAIN events' /\ events'[f[j]] = events[j]
    OBVIOUS
  <2>1. CASE j < p
    BY <2>1, <1>2, <1>5, <1>6
  <2>2. CASE ~(j < p)
    <3>1. f[j] = j + 1 /\ j + 1 \in 1 .. Len(events) + 1 /\ ~(j + 1 < p) /\ j + 1 # p /\ j + 1 - 1 = j
      BY <2>2, <1>2
    <3>2. QED
      BY <3>1, <1>5, <1>6
  <2>3. QED
    BY <2>1, <2>2
<1>8. \A a, b \in DOMAIN events : f[a] = f[b] => a = b
  BY <1>2
<1>9. E!Merged(E!Viewed(events), c) # {}
  BY DEF E!Merged
<1>10. Len(events) <= Window
  BY <1>2, <1>5, ServicesAssumption DEF E!EventClustersAssumption
<1>11. PICK s, t : s = events /\ t = events'
  OBVIOUS
<1> HIDE DEF f
<1>12. E!CandidateScore(E!Viewed(t), c, failed) >= E!CandidateScore(E!Viewed(s), c, failed)
  <2>1. s \in Seq(E!Event) /\ t \in Seq(E!Event) /\ Len(s) <= Window /\ Len(t) <= Window
    BY <1>2, <1>5, <1>10, <1>11
  <2>2. \A j \in DOMAIN s : f[j] \in DOMAIN t /\ t[f[j]] = s[j]
    BY <1>7, <1>11
  <2>3. \A a, b \in DOMAIN s : f[a] = f[b] => a = b
    BY <1>8, <1>11
  <2>4. E!Merged(E!Viewed(s), c) # {} /\ E!Merged(E!Viewed(s), c) \subseteq E!Merged(E!Viewed(t), c)
    BY <1>9, <1>11
  <2>5. QED
    BY <2>1, <2>2, <2>3, <2>4, CandidateGrows
<1>13. QED
  BY <1>11, <1>12

(* More evidence never weakens a root cause: an event that comes in leaves every other
   where it can be counted, so no cluster of a candidate, and no candidate whose clusters
   it keeps, scores less than it did, whichever topologies cannot be asked for. *)
THEOREM MoreEvidenceNeverWeakens == E!EventClustersSpec => EvidenceNeverWeakens
<1>1. EventsInv /\ [E!Next]_(E!vars) =>
        [eventsEnv'["collect"] > eventsEnv["collect"] /\ Len(events') <= Window =>
           LET old == E!Viewed(events)
               new == E!Viewed(events')
           IN  \A c \in {E!Candidate(key, old[key]) : key \in DOMAIN old} :
                 E!Merged(old, c) \subseteq E!Merged(new, c) =>
                   \A failed \in SUBSET {p \in Places : p.device} :
                     E!CandidateScore(new, c, failed) >= E!CandidateScore(old, c, failed)]_(E!vars)
  BY EvidenceStep
<1>2. QED
  BY <1>1, EventsInit, EventsStep, PTL DEF E!EventClustersSpec, EvidenceNeverWeakens, E!EvidenceNeverWeakens
=============================================================================
