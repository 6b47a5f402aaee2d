-------------------------- MODULE LogIngestionProofs --------------------------
(* Proofs about LogIngestion, for every set of workers, scopes and documents,
   and every bound. *)
EXTENDS LogIngestion, SequenceTheorems, FiniteSetTheorems, TLAPS

-----------------------------------------------------------------------------
(* Least and greatest elements.                                            *)

(* A set of naturals has a least element: the intervals below its elements are
   finite, and strict inclusion of finite sets is well-founded. *)
LEMMA LeastOf ==
  ASSUME NEW S \in SUBSET Nat, S # {}
  PROVE  Min(S) \in S /\ \A x \in S : Min(S) <= x
<1> DEFINE below == {0 .. x : x \in S}
<1>1. below \subseteq FiniteSubsetsOf(Nat) /\ below # {}
  <2>1. ASSUME NEW x \in S
        PROVE  0 .. x \in FiniteSubsetsOf(Nat)
    <3>1. x \in Nat /\ 0 \in Int /\ x \in Int
      OBVIOUS
    <3>2. IsFiniteSet(0 .. x) /\ 0 .. x \in SUBSET Nat
      BY <3>1, FS_Interval
    <3> QED BY <3>2 DEF FiniteSubsetsOf
  <2> QED BY <2>1
<1>2. IsWellFoundedOn(StrictSubsetOrdering(Nat), FiniteSubsetsOf(Nat))
  BY FS_StrictSubsetOrderingWellFounded
<1> HIDE DEF below
<1>3. PICK least \in below : \A b \in below : ~ (<<b, least>> \in StrictSubsetOrdering(Nat))
  BY <1>1, <1>2, WFMin
<1> USE DEF below
<1>4. PICK m \in S : least = 0 .. m
  BY <1>3
<1>5. ASSUME NEW x \in S, x < m
      PROVE  FALSE
  <2>1. 0 .. x \subseteq 0 .. m /\ 0 .. x # 0 .. m /\ 0 .. m \subseteq Nat
    BY <1>5
  <2>2. <<0 .. x, 0 .. m>> \in StrictSubsetOrdering(Nat)
    BY <2>1 DEF StrictSubsetOrdering
  <2> QED BY <1>3, <1>4, <2>2
<1>6. \A x \in S : m <= x
  BY <1>5
<1> QED BY <1>6 DEF Min

(* A finite set of naturals has a greatest element, for the same reason. *)
LEMMA GreatestOf ==
  ASSUME NEW S \in SUBSET Nat, IsFiniteSet(S), S # {}
  PROVE  Max(S) \in S /\ \A x \in S : x <= Max(S)
<1> DEFINE Over(n) == {x \in S : x > n}
           over == {Over(n) : n \in S}
<1>1. over \subseteq FiniteSubsetsOf(S) /\ over # {}
  <2>1. ASSUME NEW n \in S
        PROVE  Over(n) \in FiniteSubsetsOf(S)
    <3>1. Over(n) \in SUBSET S
      OBVIOUS
    <3> HIDE DEF Over
    <3>2. IsFiniteSet(Over(n))
      BY <3>1, FS_Subset
    <3> QED BY <3>1, <3>2 DEF FiniteSubsetsOf
  <2> QED BY <2>1
<1>2. IsWellFoundedOn(StrictSubsetOrdering(S), FiniteSubsetsOf(S))
  BY FS_StrictSubsetOrderingWellFounded
<1> HIDE DEF over
<1>3. PICK least \in over : \A b \in over : ~ (<<b, least>> \in StrictSubsetOrdering(S))
  BY <1>1, <1>2, WFMin
<1> USE DEF over
<1>4. PICK m \in S : least = Over(m)
  BY <1>3
<1>5. ASSUME NEW x \in S, x > m
      PROVE  FALSE
  <2>1. Over(x) \subseteq Over(m) /\ Over(m) \subseteq S
    <3>1. ASSUME NEW y \in S, y > x
          PROVE  y > m
      <4>1. y \in Nat /\ x \in Nat /\ m \in Nat
        OBVIOUS
      <4> QED BY <1>5, <3>1, <4>1
    <3> QED BY <3>1
  <2>3. x \in Over(m) /\ x \notin Over(x)
    BY <1>5
  <2>2. <<Over(x), Over(m)>> \in StrictSubsetOrdering(S)
    BY <2>1, <2>3, Zenon DEF StrictSubsetOrdering
  <2> QED BY <1>3, <1>4, <2>2
<1>6. \A x \in S : m >= x
  BY <1>5
<1> QED BY <1>6 DEF Max

-----------------------------------------------------------------------------
(* Types.                                                                  *)

(* A worker that rests names the first scope even where there is none, so that
   TypeOK itself holds only where there is one. *)
WorkerRow == [at : {"idle", "reading", "paged", "emitting", "created", "triggering"},
              scope : Scopes \cup {ScopeOrder[1]}, base : Docs \cup {0}, page : SUBSET Docs,
              bucket : Buckets \cup {0}]

DocsTyped == visible \subseteq Docs /\ late \subseteq visible /\ ingested \subseteq visible
OrderTyped == order \in Seq(Scopes) /\ Len(order) = Len(ScopeOrder) /\ ToSet(order) = Scopes
BucketsTyped == buckets \in [Buckets -> Bucket] /\ cases \subseteq Buckets /\ graphs \subseteq cases
WorkersTyped ==
  /\ workers \in [Workers -> WorkerRow]
  /\ \A w \in Workers : workers[w].at \in {"reading", "paged"} => workers[w].scope \in Scopes

Typed ==
  /\ DocsTyped /\ OrderTyped /\ BucketsTyped /\ WorkersTyped
  /\ checkpoints \in [Scopes -> Checkpoint]
  /\ env \in [EnvKinds -> Nat]

(* A page is what the store had behind the base, without a gap but for the
   documents that came late. *)
PagesWhole ==
  \A w \in Workers : workers[w].at = "paged" =>
    /\ workers[w].page \subseteq {d \in visible : ScopeOf[d] = workers[w].scope /\ d > workers[w].base}
    /\ \A d \in visible, e \in workers[w].page :
         ScopeOf[d] = workers[w].scope /\ d > workers[w].base /\ d <= e =>
           d \in workers[w].page \cup late

(* The case is committed before the bucket says so. *)
CreatedHaveCases ==
  \A w \in Workers : workers[w].at = "created" => workers[w].bucket \in cases

IngestInv == Typed /\ PagesWhole /\ CreatedHaveCases /\ NoGap /\ BucketsTrue

(* The bucket the next emission is for. *)
LEMMA NextPending ==
  ASSUME Pending # {}
  PROVE  Min(Pending) \in Buckets
<1>1. Pending \subseteq Buckets /\ Pending \in SUBSET Nat
  BY IngestionAssumption DEF Pending
<1> HIDE DEF Pending
<1> QED BY <1>1, LeastOf

(* The last document of a page. *)
LEMMA LastOfPage ==
  ASSUME NEW page \in SUBSET Docs, page # {}
  PROVE  Max(page) \in page /\ \A d \in page : d <= Max(page)
<1>1. page \in SUBSET Nat /\ IsFiniteSet(page)
  BY IngestionAssumption, FS_Subset
<1> QED BY <1>1, GreatestOf

(* A scope that was served is the last one, and no scope is forgotten. *)
LEMMA ServedIsLast ==
  ASSUME OrderTyped, NEW s \in Scopes, order' = LastServed(s)
  PROVE  OrderTyped'
<1> DEFINE n == Len(order)
<1>1. n \in Nat /\ DOMAIN order = 1 .. n /\ \A i \in 1 .. n : order[i] \in Scopes
  BY LenProperties, ElementOfSeq DEF OrderTyped
<1>2. \E i \in DOMAIN order : order[i] = s
  BY DEF OrderTyped, ToSet
<1>3. PICK i \in 1 .. n : order[i] = s /\ order' = Append(RemoveAt(order, i), s)
  <2> DEFINE i == CHOOSE i \in DOMAIN order : order[i] = s
  <2>1. i \in 1 .. n /\ order[i] = s
    BY <1>1, <1>2
  <2>2. order' = Append(RemoveAt(order, i), s)
    BY DEF LastServed
  <2> QED BY <2>1, <2>2
<1> DEFINE front == SubSeq(order, 1, i - 1)
           back == SubSeq(order, i + 1, n)
<1>4. /\ front \in Seq(Scopes) /\ Len(front) = i - 1
      /\ \A j \in 1 .. i - 1 : front[j] = order[j]
  <2>1. 1 \in Int /\ i - 1 \in Int /\ \A j \in 1 .. i - 1 : order[j] \in Scopes
    BY <1>1
  <2> HIDE DEF front
  <2>2. /\ front \in Seq(Scopes)
        /\ Len(front) = IF 1 <= i - 1 THEN i - 1 - 1 + 1 ELSE 0
        /\ \A j \in 1 .. i - 1 - 1 + 1 : front[j] = order[1 + j - 1]
    BY <2>1, SubSeqProperties DEF front
  <2> QED BY <1>1, <2>2
<1>5. /\ back \in Seq(Scopes) /\ Len(back) = n - i
      /\ \A j \in 1 .. n - i : back[j] = order[i + j]
  <2>1. i + 1 \in Int /\ n \in Int /\ \A j \in i + 1 .. n : order[j] \in Scopes
    BY <1>1
  <2> HIDE DEF back
  <2>2. /\ back \in Seq(Scopes)
        /\ Len(back) = IF i + 1 <= n THEN n - (i + 1) + 1 ELSE 0
        /\ \A j \in 1 .. n - (i + 1) + 1 : back[j] = order[i + 1 + j - 1]
    BY <2>1, SubSeqProperties DEF back
  <2>3. i \in Int /\ n \in Int /\ i <= n
    BY <1>1
  <2>4. Len(back) = n - i
    BY <2>2, <2>3
  <2>5. ASSUME NEW j \in 1 .. n - i
        PROVE  back[j] = order[i + j]
    <3>1. j \in 1 .. n - (i + 1) + 1 /\ i + 1 + j - 1 = i + j
      BY <2>3
    <3> QED BY <2>2, <3>1
  <2> QED BY <2>2, <2>4, <2>5
<1>6. RemoveAt(order, i) = front \o back
  BY DEF RemoveAt
<1> HIDE DEF front, back
<1> DEFINE rest == front \o back
<1>7. /\ rest \in Seq(Scopes) /\ Len(rest) = n - 1
      /\ \A j \in 1 .. n - 1 : rest[j] = IF j <= i - 1 THEN front[j] ELSE back[j - (i - 1)]
  <2>1. /\ rest \in Seq(Scopes) /\ Len(rest) = Len(front) + Len(back)
        /\ \A j \in 1 .. Len(front) + Len(back) :
             rest[j] = IF j <= Len(front) THEN front[j] ELSE back[j - Len(front)]
    BY <1>4, <1>5, ConcatProperties
  <2> HIDE DEF rest
  <2> QED BY <1>1, <1>4, <1>5, <2>1
<1> HIDE DEF rest
<1>8. /\ order' \in Seq(Scopes) /\ Len(order') = n
      /\ \A j \in 1 .. n - 1 : order'[j] = rest[j]
      /\ order'[n] = s
  <2>1. order' = Append(rest, s)
    BY <1>3, <1>6 DEF rest
  <2>2. /\ Append(rest, s) \in Seq(Scopes) /\ Len(Append(rest, s)) = Len(rest) + 1
        /\ \A j \in 1 .. Len(rest) : Append(rest, s)[j] = rest[j]
        /\ Append(rest, s)[Len(rest) + 1] = s
    BY <1>7, AppendProperties
  <2> QED BY <1>1, <1>7, <2>1, <2>2
<1>9. DOMAIN order' = 1 .. n /\ \A j \in 1 .. n : order'[j] \in Scopes
  BY <1>8, LenProperties, ElementOfSeq
<1>10. ASSUME NEW t \in Scopes
       PROVE  \E j \in 1 .. n : order'[j] = t
  <2>1. PICK k \in 1 .. n : order[k] = t
    BY <1>1 DEF OrderTyped, ToSet
  <2>2. CASE k = i
    BY <1>1, <1>3, <1>8, <2>1, <2>2
  <2>3. CASE k < i
    <3>1. k \in 1 .. n - 1 /\ k \in 1 .. i - 1 /\ k <= i - 1
      BY <1>1, <2>3
    <3>2. order'[k] = order[k]
      BY <1>4, <1>7, <1>8, <3>1
    <3> QED BY <2>1, <3>2
  <2>4. CASE k > i
    <3>1. /\ k - 1 \in 1 .. n - 1 /\ ~(k - 1 <= i - 1)
          /\ k - i \in 1 .. n - i /\ k - 1 - (i - 1) = k - i /\ i + (k - i) = k
      BY <1>1, <2>4
    <3>2. order'[k - 1] = order[k]
      BY <1>5, <1>7, <1>8, <3>1
    <3>3. k - 1 \in 1 .. n
      BY <1>1, <2>4
    <3> QED BY <2>1, <3>2, <3>3
  <2> QED BY <1>1, <2>2, <2>3, <2>4
<1>11. ToSet(order') = Scopes
  BY <1>9, <1>10 DEF ToSet
<1> QED BY <1>8, <1>11 DEF OrderTyped

(* Freeing a lease keeps the checkpoints what they are. *)
LEMMA ReleasedTyped ==
  ASSUME checkpoints \in [Scopes -> Checkpoint], NEW s \in Scopes, NEW cursor \in Docs \cup {0}
  PROVE  Released(s, cursor) \in [Scopes -> Checkpoint]
<1>1. [cursor |-> cursor, lease |-> "none", owner |-> Nobody] \in Checkpoint
  BY DEF Checkpoint
<1> QED BY <1>1 DEF Released

(* What a worker's step writes: its own row, whose fields keep their types. *)
LEMMA WorkerWritten ==
  ASSUME WorkersTyped, NEW w \in Workers, NEW row \in WorkerRow,
         row.at \in {"reading", "paged"} => row.scope \in Scopes,
         workers' = [workers EXCEPT ![w] = row]
  PROVE  /\ WorkersTyped'
         /\ workers'[w] = row
         /\ \A x \in Workers : x # w => workers'[x] = workers[x]
  BY DEF WorkersTyped

LEMMA RestingTyped == Resting \in WorkerRow /\ Resting.at = "idle"
  BY DEF Resting, WorkerRow

LEMMA WorkerRests ==
  ASSUME WorkersTyped, NEW w \in Workers, Rests(w)
  PROVE  /\ WorkersTyped' /\ workers'[w].at = "idle"
         /\ \A x \in Workers : x # w => workers'[x] = workers[x]
<1>1. workers' = [workers EXCEPT ![w] = Resting]
  BY DEF Rests
<1> QED BY <1>1, RestingTyped, WorkerWritten

LEMMA WorkerGoes ==
  ASSUME WorkersTyped, NEW w \in Workers, NEW at \in {"emitting", "triggering"}, Goes(w, at)
  PROVE  /\ WorkersTyped' /\ workers'[w].at = at
         /\ \A x \in Workers : x # w => workers'[x] = workers[x]
<1> DEFINE row == [workers[w] EXCEPT !.at = at]
<1>1. row \in WorkerRow /\ row.at = at
  BY DEF WorkersTyped, WorkerRow
<1>2. workers' = [workers EXCEPT ![w] = row]
  BY DEF Goes
<1> HIDE DEF row
<1> QED BY <1>1, <1>2, WorkerWritten

(* What a worker claims, reads and creates. *)
LEMMA WorkerClaims ==
  ASSUME Typed, NEW w \in Workers, ClaimScope(w)
  PROVE  /\ WorkersTyped' /\ workers'[w].at = "reading"
         /\ \A x \in Workers : x # w => workers'[x] = workers[x]
         /\ checkpoints' \in [Scopes -> Checkpoint]
         /\ \A s \in Scopes : checkpoints'[s].cursor = checkpoints[s].cursor
<1>1. PICK i \in DOMAIN order :
        /\ checkpoints' = [checkpoints EXCEPT ![order[i]].lease = "live", ![order[i]].owner = w]
        /\ workers' = [workers EXCEPT ![w].at = "reading", ![w].scope = order[i],
                                      ![w].base = checkpoints[order[i]].cursor]
  BY DEF ClaimScope
<1> DEFINE s == order[i]
           row == [workers[w] EXCEPT !.at = "reading", !.scope = s, !.base = checkpoints[s].cursor]
           check == [checkpoints[s] EXCEPT !.lease = "live", !.owner = w]
<1>2. s \in Scopes
  BY LenProperties, ElementOfSeq DEF Typed, OrderTyped
<1>3. row \in WorkerRow /\ row.at = "reading" /\ row.scope = s
  BY <1>2, ZenonT(30) DEF Typed, WorkersTyped, WorkerRow, Checkpoint
<1>4. check \in Checkpoint /\ check.cursor = checkpoints[s].cursor
  BY <1>2 DEF Typed, Checkpoint
<1>5. workers' = [workers EXCEPT ![w] = row]
  BY <1>1 DEF Typed, WorkersTyped
<1>6. checkpoints' = [checkpoints EXCEPT ![s] = check]
  BY <1>1, <1>2 DEF Typed
<1> HIDE DEF row, check, s
<1>7. checkpoints' \in [Scopes -> Checkpoint]
  BY <1>2, <1>4, <1>6 DEF Typed
<1>8. \A t \in Scopes : checkpoints'[t].cursor = checkpoints[t].cursor
  BY <1>2, <1>4, <1>6 DEF Typed
<1>9. WorkersTyped' /\ workers'[w] = row /\ \A x \in Workers : x # w => workers'[x] = workers[x]
  BY <1>2, <1>3, <1>5, WorkerWritten DEF Typed
<1> QED BY <1>3, <1>7, <1>8, <1>9

LEMMA WorkerReads ==
  ASSUME Typed, NEW w \in Workers, ReadPage(w)
  PROVE  /\ WorkersTyped' /\ workers[w].scope \in Scopes
         /\ workers'[w] = [workers[w] EXCEPT !.at = "paged",
                                             !.page = PageAfter(workers[w].scope, workers[w].base)]
         /\ \A x \in Workers : x # w => workers'[x] = workers[x]
<1> DEFINE row == [workers[w] EXCEPT !.at = "paged",
                                     !.page = PageAfter(workers[w].scope, workers[w].base)]
<1>1. workers[w] \in WorkerRow /\ workers[w].scope \in Scopes
  BY DEF Typed, WorkersTyped, ReadPage
<1>2. PageAfter(workers[w].scope, workers[w].base) \in SUBSET Docs
  BY DEF PageAfter, Typed, DocsTyped
<1>3. row \in WorkerRow /\ row.scope = workers[w].scope
  BY <1>1, <1>2 DEF WorkerRow
<1>4. workers' = [workers EXCEPT ![w] = row]
  BY DEF ReadPage, Typed, WorkersTyped
<1> HIDE DEF row
<1>5. WorkersTyped' /\ workers'[w] = row /\ \A x \in Workers : x # w => workers'[x] = workers[x]
  BY <1>1, <1>3, <1>4, WorkerWritten DEF Typed
<1> QED BY <1>1, <1>5 DEF row

LEMMA WorkerCreates ==
  ASSUME Typed, NEW w \in Workers, EmitCase(w)
  PROVE  /\ WorkersTyped' /\ workers'[w].at = "created" /\ workers'[w].bucket = Min(Pending)
         /\ \A x \in Workers : x # w => workers'[x] = workers[x]
<1> DEFINE row == [workers[w] EXCEPT !.at = "created", !.bucket = Min(Pending)]
<1>1. Min(Pending) \in Buckets
  BY NextPending DEF EmitCase
<1>2. workers[w] \in WorkerRow
  BY DEF Typed, WorkersTyped
<1>3. row \in WorkerRow /\ row.at = "created" /\ row.bucket = Min(Pending)
  BY <1>1, <1>2 DEF WorkerRow
<1>4. workers' = [workers EXCEPT ![w] = row]
  BY DEF EmitCase, Typed, WorkersTyped
<1> HIDE DEF row
<1> QED BY <1>3, <1>4, WorkerWritten DEF Typed

(* Counting documents keeps the buckets what they are, and adds to the count
   the fresh documents of the bucket. *)
LEMMA BucketCounted ==
  ASSUME BucketsTyped, NEW fresh \in SUBSET Docs, NEW b \in Buckets
  PROVE  /\ Counted(b, fresh) \in Bucket
         /\ Counted(b, fresh).emitted = buckets[b].emitted
         /\ Counted(b, fresh).count = buckets[b].count + Cardinality({d \in fresh : BucketOf[d] = b})
<1> DEFINE mine == {d \in fresh : BucketOf[d] = b}
<1>1. mine \in SUBSET Docs /\ IsFiniteSet(mine) /\ Cardinality(mine) \in Nat
  BY IngestionAssumption, FS_Subset, FS_CardinalityType
<1>2. buckets[b] \in Bucket
  BY DEF BucketsTyped
<1>3. CASE mine = {}
  <2>1. Cardinality(mine) = 0
    BY <1>3, FS_EmptySet
  <2>2. Counted(b, fresh) = buckets[b]
    BY <1>3 DEF Counted
  <2> HIDE DEF mine
  <2>3. buckets[b].count + Cardinality(mine) = buckets[b].count
    BY <1>2, <2>1 DEF Bucket
  <2> QED BY <1>2, <2>2, <2>3 DEF mine
<1>4. CASE mine # {}
  <2>1. Min(mine) \in Docs
    <3>1. mine \in SUBSET Nat
      BY <1>1, IngestionAssumption
    <3> HIDE DEF mine
    <3> QED BY <1>1, <1>4, <3>1, LeastOf
  <2>2. SeverityOf[Min(mine)] \in Severities
    BY <2>1, IngestionAssumption
  <2> DEFINE severity == IF buckets[b].severity = "none" THEN SeverityOf[Min(mine)]
                                                         ELSE buckets[b].severity
             count == buckets[b].count + Cardinality(mine)
  <2>3. Counted(b, fresh) = [buckets[b] EXCEPT !.count = count, !.severity = severity]
    BY <1>2, <1>4 DEF Counted, Bucket
  <2>4. severity \in Severities \cup {"none"} /\ count \in Nat
    BY <1>1, <1>2, <2>2 DEF Bucket
  <2> HIDE DEF severity, count
  <2>5. /\ Counted(b, fresh) \in Bucket
        /\ Counted(b, fresh).emitted = buckets[b].emitted
        /\ Counted(b, fresh).count = count
    BY <1>2, <2>3, <2>4 DEF Bucket
  <2> QED BY <2>5 DEF count
<1> QED BY <1>3, <1>4

-----------------------------------------------------------------------------
(* Every step keeps the invariant.                                         *)

(* A step that moves no cursor, indexes, ingests, counts and creates nothing,
   and leaves no worker with a page or a case it did not have. *)
LEMMA QuietStep ==
  ASSUME IngestInv, Typed',
         UNCHANGED <<visible, late, ingested, buckets, cases>>,
         \A s \in Scopes : checkpoints'[s].cursor = checkpoints[s].cursor,
         \A x \in Workers : workers'[x] = workers[x] \/ workers'[x].at \notin {"paged", "created"}
  PROVE  IngestInv'
<1>1. PagesWhole'
  BY DEF IngestInv, PagesWhole
<1>2. CreatedHaveCases'
  BY DEF IngestInv, CreatedHaveCases
<1>3. NoGap'
  BY IngestionAssumption DEF IngestInv, NoGap, Typed, DocsTyped
<1>4. BucketsTrue'
  BY DEF IngestInv, BucketsTrue
<1> QED BY <1>1, <1>2, <1>3, <1>4 DEF IngestInv

LEMMA FreesQuietly ==
  ASSUME checkpoints \in [Scopes -> Checkpoint], NEW s \in Scopes,
         checkpoints' = Released(s, checkpoints[s].cursor)
  PROVE  /\ checkpoints' \in [Scopes -> Checkpoint]
         /\ \A t \in Scopes : checkpoints'[t].cursor = checkpoints[t].cursor
<1>1. checkpoints[s].cursor \in Docs \cup {0}
  BY DEF Checkpoint
<1>2. checkpoints' \in [Scopes -> Checkpoint]
  BY <1>1, ReleasedTyped
<1> QED BY <1>2 DEF Released

LEMMA QuietWorker ==
  ASSUME IngestInv, NEW w \in Workers,
         \/ ClaimScope(w) \/ ClaimNothing(w) \/ ReadFails(w) \/ IngestRefused(w) \/ IngestStale(w)
         \/ EmitNothing(w) \/ Trigger(w) \/ Crash(w)
  PROVE  IngestInv'
<1>1. Typed
  BY DEF IngestInv
<1>2. CASE ClaimScope(w)
  <2>1. Typed'
    BY <1>1, <1>2, WorkerClaims DEF Typed, ClaimScope, DocsTyped, OrderTyped, BucketsTyped
  <2> QED BY <1>1, <1>2, <2>1, WorkerClaims, QuietStep DEF ClaimScope
<1>3. CASE ClaimNothing(w)
  <2>1. /\ WorkersTyped' /\ workers'[w].at = "emitting"
        /\ \A x \in Workers : x # w => workers'[x] = workers[x]
    BY <1>1, <1>3, WorkerGoes DEF ClaimNothing, Typed
  <2>2. Typed'
    BY <1>1, <1>3, <2>1 DEF Typed, ClaimNothing, DocsTyped, OrderTyped, BucketsTyped
  <2> QED BY <1>3, <2>1, <2>2, QuietStep DEF ClaimNothing
<1>4. CASE ReadFails(w) \/ IngestStale(w)
  <2>1. workers[w].scope \in Scopes
    BY <1>1, <1>4 DEF ReadFails, IngestStale, Typed, WorkersTyped
  <2>2. /\ checkpoints' \in [Scopes -> Checkpoint]
        /\ \A t \in Scopes : checkpoints'[t].cursor = checkpoints[t].cursor
    BY <1>1, <1>4, <2>1, FreesQuietly DEF ReadFails, IngestStale, Typed
  <2>3. /\ WorkersTyped' /\ workers'[w].at = "idle"
        /\ \A x \in Workers : x # w => workers'[x] = workers[x]
    BY <1>1, <1>4, WorkerRests DEF ReadFails, IngestStale, Typed
  <2>4. env' \in [EnvKinds -> Nat]
    BY <1>1, <1>4 DEF ReadFails, IngestStale, Happens, Typed, EnvKinds
  <2>5. Typed'
    BY <1>1, <1>4, <2>2, <2>3, <2>4
       DEF Typed, ReadFails, IngestStale, DocsTyped, OrderTyped, BucketsTyped
  <2> QED BY <1>4, <2>2, <2>3, <2>5, QuietStep DEF ReadFails, IngestStale
<1>5. CASE IngestRefused(w) \/ EmitNothing(w)
  <2>1. /\ WorkersTyped' /\ workers'[w].at = "idle"
        /\ \A x \in Workers : x # w => workers'[x] = workers[x]
    BY <1>1, <1>5, WorkerRests DEF IngestRefused, EmitNothing, Typed
  <2>2. Typed'
    BY <1>1, <1>5, <2>1 DEF Typed, IngestRefused, EmitNothing, DocsTyped, OrderTyped, BucketsTyped
  <2> QED BY <1>5, <2>1, <2>2, QuietStep DEF IngestRefused, EmitNothing
<1>6. CASE Trigger(w)
  <2>1. /\ WorkersTyped' /\ workers'[w].at = "idle"
        /\ \A x \in Workers : x # w => workers'[x] = workers[x]
    BY <1>1, <1>6, WorkerRests DEF Trigger, Typed
  <2>2. graphs' = graphs
    BY <1>6 DEF Trigger, CaseColumns
  <2>3. Typed'
    BY <1>1, <1>6, <2>1, <2>2 DEF Typed, Trigger, DocsTyped, OrderTyped, BucketsTyped
  <2> QED BY <1>6, <2>1, <2>3, QuietStep DEF Trigger
<1>7. CASE Crash(w)
  <2>1. /\ WorkersTyped' /\ workers'[w].at = "idle"
        /\ \A x \in Workers : x # w => workers'[x] = workers[x]
    BY <1>1, <1>7, WorkerRests DEF Crash, Typed
  <2>2. ASSUME NEW s \in Scopes
        PROVE  checkpoints'[s] \in Checkpoint /\ checkpoints'[s].cursor = checkpoints[s].cursor
    BY <1>1, <1>7 DEF Crash, Typed, Checkpoint
  <2>3. checkpoints' \in [Scopes -> Checkpoint]
    BY <1>7, <2>2 DEF Crash
  <2>4. env' \in [EnvKinds -> Nat]
    BY <1>1, <1>7 DEF Crash, Happens, Typed, EnvKinds
  <2>5. Typed'
    BY <1>1, <1>7, <2>1, <2>3, <2>4 DEF Typed, Crash, DocsTyped, OrderTyped, BucketsTyped
  <2> QED BY <1>7, <2>1, <2>2, <2>5, QuietStep DEF Crash
<1> QED BY <1>2, <1>3, <1>4, <1>5, <1>6, <1>7

LEMMA LeaseExpiresKeeps ==
  ASSUME IngestInv, NEW s \in Scopes, LeaseExpires(s)
  PROVE  IngestInv'
<1>1. ASSUME NEW t \in Scopes
      PROVE  checkpoints'[t] \in Checkpoint /\ checkpoints'[t].cursor = checkpoints[t].cursor
  BY DEF LeaseExpires, IngestInv, Typed, Checkpoint
<1>2. checkpoints' \in [Scopes -> Checkpoint]
  BY <1>1 DEF LeaseExpires, IngestInv, Typed
<1>3. env' \in [EnvKinds -> Nat]
  BY DEF LeaseExpires, Happens, IngestInv, Typed, EnvKinds
<1>4. Typed'
  BY <1>2, <1>3 DEF LeaseExpires, IngestInv, Typed, DocsTyped, OrderTyped, BucketsTyped, WorkersTyped
<1> QED BY <1>1, <1>4, QuietStep DEF LeaseExpires

(* The first documents behind a cursor: none of them is left out before the
   last of them. *)
LEMMA PageIsFirst ==
  ASSUME DocsTyped, NEW s \in Scopes, NEW cursor \in Docs \cup {0}
  PROVE  LET page == PageAfter(s, cursor) IN
         /\ page \subseteq {d \in visible : ScopeOf[d] = s /\ d > cursor}
         /\ \A d \in visible, e \in page : ScopeOf[d] = s /\ d > cursor /\ d <= e => d \in page
<1> DEFINE behind == {d \in visible : ScopeOf[d] = s /\ d > cursor}
           Before(d) == {e \in behind : e < d}
           page == {d \in behind : Cardinality(Before(d)) < PageSize}
<1>1. PageAfter(s, cursor) = page
  BY DEF PageAfter
<1>2. behind \in SUBSET Docs /\ \A d \in Docs : d \in Nat
  BY IngestionAssumption DEF DocsTyped
<1> HIDE DEF behind
<1>3. ASSUME NEW d \in behind, NEW e \in page, d <= e
      PROVE  d \in page
  <2>1. d \in Nat /\ e \in Nat /\ e \in behind
    BY <1>2
  <2>2. Before(d) \subseteq Before(e)
    <3>1. ASSUME NEW x \in behind, x < d
          PROVE  x < e
      <4>1. x \in Nat
        BY <1>2
      <4> QED BY <1>3, <2>1, <3>1, <4>1
    <3> QED BY <3>1
  <2>3. Before(e) \in SUBSET Docs
    BY <1>2
  <2> HIDE DEF Before
  <2>4. IsFiniteSet(Before(e)) /\ Before(d) \in SUBSET Before(e)
    BY <2>2, <2>3, IngestionAssumption, FS_Subset
  <2>5. /\ Cardinality(Before(d)) <= Cardinality(Before(e))
        /\ Cardinality(Before(d)) \in Nat /\ Cardinality(Before(e)) \in Nat
    BY <2>4, FS_Subset, FS_CardinalityType
  <2>6. Cardinality(Before(e)) < PageSize
    OBVIOUS
  <2>7. Cardinality(Before(d)) < PageSize
    BY <2>5, <2>6, IngestionAssumption
  <2> QED BY <2>7
<1>4. page \subseteq behind
  OBVIOUS
<1> HIDE DEF page
<1> QED BY <1>1, <1>3, <1>4 DEF behind

LEMMA ReadPageKeeps ==
  ASSUME IngestInv, NEW w \in Workers, ReadPage(w)
  PROVE  IngestInv'
<1> DEFINE s == workers[w].scope
           base == workers[w].base
           page == PageAfter(s, base)
<1>1. Typed /\ s \in Scopes /\ base \in Docs \cup {0} /\ workers[w] \in WorkerRow
  BY DEF IngestInv, Typed, WorkersTyped, WorkerRow, ReadPage
<1>2. /\ WorkersTyped'
      /\ workers'[w] = [workers[w] EXCEPT !.at = "paged", !.page = page]
      /\ \A x \in Workers : x # w => workers'[x] = workers[x]
  BY <1>1, WorkerReads
<1>3. /\ page \subseteq {d \in visible : ScopeOf[d] = s /\ d > base}
      /\ \A d \in visible, e \in page : ScopeOf[d] = s /\ d > base /\ d <= e => d \in page
  BY <1>1, PageIsFirst DEF Typed
<1> HIDE DEF page
<1>4. workers'[w].at = "paged" /\ workers'[w].scope = s /\ workers'[w].base = base
      /\ workers'[w].page = page
  BY <1>1, <1>2 DEF WorkerRow
<1>5. UNCHANGED <<visible, late, order, checkpoints, ingested, buckets, cases, graphs, env>>
  BY DEF ReadPage
<1> HIDE DEF s, base
<1>6. PagesWhole'
  <2>1. ASSUME NEW x \in Workers, workers'[x].at = "paged"
        PROVE  /\ workers'[x].page \subseteq
                    {d \in visible : ScopeOf[d] = workers'[x].scope /\ d > workers'[x].base}
               /\ \A d \in visible, e \in workers'[x].page :
                    ScopeOf[d] = workers'[x].scope /\ d > workers'[x].base /\ d <= e =>
                      d \in workers'[x].page \cup late
    <3>1. CASE x = w
      BY <1>3, <1>4, <3>1
    <3>2. CASE x # w
      BY <1>2, <2>1, <3>2 DEF IngestInv, PagesWhole
    <3> QED BY <3>1, <3>2
  <2> QED BY <1>5, <2>1 DEF PagesWhole
<1>7. CreatedHaveCases'
  BY <1>2, <1>4, <1>5 DEF IngestInv, CreatedHaveCases
<1>8. Typed'
  BY <1>1, <1>2, <1>5 DEF Typed, DocsTyped, OrderTyped, BucketsTyped
<1>9. NoGap' /\ BucketsTrue'
  BY <1>5 DEF IngestInv, NoGap, BucketsTrue
<1> QED BY <1>6, <1>7, <1>8, <1>9 DEF IngestInv

(* The transaction that ingests a page: it moves the cursor to the end of a
   page that starts at it, and counts what was not ingested before. *)
LEMMA IngestMoves ==
  ASSUME IngestInv, NEW w \in Workers, Ingest(w)
  PROVE  LET s == workers[w].scope
             page == workers[w].page IN
         /\ s \in Scopes /\ page \in SUBSET Docs
         /\ checkpoints' \in [Scopes -> Checkpoint]
         /\ \A t \in Scopes \ {s} : checkpoints'[t].cursor = checkpoints[t].cursor
         /\ checkpoints[s].cursor <= checkpoints'[s].cursor
         /\ \A d \in visible : ScopeOf[d] = s /\ d <= checkpoints'[s].cursor =>
              d <= checkpoints[s].cursor \/ d \in page \cup late
<1> DEFINE s == workers[w].scope
           page == workers[w].page
           cursor == checkpoints[s].cursor
           next == IF page = {} THEN cursor ELSE Max(page)
<1>1. /\ Typed /\ s \in Scopes /\ page \in SUBSET Docs /\ cursor \in Docs \cup {0}
      /\ workers[w].base = cursor
  BY DEF IngestInv, Typed, WorkersTyped, WorkerRow, Checkpoint, Ingest, AtBase
<1>2. \A d \in Docs : d \in Nat
  BY IngestionAssumption
<1>3. /\ page \subseteq {d \in visible : ScopeOf[d] = s /\ d > cursor}
      /\ \A d \in visible, e \in page : ScopeOf[d] = s /\ d > cursor /\ d <= e => d \in page \cup late
  BY <1>1 DEF IngestInv, PagesWhole, Ingest
<1>4. checkpoints' = Released(s, next)
  BY DEF Ingest
<1> HIDE DEF s, page, cursor
<1>5. /\ next \in Docs \cup {0} /\ cursor <= next
      /\ \A d \in visible : ScopeOf[d] = s /\ d <= next => d <= cursor \/ d \in page \cup late
  <2>1. CASE page = {}
    BY <1>1, <1>2, <2>1
  <2>2. CASE page # {}
    <3>1. Max(page) \in page
      BY <1>1, <2>2, LastOfPage
    <3>2. next = Max(page) /\ next \in Docs /\ cursor < next
      BY <1>1, <1>2, <1>3, <2>2, <3>1
    <3>3. ASSUME NEW d \in visible, ScopeOf[d] = s, d <= next, ~(d <= cursor)
          PROVE  d \in page \cup late
      <4>1. d \in Docs
        BY <1>1 DEF Typed, DocsTyped
      <4>2. d > cursor
        BY <1>1, <1>2, <3>3, <4>1
      <4> QED BY <1>3, <3>1, <3>2, <3>3, <4>2
    <3> QED BY <1>1, <1>2, <3>2, <3>3
  <2> QED BY <2>1, <2>2
<1> HIDE DEF next
<1>6. checkpoints' \in [Scopes -> Checkpoint]
  BY <1>1, <1>4, <1>5, ReleasedTyped DEF Typed
<1>7. /\ checkpoints'[s].cursor = next
      /\ \A t \in Scopes \ {s} : checkpoints'[t].cursor = checkpoints[t].cursor
  BY <1>1, <1>4 DEF Released, Typed
<1> QED BY <1>1, <1>5, <1>6, <1>7 DEF s, page, cursor

LEMMA IngestKeeps ==
  ASSUME IngestInv, NEW w \in Workers, Ingest(w)
  PROVE  IngestInv'
<1> DEFINE s == workers[w].scope
           page == workers[w].page
           fresh == page \ ingested
<1>1. Typed
  BY DEF IngestInv
<1>2. /\ s \in Scopes /\ page \in SUBSET Docs
      /\ checkpoints' \in [Scopes -> Checkpoint]
      /\ \A t \in Scopes \ {s} : checkpoints'[t].cursor = checkpoints[t].cursor
      /\ \A d \in visible : ScopeOf[d] = s /\ d <= checkpoints'[s].cursor =>
           d <= checkpoints[s].cursor \/ d \in page \cup late
  BY IngestMoves
<1>3. page \subseteq visible
  BY DEF IngestInv, PagesWhole, Ingest
<1>4. /\ ingested' = ingested \cup fresh
      /\ buckets' = [b \in Buckets |-> Counted(b, fresh)]
      /\ order' = LastServed(s)
      /\ Goes(w, "emitting")
      /\ UNCHANGED <<visible, late, cases, graphs, env>>
  BY DEF Ingest
<1>5. /\ WorkersTyped' /\ workers'[w].at = "emitting"
      /\ \A x \in Workers : x # w => workers'[x] = workers[x]
  BY <1>1, <1>4, WorkerGoes DEF Typed
<1> HIDE DEF s, page
<1>6. fresh \in SUBSET Docs
  BY <1>2
<1>7. /\ buckets' \in [Buckets -> Bucket]
      /\ \A b \in Buckets :
           /\ buckets'[b].emitted = buckets[b].emitted
           /\ buckets'[b].count = buckets[b].count + Cardinality({d \in fresh : BucketOf[d] = b})
  BY <1>1, <1>4, <1>6, BucketCounted DEF Typed
<1>8. Typed'
  <2>1. OrderTyped'
    BY <1>1, <1>2, <1>4, ServedIsLast DEF Typed
  <2>2. DocsTyped' /\ BucketsTyped'
    BY <1>1, <1>3, <1>4, <1>7 DEF Typed, DocsTyped, BucketsTyped
  <2> QED BY <1>1, <1>2, <1>4, <1>5, <2>1, <2>2 DEF Typed
<1>9. PagesWhole' /\ CreatedHaveCases'
  BY <1>4, <1>5 DEF IngestInv, PagesWhole, CreatedHaveCases
<1>10. NoGap'
  <2>1. ASSUME NEW d \in visible, d <= checkpoints'[ScopeOf[d]].cursor
        PROVE  d \in ingested' \cup late
    <3>1. CASE ScopeOf[d] = s
      BY <1>2, <1>4, <2>1, <3>1 DEF IngestInv, NoGap
    <3>2. CASE ScopeOf[d] # s
      <4>1. ScopeOf[d] \in Scopes
        BY <1>1, IngestionAssumption DEF Typed, DocsTyped
      <4> QED BY <1>2, <1>4, <2>1, <3>2, <4>1 DEF IngestInv, NoGap
    <3> QED BY <3>1, <3>2
  <2> QED BY <1>4, <2>1 DEF NoGap
<1>11. BucketsTrue'
  <2>1. ASSUME NEW b \in Buckets
        PROVE  buckets'[b].count = Cardinality({d \in ingested' : BucketOf[d] = b})
    <3> DEFINE old == {d \in ingested : BucketOf[d] = b}
               new == {d \in fresh : BucketOf[d] = b}
               all == {d \in ingested' : BucketOf[d] = b}
    <3>1. all = old \cup new /\ old \cap new = {}
      BY <1>4
    <3>2. old \in SUBSET Docs /\ new \in SUBSET Docs
      BY <1>1, <1>6 DEF Typed, DocsTyped
    <3>3. buckets[b].count = Cardinality(old)
      BY DEF IngestInv, BucketsTrue
    <3>4. buckets'[b].count = Cardinality(old) + Cardinality(new)
      BY <1>7, <3>3
    <3> HIDE DEF old, new, all
    <3>5. IsFiniteSet(old) /\ IsFiniteSet(new)
      BY <3>2, IngestionAssumption, FS_Subset
    <3>6. Cardinality(all) = Cardinality(old) + Cardinality(new)
      <4>1. Cardinality(old \cup new) = Cardinality(old) + Cardinality(new) - Cardinality(old \cap new)
        BY <3>5, FS_Union
      <4>2. Cardinality(old \cap new) = 0
        BY <3>1, FS_EmptySet
      <4>3. Cardinality(old) \in Nat /\ Cardinality(new) \in Nat
        BY <3>5, FS_CardinalityType
      <4> QED BY <3>1, <4>1, <4>2, <4>3
    <3> QED BY <3>4, <3>6 DEF all
  <2>2. \A b \in Buckets : buckets'[b].emitted => b \in cases'
    BY <1>4, <1>7 DEF IngestInv, BucketsTrue
  <2> QED BY <2>1, <2>2 DEF BucketsTrue
<1> QED BY <1>8, <1>9, <1>10, <1>11 DEF IngestInv

(* The case comes first, then the mark on the bucket. *)
LEMMA EmitKeeps ==
  ASSUME IngestInv, NEW w \in Workers, EmitCase(w) \/ EmitDone(w)
  PROVE  IngestInv'
<1>1. Typed
  BY DEF IngestInv
<1>2. CASE EmitCase(w)
  <2>1. /\ WorkersTyped' /\ workers'[w].at = "created" /\ workers'[w].bucket = Min(Pending)
        /\ \A x \in Workers : x # w => workers'[x] = workers[x]
    BY <1>1, <1>2, WorkerCreates
  <2>2. /\ cases' = cases \cup {Min(Pending)} /\ Min(Pending) \in Buckets
        /\ UNCHANGED <<visible, late, order, checkpoints, ingested, buckets, graphs, env>>
    BY <1>2, NextPending DEF EmitCase
  <2>3. Typed'
    BY <1>1, <2>1, <2>2 DEF Typed, DocsTyped, OrderTyped, BucketsTyped
  <2>4. PagesWhole' /\ CreatedHaveCases'
    BY <2>1, <2>2 DEF IngestInv, PagesWhole, CreatedHaveCases
  <2>5. NoGap' /\ BucketsTrue'
    BY <2>2 DEF IngestInv, NoGap, BucketsTrue
  <2> QED BY <2>3, <2>4, <2>5 DEF IngestInv
<1>3. CASE EmitDone(w)
  <2> DEFINE b == workers[w].bucket
  <2>1. /\ WorkersTyped' /\ workers'[w].at = "triggering"
        /\ \A x \in Workers : x # w => workers'[x] = workers[x]
    BY <1>1, <1>3, WorkerGoes DEF EmitDone, Typed
  <2>2. UNCHANGED <<visible, late, order, checkpoints, ingested, cases, graphs, env>>
    BY <1>3 DEF EmitDone
  <2>3. b \in cases
    BY <1>3 DEF EmitDone, IngestInv, CreatedHaveCases
  <2> HIDE DEF b
  <2>4. /\ buckets' \in [Buckets -> Bucket]
        /\ \A x \in Buckets : /\ buckets'[x].count = buckets[x].count
                              /\ buckets'[x].emitted => buckets[x].emitted \/ x = b
    BY <1>1, <1>3, ZenonT(30) DEF EmitDone, Typed, BucketsTyped, Bucket, b
  <2>5. Typed'
    BY <1>1, <2>1, <2>2, <2>4 DEF Typed, DocsTyped, OrderTyped, BucketsTyped
  <2>6. PagesWhole' /\ CreatedHaveCases'
    BY <2>1, <2>2 DEF IngestInv, PagesWhole, CreatedHaveCases
  <2>7. NoGap'
    BY <2>2 DEF IngestInv, NoGap
  <2>8. BucketsTrue'
    BY <2>2, <2>3, <2>4 DEF IngestInv, BucketsTrue
  <2> QED BY <2>5, <2>6, <2>7, <2>8 DEF IngestInv
<1> QED BY <1>2, <1>3

(* A document that shows up behind a cursor, or before the end of a page that
   is on its way to one, is late. *)
LEMMA ArriveKeeps ==
  ASSUME IngestInv, NEW d \in Docs, Arrive(d)
  PROVE  IngestInv'
<1>1. /\ Typed /\ d \notin visible /\ visible' = visible \cup {d}
      /\ UNCHANGED <<order, checkpoints, ingested, buckets, cases, graphs, workers, env>>
      /\ late \subseteq late' /\ late' \subseteq late \cup {d}
  BY DEF IngestInv, Arrive
<1>2. d <= checkpoints[ScopeOf[d]].cursor => d \in late'
  BY DEF Arrive
<1>3. ASSUME NEW w \in Workers, workers[w].at = "paged", NEW e \in workers[w].page,
             workers[w].scope = ScopeOf[d], d <= e
      PROVE  d \in late'
  <2>1. workers[w].page \in SUBSET Docs
    BY <1>1 DEF Typed, WorkersTyped, WorkerRow
  <2>2. Max(workers[w].page) \in workers[w].page /\ e <= Max(workers[w].page)
    BY <2>1, LastOfPage
  <2>3. Max(workers[w].page) # d
    BY <1>1, <1>3, <2>2 DEF IngestInv, PagesWhole
  <2>4. d < Max(workers[w].page)
    <3>1. d \in Nat /\ e \in Nat /\ Max(workers[w].page) \in Nat
      BY <2>1, <2>2, IngestionAssumption
    <3> QED BY <1>3, <2>2, <2>3, <3>1
  <2> QED BY <1>3, <2>4 DEF Arrive
<1>4. Typed'
  BY <1>1 DEF Typed, DocsTyped, OrderTyped, BucketsTyped, WorkersTyped
<1>5. PagesWhole'
  <2>1. ASSUME NEW w \in Workers, workers[w].at = "paged"
        PROVE  /\ workers[w].page \subseteq
                    {x \in visible' : ScopeOf[x] = workers[w].scope /\ x > workers[w].base}
               /\ \A x \in visible', e \in workers[w].page :
                    ScopeOf[x] = workers[w].scope /\ x > workers[w].base /\ x <= e =>
                      x \in workers[w].page \cup late'
    BY <1>1, <1>3, <2>1 DEF IngestInv, PagesWhole
  <2> QED BY <1>1, <2>1 DEF PagesWhole
<1>6. NoGap'
  BY <1>1, <1>2 DEF IngestInv, NoGap
<1>7. CreatedHaveCases' /\ BucketsTrue'
  BY <1>1 DEF IngestInv, CreatedHaveCases, BucketsTrue
<1> QED BY <1>4, <1>5, <1>6, <1>7 DEF IngestInv

LEMMA IngestNext ==
  ASSUME IngestInv, [Next]_vars
  PROVE  IngestInv'
<1>1. ASSUME NEW w \in Workers, Step(w) \/ Crash(w)
      PROVE  IngestInv'
  <2>1. CASE Ingest(w)
    BY <2>1, IngestKeeps
  <2>2. CASE ReadPage(w)
    BY <2>2, ReadPageKeeps
  <2>3. CASE EmitCase(w) \/ EmitDone(w)
    BY <2>3, EmitKeeps
  <2>4. CASE ~(Ingest(w) \/ ReadPage(w) \/ EmitCase(w) \/ EmitDone(w))
    BY <1>1, <2>4, QuietWorker DEF Step
  <2> QED BY <2>1, <2>2, <2>3, <2>4
<1>2. CASE UNCHANGED vars
  BY <1>2 DEF vars, IngestInv, Typed, DocsTyped, OrderTyped, BucketsTyped, WorkersTyped,
              PagesWhole, CreatedHaveCases, NoGap, BucketsTrue
<1> QED BY <1>1, <1>2, ArriveKeeps, LeaseExpiresKeeps DEF Next

LEMMA IngestInit ==
  ASSUME Init
  PROVE  IngestInv
<1>1. Typed
  <2>1. OrderTyped
    BY IngestionAssumption DEF Init, OrderTyped
  <2>2. WorkersTyped
    BY RestingTyped DEF Init, WorkersTyped
  <2>3. DocsTyped /\ BucketsTyped
    BY IngestionAssumption DEF Init, DocsTyped, BucketsTyped, Bucket
  <2>4. checkpoints \in [Scopes -> Checkpoint]
    BY DEF Init, Checkpoint
  <2>5. env \in [EnvKinds -> Nat]
    BY DEF Init
  <2> QED BY <2>1, <2>2, <2>3, <2>4, <2>5 DEF Typed
<1>2. PagesWhole /\ CreatedHaveCases
  BY DEF Init, PagesWhole, CreatedHaveCases, Resting
<1>3. NoGap
  <2>1. ASSUME NEW d \in visible
        PROVE  ~(d <= checkpoints[ScopeOf[d]].cursor)
    BY IngestionAssumption DEF Init
  <2> QED BY <2>1 DEF NoGap
<1>4. BucketsTrue
  <2>1. ASSUME NEW b \in Buckets
        PROVE  Cardinality({d \in ingested : BucketOf[d] = b}) = 0
    <3>1. {d \in ingested : BucketOf[d] = b} = {}
      BY DEF Init
    <3> QED BY <3>1, FS_EmptySet
  <2> QED BY <2>1 DEF Init, BucketsTrue
<1> QED BY <1>1, <1>2, <1>3, <1>4 DEF IngestInv

-----------------------------------------------------------------------------
(* Theorems.                                                               *)

(* Where a scope is enabled at all, the variables keep their types. *)
THEOREM IngestionTypeCorrect ==
  ASSUME Scopes # {}
  PROVE  Spec => []TypeOK
<1>1. IngestInv => TypeOK
  <2> SUFFICES ASSUME IngestInv PROVE TypeOK
    OBVIOUS
  <2>1. ScopeOrder[1] \in Scopes
    <3>1. DOMAIN ScopeOrder = 1 .. Len(ScopeOrder) /\ Len(ScopeOrder) \in Nat
      BY IngestionAssumption, LenProperties
    <3>2. \E i \in DOMAIN ScopeOrder : TRUE
      BY IngestionAssumption DEF ToSet
    <3>3. 1 \in 1 .. Len(ScopeOrder)
      BY <3>1, <3>2
    <3> QED BY <3>3, IngestionAssumption, ElementOfSeq
  <2>2. WorkerRow = Worker
    BY <2>1 DEF WorkerRow, Worker
  <2>3. order \in [1 .. Len(ScopeOrder) -> Scopes] /\ ToSet(order) = Scopes
    BY LenProperties DEF IngestInv, Typed, OrderTyped
  <2> QED BY <2>2, <2>3 DEF IngestInv, Typed, DocsTyped, BucketsTyped, WorkersTyped, TypeOK
<1>2. Init => IngestInv
  BY IngestInit
<1>3. IngestInv /\ [Next]_vars => IngestInv'
  BY IngestNext
<1> QED BY <1>1, <1>2, <1>3, PTL DEF Spec

(* Ingestion leaves no gap: however many workers, with whatever stale leases
   and pages, whatever the cursor has passed was ingested, or the store showed
   it late. *)
THEOREM NothingSkipped == Spec => []NoGap
<1>1. Init => IngestInv
  BY IngestInit
<1>2. IngestInv /\ [Next]_vars => IngestInv'
  BY IngestNext
<1>3. IngestInv => NoGap
  BY DEF IngestInv
<1> QED BY <1>1, <1>2, <1>3, PTL DEF Spec

(* No bucket says it was emitted without its case, and no document is counted
   twice or left out of its bucket, however often its page is read. *)
THEOREM BucketsAreTrue == Spec => []BucketsTrue
<1>1. Init => IngestInv
  BY IngestInit
<1>2. IngestInv /\ [Next]_vars => IngestInv'
  BY IngestNext
<1>3. IngestInv => BucketsTrue
  BY DEF IngestInv
<1> QED BY <1>1, <1>2, <1>3, PTL DEF Spec

(* No cursor moves back: a worker with an old page finds that the cursor is not
   where the page starts. *)
THEOREM CursorsGoForward == Spec => CursorForward
<1> DEFINE Forward == \A s \in Scopes : checkpoints[s].cursor <= checkpoints'[s].cursor
<1>1. IngestInv /\ [Next]_vars => [Forward]_vars
  <2> SUFFICES ASSUME IngestInv, [Next]_vars
               PROVE  Forward
    OBVIOUS
  <2>1. \A s \in Scopes : checkpoints[s].cursor \in Nat
    <3>1. \A d \in Docs \cup {0} : d \in Nat
      BY IngestionAssumption
    <3>2. \A s \in Scopes : checkpoints[s].cursor \in Docs \cup {0}
      BY DEF IngestInv, Typed, Checkpoint
    <3> QED BY <3>1, <3>2
  <2>2. ASSUME \A s \in Scopes : checkpoints'[s].cursor = checkpoints[s].cursor
        PROVE  Forward
    BY <2>1, <2>2
  <2>3. ASSUME NEW w \in Workers, Step(w) \/ Crash(w)
        PROVE  Forward
    <3>1. CASE Ingest(w)
      BY <2>1, <3>1, IngestMoves
    <3>2. CASE ClaimScope(w)
      BY <2>2, <3>2, WorkerClaims DEF IngestInv
    <3>3. CASE ReadFails(w) \/ IngestStale(w)
      <4>1. workers[w].scope \in Scopes
        BY <3>3 DEF ReadFails, IngestStale, IngestInv, Typed, WorkersTyped
      <4>2. checkpoints' = Released(workers[w].scope, checkpoints[workers[w].scope].cursor)
        BY <3>3 DEF ReadFails, IngestStale
      <4> QED BY <2>2, <4>1, <4>2, FreesQuietly DEF IngestInv, Typed
    <3>4. CASE Crash(w)
      <4>1. \A s \in Scopes : checkpoints'[s].cursor = checkpoints[s].cursor
        BY <3>4 DEF Crash, IngestInv, Typed, Checkpoint
      <4> QED BY <2>2, <4>1
    <3>5. CASE ~(Ingest(w) \/ ClaimScope(w) \/ ReadFails(w) \/ IngestStale(w) \/ Crash(w))
      <4>1. UNCHANGED checkpoints
        BY <2>3, <3>5 DEF Step, ClaimNothing, ReadPage, IngestRefused, EmitNothing, EmitCase,
                          EmitDone, Trigger
      <4> QED BY <2>2, <4>1
    <3> QED BY <3>1, <3>2, <3>3, <3>4, <3>5
  <2>4. ASSUME NEW s \in Scopes, LeaseExpires(s)
        PROVE  Forward
    <3>1. \A t \in Scopes : checkpoints'[t].cursor = checkpoints[t].cursor
      BY <2>4 DEF LeaseExpires, IngestInv, Typed, Checkpoint
    <3> QED BY <2>2, <3>1
  <2>5. CASE (\E d \in Docs : Arrive(d)) \/ UNCHANGED vars
    <3>1. UNCHANGED checkpoints
      BY <2>5 DEF Arrive, vars
    <3> QED BY <2>2, <3>1
  <2> QED BY <2>3, <2>4, <2>5 DEF Next
<1>2. Init => IngestInv
  BY IngestInit
<1>3. IngestInv /\ [Next]_vars => IngestInv'
  BY IngestNext
<1> QED BY <1>1, <1>2, <1>3, PTL DEF Spec, CursorForward
=============================================================================
