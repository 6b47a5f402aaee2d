------------------------ MODULE WebhookOutboxProofs ------------------------
(* Proofs about WebhookOutbox, for every set of workers, events, endpoints and
   subscriptions, every limit of attempts and every bound of the environment. *)
EXTENDS WebhookOutbox, FiniteSetTheorems, TLAPS

-----------------------------------------------------------------------------
(* Types. *)

LEMMA InitTyped == Init => TypeOK
<1> SUFFICES ASSUME Init PROVE TypeOK
  OBVIOUS
<1>1. endpoints \in [Endpoints -> [enabled : BOOLEAN, max : Limits]]
  BY DEF Init
<1>3. workers \in [Workers -> Worker]
  <2>1. [at : {"idle"}, on : Deliveries, seen : {0}] \subseteq Worker
    BY DEF Worker
  <2> QED BY <2>1 DEF Init
<1>2. NoRow \in Row /\ NoRow.status = "none"
  BY DEF NoRow, Row, Claimed, Settled
<1> QED BY <1>1, <1>2, <1>3 DEF Init, TypeOK

(* What _fail leaves is a row, and one that is no longer being delivered. *)
LEMMA FailTyped ==
  ASSUME TypeOK, NEW d \in Deliveries, NEW attempts \in Nat, NEW retryable \in BOOLEAN,
         Fail(d, attempts, retryable)
  PROVE  /\ rows' \in [Deliveries -> Row]
         /\ rows'[d].lease = "none" /\ rows'[d].status \in {"retry", "dead"}
         /\ \A c \in Deliveries \ {d} : rows'[c] = rows[c]
<1> DEFINE again == retryable /\ attempts < endpoints[d[2]].max
<1>1. rows \in [Deliveries -> Row] /\ rows[d] \in Row
  BY DEF TypeOK
<1>2. rows' = [rows EXCEPT ![d].status = IF again THEN "retry" ELSE "dead", ![d].lease = "none",
                           ![d].due = ~again /\ rows[d].due]
  BY DEF Fail
<1> HIDE DEF again
<1> QED BY <1>1, <1>2 DEF Row, Claimed, Settled

LEMMA IdleTyped ==
  ASSUME TypeOK, NEW w \in Workers, Idle(w)
  PROVE  /\ workers' \in [Workers -> Worker]
         /\ workers'[w].at = "idle"
         /\ \A v \in Workers \ {w} : workers'[v] = workers[v]
<1>1. workers \in [Workers -> Worker] /\ workers[w] \in Worker
  BY DEF TypeOK
<1> QED BY <1>1 DEF Idle, Worker

(* Every row, endpoint, worker and counter keeps its type, and a row that is
   being delivered has a lease: webhooks/service.py and webhooks/worker.py. *)
LEMMA NextTyped == TypeOK /\ [Next]_vars => TypeOK'
<1> SUFFICES ASSUME TypeOK, [Next]_vars PROVE TypeOK'
  OBVIOUS
<1>a. /\ rows \in [Deliveries -> Row] /\ workers \in [Workers -> Worker]
      /\ endpoints \in [Endpoints -> [enabled : BOOLEAN, max : Limits]]
      /\ expiries \in [Deliveries -> Nat] /\ env \in [EnvKinds -> Nat]
      /\ \A d \in Deliveries : rows[d].status = "delivering" => rows[d].lease # "none"
  BY DEF TypeOK
<1>b. [NoRow EXCEPT !.status = "pending", !.due = TRUE] \in Row
      /\ [NoRow EXCEPT !.status = "pending", !.due = TRUE].status = "pending"
  BY DEF NoRow, Row, Claimed, Settled
<1>c. \A kind \in EnvKinds : Happens(kind) => env' \in [EnvKinds -> Nat]
  BY <1>a DEF Happens
<1>d. {"crash", "stall", "redeliver", "edit"} \subseteq EnvKinds
  BY DEF EnvKinds
<1>1. ASSUME NEW event \in Events, NEW test \in Endpoints, Enqueue(event, test) PROVE TypeOK'
  BY <1>1, <1>a, <1>b DEF Enqueue, TypeOK
<1>2. ASSUME NEW e \in Endpoints, UpsertEndpoint(e) PROVE TypeOK'
  BY <1>2, <1>a, <1>c, <1>d DEF UpsertEndpoint, TypeOK
<1>3. ASSUME NEW w \in Workers, NEW d \in Deliveries, Claim(w, d) PROVE TypeOK'
  <2>1. [at |-> "claimed", on |-> d, seen |-> 0] \in Worker
    BY DEF Worker
  <2>2. rows' \in [Deliveries -> Row]
    BY <1>3, <1>a DEF Claim, Row, Claimed
  <2>3. \A c \in Deliveries : rows'[c].status = "delivering" => rows'[c].lease # "none"
    BY <1>3, <1>a DEF Claim, Row
  <2>4. workers' \in [Workers -> Worker]
    BY <1>3, <1>a, <2>1 DEF Claim
  <2> QED BY <1>3, <1>a, <2>2, <2>3, <2>4 DEF Claim, TypeOK
<1>4. ASSUME NEW w \in Workers, Load(w) PROVE TypeOK'
  <2> DEFINE d == workers[w].on
  <2>1. d \in Deliveries /\ rows[d] \in Row /\ rows[d].attempts \in Nat
    BY <1>a DEF Worker, Row
  <2>2. CASE rows[d].status # "delivering" /\ Idle(w) /\ UNCHANGED rows
    <3>1. workers' \in [Workers -> Worker]
      BY <2>2, IdleTyped
    <3> QED BY <1>4, <1>a, <2>2, <3>1 DEF Load, TypeOK
  <2>3. CASE Fail(d, rows[d].attempts, FALSE) /\ Idle(w)
    <3>1. rows' \in [Deliveries -> Row] /\ rows'[d].status \in {"retry", "dead"}
          /\ \A c \in Deliveries \ {d} : rows'[c] = rows[c]
      BY <2>1, <2>3, FailTyped
    <3> HIDE DEF d
    <3>2. \A c \in Deliveries : rows'[c].status = "delivering" => rows'[c].lease # "none"
      BY <1>a, <3>1
    <3>3. workers' \in [Workers -> Worker]
      BY <2>3, IdleTyped
    <3> QED BY <1>4, <1>a, <3>1, <3>2, <3>3 DEF Load, TypeOK
  <2>4. CASE workers' = [workers EXCEPT ![w].at = "posting", ![w].seen = rows[d].attempts] /\ UNCHANGED rows
    <3>1. PICK n \in Nat : workers' = [workers EXCEPT ![w].at = "posting", ![w].seen = n]
      BY <2>1, <2>4
    <3>2. workers' \in [Workers -> Worker]
      BY <1>a, <3>1 DEF Worker
    <3> QED BY <1>4, <1>a, <2>4, <3>2 DEF Load, TypeOK
  <2> QED BY <1>4, <2>2, <2>3, <2>4 DEF Load
<1>5. ASSUME NEW w \in Workers, Report(w) PROVE TypeOK'
  <2> DEFINE d == workers[w].on
  <2>1. /\ d \in Deliveries /\ rows[d] \in Row /\ rows[d].attempts \in Nat
        /\ workers[w].seen \in Nat
    BY <1>a DEF Worker, Row
  <2>2. Idle(w) /\ UNCHANGED <<endpoints, expiries, env>> /\ workers' \in [Workers -> Worker]
    BY <1>5, IdleTyped DEF Report, Delivered, Answered, Raised, Posting
  <2>3. CASE Delivered(w)
    <3>1. rows' \in [Deliveries -> Row]
      BY <1>a, <2>1, <2>3 DEF Delivered, Row, Settled
    <3>2. \A c \in Deliveries : rows'[c].status = "delivering" => rows'[c].lease # "none"
      BY <1>a, <2>1, <2>3 DEF Delivered, Row
    <3> QED BY <1>a, <2>1, <2>2, <2>3, <3>1, <3>2 DEF Delivered, TypeOK
  <2>4. CASE \/ \E again \in BOOLEAN : Answered(w, again)
             \/ Raised(w)
    <3>1. /\ rows' \in [Deliveries -> Row] /\ rows'[d].status \in {"retry", "dead"}
          /\ \A c \in Deliveries \ {d} : rows'[c] = rows[c]
      BY <2>1, <2>4, FailTyped DEF Answered, Raised
    <3> HIDE DEF d
    <3>2. \A c \in Deliveries : rows'[c].status = "delivering" => rows'[c].lease # "none"
      BY <1>a, <3>1
    <3> QED BY <1>a, <2>2, <3>1, <3>2 DEF TypeOK
  <2> QED BY <1>5, <2>3, <2>4 DEF Report
<1>6. ASSUME NEW w \in Workers, Crash(w) PROVE TypeOK'
  BY <1>6, <1>a, <1>c, <1>d, IdleTyped DEF Crash, TypeOK
<1>7. ASSUME NEW d \in Deliveries, Redeliver(d) PROVE TypeOK'
  BY <1>7, <1>a, <1>b, <1>c, <1>d DEF Redeliver, TypeOK
<1>8. ASSUME NEW d \in Deliveries, Due(d) PROVE TypeOK'
  <2>1. rows' \in [Deliveries -> Row]
    BY <1>8, <1>a DEF Due, Row
  <2>2. \A c \in Deliveries : rows'[c].status = rows[c].status /\ rows'[c].lease = rows[c].lease
    BY <1>8, <1>a DEF Due, Row
  <2> QED BY <1>8, <1>a, <2>1, <2>2 DEF Due, TypeOK
<1>9. ASSUME NEW d \in Deliveries, LeaseExpires(d) PROVE TypeOK'
  <2>1. rows' \in [Deliveries -> Row]
    BY <1>9, <1>a DEF LeaseExpires, Row
  <2>2. \A c \in Deliveries : rows'[c].status = "delivering" => rows'[c].lease # "none"
    BY <1>9, <1>a DEF LeaseExpires, Row
  <2>3. env' \in [EnvKinds -> Nat]
    BY <1>9, <1>a, <1>c, <1>d DEF LeaseExpires
  <2> QED BY <1>9, <1>a, <2>1, <2>2, <2>3 DEF LeaseExpires, TypeOK
<1>10. CASE UNCHANGED vars
  BY <1>10 DEF vars, TypeOK
<1> QED BY <1>1, <1>2, <1>3, <1>4, <1>5, <1>6, <1>7, <1>8, <1>9, <1>10 DEF Next

(* The types of the outbox hold in every reachable state. *)
THEOREM OutboxTypeCorrect == Spec => []TypeOK
<1> QED BY InitTyped, NextTyped, PTL DEF Spec

-----------------------------------------------------------------------------
(* Holders. *)

(* The strengthening of HoldersCounted: without a live lease a row is as good as
   open, whatever its status, since an operator can send it again. *)
HoldersInv ==
  \A d \in Deliveries :
    /\ rows[d].lease = "live" => rows[d].status = "delivering"
    /\ Cardinality(Holders(d)) + (IF rows[d].lease = "live" THEN 0 ELSE 1) <= 1 + expiries[d]

(* A worker that takes a row, or rests, changes the number of holders by one. *)
LEMMA HoldersFinite ==
  ASSUME NEW d \in Deliveries
  PROVE  IsFiniteSet(Holders(d)) /\ Cardinality(Holders(d)) \in Nat
<1> QED BY FS_Subset, FS_CardinalityType, OutboxAssumption DEF Holders

LEMMA HoldersRest ==
  ASSUME TypeOK, NEW w \in Workers, NEW d \in Deliveries,
         workers'[w].at = "idle", \A v \in Workers \ {w} : workers'[v] = workers[v]
  PROVE  /\ Holders(d)' = Holders(d) \ {w}
         /\ Cardinality(Holders(d)') = Cardinality(Holders(d)) - (IF w \in Holders(d) THEN 1 ELSE 0)
<1>1. Holders(d)' = Holders(d) \ {w}
  BY DEF Holders
<1>2. IsFiniteSet(Holders(d)) /\ Cardinality(Holders(d)) \in Nat
  BY HoldersFinite
<1>3. Cardinality(Holders(d) \ {w}) = IF w \in Holders(d) THEN Cardinality(Holders(d)) - 1
                                                         ELSE Cardinality(Holders(d))
  BY <1>2, FS_RemoveElement
<1> QED BY <1>1, <1>2, <1>3

LEMMA HoldersStep ==
  ASSUME TypeOK, HoldersInv, [Next]_vars
  PROVE  HoldersInv'
<1>a. /\ rows \in [Deliveries -> Row] /\ workers \in [Workers -> Worker]
      /\ expiries \in [Deliveries -> Nat]
  BY DEF TypeOK
<1>b. \A d \in Deliveries : IsFiniteSet(Holders(d)) /\ Cardinality(Holders(d)) \in Nat
  BY HoldersFinite
<1>1. ASSUME NEW event \in Events, NEW test \in Endpoints, Enqueue(event, test)
      PROVE  HoldersInv'
  <2>1. \A d \in Deliveries : rows'[d] = rows[d] \/ (rows[d].lease = "none" /\ rows'[d].lease = "none")
    <3> SUFFICES ASSUME NEW d \in Deliveries, rows'[d] # rows[d]
                 PROVE  rows[d].lease = "none" /\ rows'[d].lease = "none"
      OBVIOUS
    <3>1. d[1] = event /\ d[2] \in Endpoints /\ d = <<d[1], d[2]>>
      BY <1>1 DEF Enqueue, Deliveries
    <3>2. rows[d] = NoRow
      BY <1>1, <3>1 DEF Enqueue
    <3> QED BY <1>1, <1>a, <3>2 DEF Enqueue, NoRow
  <2>2. expiries' = expiries /\ workers' = workers
    BY <1>1 DEF Enqueue
  <2> QED BY <2>1, <2>2 DEF HoldersInv, Holders
<1>2. CASE \E e \in Endpoints : UpsertEndpoint(e)
  BY <1>2 DEF UpsertEndpoint, HoldersInv, Holders
<1>3. ASSUME NEW w \in Workers, NEW d \in Deliveries, Claim(w, d)
      PROVE  HoldersInv'
  <2>1. rows[d].lease # "live" /\ workers[w].at = "idle" /\ expiries' = expiries
    BY <1>3 DEF Claim, Claimable, HoldersInv
  <2>2. /\ rows'[d].lease = "live" /\ rows'[d].status = "delivering"
        /\ \A c \in Deliveries \ {d} : rows'[c] = rows[c]
    BY <1>3, <1>a DEF Claim, Row
  <2>3. /\ workers'[w].at = "claimed" /\ workers'[w].on = d
        /\ \A v \in Workers \ {w} : workers'[v] = workers[v]
    BY <1>3, <1>a DEF Claim
  <2>4. Holders(d)' = Holders(d) \cup {w} /\ w \notin Holders(d)
    BY <2>1, <2>3 DEF Holders
  <2>5. Cardinality(Holders(d)') = Cardinality(Holders(d)) + 1
    BY <1>b, <2>4, FS_AddElement
  <2>6. \A c \in Deliveries \ {d} : Holders(c)' = Holders(c)
    BY <2>1, <2>3 DEF Holders
  <2> QED BY <1>a, <1>b, <2>1, <2>2, <2>5, <2>6 DEF HoldersInv
<1>4. ASSUME NEW w \in Workers, NEW d \in Deliveries, d = workers[w].on, workers[w].at # "idle",
             workers'[w].at = "idle", \A v \in Workers \ {w} : workers'[v] = workers[v],
             expiries' = expiries,
             rows'[d] = rows[d] \/ rows'[d].lease = "none",
             \A c \in Deliveries \ {d} : rows'[c] = rows[c]
      PROVE  HoldersInv'
  <2>1. w \in Holders(d) /\ \A c \in Deliveries \ {d} : w \notin Holders(c)
    BY <1>4 DEF Holders
  <2>2. Cardinality(Holders(d)') = Cardinality(Holders(d)) - 1
    BY <1>4, <2>1, HoldersRest
  <2>3. \A c \in Deliveries \ {d} : Holders(c)' = Holders(c)
    <3> TAKE c \in Deliveries \ {d}
    <3>1. Holders(c)' = Holders(c) \ {w}
      BY <1>4, HoldersRest
    <3> QED BY <2>1, <3>1
  <2> QED BY <1>a, <1>b, <1>4, <2>2, <2>3 DEF HoldersInv
<1>5. ASSUME NEW w \in Workers, Load(w) PROVE HoldersInv'
  <2> DEFINE d == workers[w].on
  <2>1. d \in Deliveries /\ rows[d].attempts \in Nat
    BY <1>a DEF Worker, Row
  <2>2. CASE workers' = [workers EXCEPT ![w].at = "posting", ![w].seen = rows[d].attempts]
             /\ UNCHANGED rows
    <3>1. \A v \in Workers : workers'[v].on = workers[v].on
                             /\ (workers'[v].at = "idle" <=> workers[v].at = "idle")
      BY <1>5, <1>a, <2>2 DEF Load, Worker
    <3>2. \A c \in Deliveries : Holders(c)' = Holders(c)
      BY <3>1 DEF Holders
    <3> QED BY <1>5, <2>2, <3>2 DEF Load, HoldersInv
  <2>3. CASE Idle(w)
    <3>1. rows'[d] = rows[d] \/ rows'[d].lease = "none"
      BY <1>5, <2>1, <2>3, FailTyped DEF Load
    <3>2. \A c \in Deliveries \ {d} : rows'[c] = rows[c]
      BY <1>5, <2>1, <2>3, FailTyped DEF Load
    <3>3. workers[w].at # "idle" /\ expiries' = expiries
      BY <1>5 DEF Load
    <3>4. workers'[w].at = "idle" /\ \A v \in Workers \ {w} : workers'[v] = workers[v]
      BY <2>3, IdleTyped
    <3> HIDE DEF d
    <3> QED BY <2>1, <3>1, <3>2, <3>3, <3>4, <1>4 DEF d
  <2> QED BY <1>5, <2>2, <2>3 DEF Load
<1>6. ASSUME NEW w \in Workers, Report(w) PROVE HoldersInv'
  <2> DEFINE d == workers[w].on
  <2>1. d \in Deliveries /\ rows[d].attempts \in Nat /\ workers[w].seen \in Nat
    BY <1>a DEF Worker, Row
  <2>2. Posting(w)
    BY <1>6 DEF Report, Delivered, Answered, Raised
  <2>3. rows'[d].lease = "none" /\ \A c \in Deliveries \ {d} : rows'[c] = rows[c]
    <3>1. CASE Delivered(w)
      BY <1>a, <2>1, <3>1 DEF Delivered, Row
    <3>2. CASE \E attempts \in Nat, retryable \in BOOLEAN : Fail(d, attempts, retryable)
      BY <2>1, <3>2, FailTyped
    <3> QED BY <1>6, <2>1, <3>1, <3>2 DEF Report, Answered, Raised
  <2>4. workers[w].at # "idle" /\ expiries' = expiries /\ Idle(w)
    BY <2>2 DEF Posting
  <2>5. workers'[w].at = "idle" /\ \A v \in Workers \ {w} : workers'[v] = workers[v]
    BY <2>4, IdleTyped
  <2> QED BY <2>1, <2>3, <2>4, <2>5, <1>4
<1>7. ASSUME NEW w \in Workers, Crash(w) PROVE HoldersInv'
  <2>1. workers[w].on \in Deliveries
    BY <1>a DEF Worker
  <2>2. workers'[w].at = "idle" /\ \A v \in Workers \ {w} : workers'[v] = workers[v]
    BY <1>7, IdleTyped DEF Crash
  <2>3. workers[w].at # "idle" /\ expiries' = expiries /\ rows' = rows
    BY <1>7 DEF Crash
  <2> QED BY <2>1, <2>2, <2>3, <1>4
<1>8. ASSUME NEW d \in Deliveries, Redeliver(d) PROVE HoldersInv'
  <2>1. rows[d].lease # "live"
    BY <1>8 DEF Redeliver, Settled, HoldersInv
  <2>2. rows'[d].lease = "none" /\ \A c \in Deliveries \ {d} : rows'[c] = rows[c]
    BY <1>8, <1>a DEF Redeliver, NoRow
  <2>3. workers' = workers /\ expiries' = expiries
    BY <1>8 DEF Redeliver
  <2> QED BY <2>1, <2>2, <2>3 DEF HoldersInv, Holders
<1>9. ASSUME NEW d \in Deliveries, Due(d) PROVE HoldersInv'
  <2>1. \A c \in Deliveries : rows'[c].status = rows[c].status /\ rows'[c].lease = rows[c].lease
    BY <1>9, <1>a DEF Due, Row
  <2>2. workers' = workers /\ expiries' = expiries
    BY <1>9 DEF Due
  <2> QED BY <2>1, <2>2 DEF HoldersInv, Holders
<1>10. ASSUME NEW d \in Deliveries, LeaseExpires(d) PROVE HoldersInv'
  <2>1. /\ rows[d].lease = "live" /\ rows'[d].lease = "over" /\ expiries'[d] = expiries[d] + 1
        /\ \A c \in Deliveries \ {d} : rows'[c] = rows[c] /\ expiries'[c] = expiries[c]
    BY <1>10, <1>a DEF LeaseExpires, Row
  <2>2. \A c \in Deliveries : Holders(c)' = Holders(c)
    BY <1>10 DEF LeaseExpires, Holders
  <2> QED BY <1>a, <1>b, <2>1, <2>2 DEF HoldersInv
<1>11. CASE UNCHANGED vars
  BY <1>11 DEF vars, HoldersInv, Holders
<1> QED BY <1>1, <1>2, <1>3, <1>5, <1>6, <1>7, <1>8, <1>9, <1>10, <1>11 DEF Next

LEMMA HoldersHold == Spec => []HoldersInv
<1>1. Init => HoldersInv
  <2> SUFFICES ASSUME Init, NEW d \in Deliveries
               PROVE  /\ rows[d].lease = "live" => rows[d].status = "delivering"
                      /\ Cardinality(Holders(d)) + (IF rows[d].lease = "live" THEN 0 ELSE 1)
                           <= 1 + expiries[d]
    BY DEF HoldersInv
  <2>1. Holders(d) = {}
    BY DEF Init, Holders
  <2>2. Cardinality(Holders(d)) = 0
    BY <2>1, FS_EmptySet
  <2> QED BY <2>2 DEF Init, NoRow
<1>2. TypeOK /\ HoldersInv /\ [Next]_vars => HoldersInv'
  BY HoldersStep
<1> QED BY <1>1, <1>2, OutboxTypeCorrect, PTL DEF Spec

(* Posts of one delivery overlap only after a lease ran out: the workers on a row
   and the claim it is open to exceed the expired leases by one at most. *)
THEOREM HoldersAreCounted == Spec => []HoldersCounted
<1>1. TypeOK /\ HoldersInv => HoldersCounted
  <2> SUFFICES ASSUME TypeOK, HoldersInv, NEW d \in Deliveries
               PROVE  Cardinality(Holders(d)) +
                        (IF rows[d].status \in {"pending", "retry"} \/ rows[d].lease = "over"
                           THEN 1 ELSE 0) <= 1 + expiries[d]
    BY DEF HoldersCounted
  <2>1. Cardinality(Holders(d)) \in Nat /\ expiries[d] \in Nat
    BY HoldersFinite DEF TypeOK
  <2> QED BY <2>1 DEF HoldersInv
<1> QED BY <1>1, HoldersHold, OutboxTypeCorrect, PTL

-----------------------------------------------------------------------------
(* Attempts. *)

(* The workers that may still make the row a retry, on an attempt count below
   the limit, and whether the row can be claimed. *)
Risky(d) == {w \in Workers : workers[w].at = "posting" /\ workers[w].on = d
                             /\ workers[w].seen < MaxAttempts}
Open(d)  == rows[d].status \in {"pending", "retry"} \/ rows[d].lease = "over"

(* The strengthening of AttemptsBounded: each claim beyond the limit, each worker
   that can open the row to one, and the one it is open to, was paid for by a
   lease that ran out. *)
AttemptsInv ==
  \A d \in Deliveries :
    rows[d].attempts >= MaxAttempts =>
      rows[d].attempts - MaxAttempts + Cardinality(Risky(d)) + (IF Open(d) THEN 1 ELSE 0)
        <= expiries[d]

LEMMA MaxIsLimit == MaxAttempts \in Nat /\ MaxAttempts > 0 /\ \A l \in Limits : l <= MaxAttempts
<1>1. \E m \in Limits : \A l \in Limits : l <= m
  BY OutboxAssumption
<1>2. MaxAttempts \in Limits /\ \A l \in Limits : l <= MaxAttempts
  BY <1>1, Zenon DEF MaxAttempts
<1> QED BY <1>2, OutboxAssumption

LEMMA RiskyFinite ==
  ASSUME NEW d \in Deliveries
  PROVE  /\ IsFiniteSet(Risky(d)) /\ Cardinality(Risky(d)) \in Nat
         /\ Risky(d) \subseteq Holders(d) /\ Cardinality(Risky(d)) <= Cardinality(Holders(d))
<1>1. Risky(d) \subseteq Holders(d)
  BY DEF Risky, Holders
<1> QED BY <1>1, HoldersFinite, FS_Subset, FS_CardinalityType

(* One worker leaves its row, and the others are as they were. *)
LEMMA RiskyRest ==
  ASSUME TypeOK, NEW w \in Workers, NEW d \in Deliveries,
         workers'[w].at = "idle", \A v \in Workers \ {w} : workers'[v] = workers[v]
  PROVE  Cardinality(Risky(d)') = Cardinality(Risky(d)) - (IF w \in Risky(d) THEN 1 ELSE 0)
<1>1. Risky(d)' = Risky(d) \ {w}
  BY DEF Risky, MaxAttempts
<1>2. IsFiniteSet(Risky(d)) /\ Cardinality(Risky(d)) \in Nat
  BY RiskyFinite
<1>3. Cardinality(Risky(d) \ {w}) = IF w \in Risky(d) THEN Cardinality(Risky(d)) - 1
                                                     ELSE Cardinality(Risky(d))
  BY <1>2, FS_RemoveElement
<1> QED BY <1>1, <1>2, <1>3

(* What _fail leaves: the attempts are as they were, and the row is open only
   if the count it was given was below the limit. *)
LEMMA FailOpens ==
  ASSUME TypeOK, NEW d \in Deliveries, NEW attempts \in Nat, NEW retryable \in BOOLEAN,
         Fail(d, attempts, retryable)
  PROVE  /\ rows'[d].attempts = rows[d].attempts
         /\ Open(d)' => attempts < MaxAttempts
         /\ \A c \in Deliveries \ {d} : rows'[c] = rows[c]
<1> DEFINE again == retryable /\ attempts < endpoints[d[2]].max
<1>1. rows \in [Deliveries -> Row] /\ rows[d] \in Row
  BY DEF TypeOK
<1>2. rows' = [rows EXCEPT ![d].status = IF again THEN "retry" ELSE "dead", ![d].lease = "none",
                           ![d].due = ~again /\ rows[d].due]
  BY DEF Fail
<1>3. endpoints[d[2]].max \in Limits /\ Limits \subseteq Nat
  BY OutboxAssumption DEF TypeOK, Deliveries
<1>4. again => attempts < MaxAttempts
  <2>1. endpoints[d[2]].max \in Nat /\ endpoints[d[2]].max <= MaxAttempts
    BY <1>3, MaxIsLimit
  <2>2. again => attempts < endpoints[d[2]].max
    OBVIOUS
  <2> HIDE DEF again
  <2> QED BY <2>1, <2>2, MaxIsLimit
<1> HIDE DEF again
<1>5. rows'[d].attempts = rows[d].attempts /\ rows'[d].lease = "none"
      /\ rows'[d].status = IF again THEN "retry" ELSE "dead"
  BY <1>1, <1>2 DEF Row
<1>6. \A c \in Deliveries \ {d} : rows'[c] = rows[c]
  BY <1>1, <1>2
<1> QED BY <1>4, <1>5, <1>6 DEF Open

LEMMA AttemptsStep ==
  ASSUME TypeOK, HoldersInv, AttemptsInv, [Next]_vars
  PROVE  AttemptsInv'
<1>a. /\ rows \in [Deliveries -> Row] /\ workers \in [Workers -> Worker]
      /\ expiries \in [Deliveries -> Nat]
      /\ \A d \in Deliveries : rows[d].attempts \in Nat
  BY DEF TypeOK, Row
<1>b. \A d \in Deliveries : Cardinality(Risky(d)) \in Nat
  BY RiskyFinite
<1>m. MaxAttempts \in Nat /\ MaxAttempts > 0 /\ MaxAttempts' = MaxAttempts
  BY MaxIsLimit DEF MaxAttempts
<1>s. ASSUME NEW c \in Deliveries, rows'[c] = rows[c], expiries'[c] = expiries[c],
             Cardinality(Risky(c)') \in Nat, Cardinality(Risky(c)') <= Cardinality(Risky(c))
      PROVE  rows'[c].attempts >= MaxAttempts =>
               rows'[c].attempts - MaxAttempts + Cardinality(Risky(c)') + (IF Open(c)' THEN 1 ELSE 0)
                 <= expiries'[c]
  <2>1. Open(c)' = Open(c)
    BY <1>s DEF Open
  <2> QED BY <2>1, <1>s, <1>a, <1>b, <1>m DEF AttemptsInv
<1>1. ASSUME NEW event \in Events, NEW test \in Endpoints, Enqueue(event, test)
      PROVE  AttemptsInv'
  <2> SUFFICES ASSUME NEW d \in Deliveries
               PROVE  rows'[d].attempts >= MaxAttempts =>
                        rows'[d].attempts - MaxAttempts + Cardinality(Risky(d)')
                          + (IF Open(d)' THEN 1 ELSE 0) <= expiries'[d]
    BY <1>m DEF AttemptsInv
  <2>1. rows'[d] = rows[d] \/ rows'[d].attempts = 0
    BY <1>1 DEF Enqueue, NoRow
  <2>2. Risky(d)' = Risky(d) /\ expiries' = expiries
    BY <1>1 DEF Enqueue, Risky, MaxAttempts
  <2> QED BY <1>a, <1>b, <1>m, <1>s, <2>1, <2>2
<1>2. CASE \E e \in Endpoints : UpsertEndpoint(e)
  BY <1>2, <1>m DEF UpsertEndpoint, AttemptsInv, Risky, Open
<1>3. ASSUME NEW w \in Workers, NEW d \in Deliveries, Claim(w, d)
      PROVE  AttemptsInv'
  <2>1. /\ rows[d].lease # "live" /\ workers[w].at = "idle" /\ expiries' = expiries
        /\ Open(d)
    BY <1>3 DEF Claim, Claimable, HoldersInv, Open
  <2>2. /\ rows'[d].attempts = rows[d].attempts + 1 /\ ~Open(d)'
        /\ \A c \in Deliveries \ {d} : rows'[c] = rows[c]
    BY <1>3, <1>a DEF Claim, Row, Open
  <2>3. \A c \in Deliveries : Risky(c)' = Risky(c)
    BY <1>3, <1>a DEF Claim, Risky, MaxAttempts
  <2>4. /\ Cardinality(Risky(d)) <= expiries[d]
    BY <1>a, <1>b, <2>1, RiskyFinite, HoldersFinite DEF HoldersInv
  <2>5. ASSUME NEW c \in Deliveries
        PROVE  rows'[c].attempts >= MaxAttempts =>
                 rows'[c].attempts - MaxAttempts + Cardinality(Risky(c)')
                   + (IF Open(c)' THEN 1 ELSE 0) <= expiries'[c]
    <3>1. CASE c # d
      BY <1>b, <1>s, <2>1, <2>2, <2>3, <3>1
    <3>2. CASE c = d
      BY <1>a, <1>b, <1>m, <2>1, <2>2, <2>3, <2>4, <3>2 DEF AttemptsInv
    <3> QED BY <3>1, <3>2
  <2> QED BY <1>m, <2>5 DEF AttemptsInv
<1>4. ASSUME NEW w \in Workers, NEW d \in Deliveries, d = workers[w].on,
             workers'[w].at = "idle", \A v \in Workers \ {w} : workers'[v] = workers[v],
             expiries' = expiries, rows'[d].attempts = rows[d].attempts,
             Open(d)' => \/ Open(d) /\ rows'[d] = rows[d]
                         \/ rows[d].attempts < MaxAttempts
                         \/ w \in Risky(d),
             \A c \in Deliveries \ {d} : rows'[c] = rows[c]
      PROVE  AttemptsInv'
  <2>1. ASSUME NEW c \in Deliveries
        PROVE  /\ Cardinality(Risky(c)') \in Nat
               /\ Cardinality(Risky(c)') = Cardinality(Risky(c)) - (IF w \in Risky(c) THEN 1 ELSE 0)
               /\ Cardinality(Risky(c)') <= Cardinality(Risky(c))
    <3>1. Cardinality(Risky(c)') = Cardinality(Risky(c)) - (IF w \in Risky(c) THEN 1 ELSE 0)
      BY <1>4, RiskyRest
    <3>2. w \in Risky(c) => Cardinality(Risky(c)) > 0
      BY <1>b, RiskyFinite, FS_EmptySet
    <3> QED BY <1>b, <3>1, <3>2
  <2>2. ASSUME NEW c \in Deliveries
        PROVE  rows'[c].attempts >= MaxAttempts =>
                 rows'[c].attempts - MaxAttempts + Cardinality(Risky(c)')
                   + (IF Open(c)' THEN 1 ELSE 0) <= expiries'[c]
    <3>1. CASE c # d
      BY <1>4, <1>s, <2>1, <3>1
    <3>2. CASE c = d
      BY <1>4, <1>a, <1>b, <1>m, <2>1, <3>2 DEF AttemptsInv
    <3> QED BY <3>1, <3>2
  <2> QED BY <1>m, <2>2 DEF AttemptsInv
<1>5. ASSUME NEW w \in Workers, Load(w) PROVE AttemptsInv'
  <2>p. PICK d \in Deliveries : d = workers[w].on
    BY <1>a DEF Worker
  <2>1. rows[d].attempts \in Nat /\ rows[d] \in Row
    BY <1>a
  <2>2. CASE workers' = [workers EXCEPT ![w].at = "posting", ![w].seen = rows[d].attempts]
             /\ UNCHANGED rows
    <3>1. ASSUME NEW c \in Deliveries, rows[c].attempts >= MaxAttempts
          PROVE  Risky(c)' = Risky(c)
      <4>1. workers[w].at = "claimed"
        BY <1>5 DEF Load
      <4>2. w \notin Risky(c)
        BY <4>1 DEF Risky
      <4>3. workers'[w].on = d /\ workers'[w].seen = rows[d].attempts
            /\ \A v \in Workers \ {w} : workers'[v] = workers[v]
        BY <1>a, <2>2, <2>p DEF Worker
      <4>4. ~(workers'[w].on = c /\ workers'[w].seen < MaxAttempts)
        BY <1>a, <1>m, <2>1, <3>1, <4>3
      <4> QED BY <1>m, <4>2, <4>3, <4>4 DEF Risky
    <3>2. expiries' = expiries /\ rows' = rows
      BY <1>5, <2>2 DEF Load
    <3>3. ASSUME NEW c \in Deliveries
          PROVE  rows'[c].attempts >= MaxAttempts =>
                   rows'[c].attempts - MaxAttempts + Cardinality(Risky(c)')
                     + (IF Open(c)' THEN 1 ELSE 0) <= expiries'[c]
      BY <1>b, <1>s, <3>1, <3>2
    <3> QED BY <1>m, <3>3 DEF AttemptsInv
  <2>3. CASE Idle(w)
    <3>1. CASE rows' = rows
      BY <1>4, <1>5, <2>p, <2>3, <3>1, IdleTyped DEF Load, Open
    <3>2. CASE Fail(d, rows[d].attempts, FALSE)
      <4>1. /\ rows'[d].attempts = rows[d].attempts
            /\ Open(d)' => rows[d].attempts < MaxAttempts
            /\ \A c \in Deliveries \ {d} : rows'[c] = rows[c]
        BY <2>1, <3>2, FailOpens
      <4>2. workers'[w].at = "idle" /\ \A v \in Workers \ {w} : workers'[v] = workers[v]
        BY <2>3, IdleTyped
      <4>3. expiries' = expiries
        BY <1>5 DEF Load
      <4> QED BY <1>4, <2>1, <4>1, <4>2, <4>3, <2>p
    <3> QED BY <1>5, <2>3, <2>p, <3>1, <3>2 DEF Load
  <2> QED BY <1>5, <2>2, <2>3, <2>p DEF Load
<1>6. ASSUME NEW w \in Workers, Report(w) PROVE AttemptsInv'
  <2>p. PICK d \in Deliveries : d = workers[w].on
    BY <1>a DEF Worker
  <2>1. rows[d].attempts \in Nat /\ workers[w].seen \in Nat /\ rows[d] \in Row
    BY <1>a DEF Worker
  <2>2. Posting(w)
    BY <1>6 DEF Report, Delivered, Answered, Raised
  <2>3. /\ rows'[d].attempts = rows[d].attempts
        /\ Open(d)' => rows[d].attempts < MaxAttempts \/ workers[w].seen < MaxAttempts
        /\ \A c \in Deliveries \ {d} : rows'[c] = rows[c]
    <3>1. CASE Delivered(w)
      BY <1>a, <2>1, <2>p, <3>1 DEF Delivered, Row, Open
    <3>2. CASE \E again \in BOOLEAN : Answered(w, again)
      BY <2>1, <3>2, <2>p, FailOpens DEF Answered
    <3>3. CASE Raised(w)
      BY <2>1, <3>3, <2>p, FailOpens DEF Raised
    <3> QED BY <1>6, <3>1, <3>2, <3>3 DEF Report
  <2>4. workers[w].at = "posting" /\ expiries' = expiries /\ Idle(w)
    BY <2>2 DEF Posting
  <2>5. workers'[w].at = "idle" /\ \A v \in Workers \ {w} : workers'[v] = workers[v]
    BY <2>4, IdleTyped
  <2>6. workers[w].seen < MaxAttempts => w \in Risky(d)
    BY <2>4, <2>p DEF Risky
  <2> QED BY <1>4, <2>1, <2>3, <2>4, <2>5, <2>6, <2>p
<1>7. ASSUME NEW w \in Workers, Crash(w) PROVE AttemptsInv'
  <2>1. workers[w].on \in Deliveries
    BY <1>a DEF Worker
  <2>2. workers'[w].at = "idle" /\ \A v \in Workers \ {w} : workers'[v] = workers[v]
    BY <1>7, IdleTyped DEF Crash
  <2>3. expiries' = expiries /\ rows' = rows
    BY <1>7 DEF Crash
  <2> QED BY <2>1, <2>2, <2>3, <1>4 DEF Open
<1>8. ASSUME NEW d \in Deliveries, Redeliver(d) \/ Due(d) PROVE AttemptsInv'
  <2>1. \A c \in Deliveries : \/ rows'[c].attempts = 0
                              \/ /\ rows'[c].attempts = rows[c].attempts
                                 /\ rows'[c].status = rows[c].status /\ rows'[c].lease = rows[c].lease
    <3>1. CASE Redeliver(d)
      BY <3>1, <1>a DEF Redeliver, NoRow
    <3>2. CASE Due(d)
      BY <3>2, <1>a DEF Due, Row
    <3> QED BY <1>8, <3>1, <3>2
  <2>2. workers' = workers /\ expiries' = expiries
    BY <1>8 DEF Redeliver, Due
  <2>3. \A c \in Deliveries : Risky(c)' = Risky(c)
    BY <2>2, <1>m DEF Risky
  <2> QED BY <1>m, <2>1, <2>2, <2>3 DEF AttemptsInv, Open
<1>9. ASSUME NEW d \in Deliveries, LeaseExpires(d) PROVE AttemptsInv'
  <2>1. /\ rows[d].lease = "live" /\ expiries'[d] = expiries[d] + 1
        /\ rows'[d].attempts = rows[d].attempts
        /\ \A c \in Deliveries \ {d} : rows'[c] = rows[c] /\ expiries'[c] = expiries[c]
    BY <1>9, <1>a DEF LeaseExpires, Row
  <2>2. \A c \in Deliveries : Risky(c)' = Risky(c)
    BY <1>9, <1>m DEF LeaseExpires, Risky
  <2>3. ~Open(d)
    BY <2>1 DEF HoldersInv, Open
  <2>4. ASSUME NEW c \in Deliveries
        PROVE  rows'[c].attempts >= MaxAttempts =>
                 rows'[c].attempts - MaxAttempts + Cardinality(Risky(c)')
                   + (IF Open(c)' THEN 1 ELSE 0) <= expiries'[c]
    <3>1. CASE c # d
      BY <1>b, <1>s, <2>1, <2>2, <3>1
    <3>2. CASE c = d
      BY <1>a, <1>b, <1>m, <2>1, <2>2, <2>3, <3>2 DEF AttemptsInv
    <3> QED BY <3>1, <3>2
  <2> QED BY <1>m, <2>4 DEF AttemptsInv
<1>10. CASE UNCHANGED vars
  BY <1>10, <1>m DEF vars, AttemptsInv, Risky, Open
<1> QED BY <1>1, <1>2, <1>3, <1>5, <1>6, <1>7, <1>8, <1>9, <1>10 DEF Next

(* Since it was last sent, a delivery is claimed at most max_attempts times and
   once more per lease that ran out on it, whoever takes it over and however
   late a worker writes what it once read. *)
THEOREM AttemptsAreBounded == Spec => []AttemptsBounded
<1>1. Init => AttemptsInv
  BY MaxIsLimit DEF Init, NoRow, AttemptsInv
<1>2. TypeOK /\ HoldersInv /\ AttemptsInv /\ [Next]_vars => AttemptsInv'
  BY AttemptsStep
<1>3. TypeOK /\ AttemptsInv => AttemptsBounded
  <2> SUFFICES ASSUME TypeOK, AttemptsInv, NEW d \in Deliveries
               PROVE  rows[d].attempts <= MaxAttempts + expiries[d]
    BY DEF AttemptsBounded
  <2>1. rows[d].attempts \in Nat /\ expiries[d] \in Nat /\ Cardinality(Risky(d)) \in Nat
    BY RiskyFinite DEF TypeOK, Row
  <2> QED BY <2>1, MaxIsLimit DEF AttemptsInv
<1> QED BY <1>1, <1>2, <1>3, OutboxTypeCorrect, HoldersHold, PTL DEF Spec
=============================================================================
