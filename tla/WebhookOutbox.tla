--------------------------- MODULE WebhookOutbox ---------------------------
(***************************************************************************)
(* Outgoing webhooks: an event is written in the transaction of the change  *)
(* it tells of, one delivery row per subscribed endpoint with it            *)
(* (webhooks/service.py); workers claim due rows under a lease, post, and   *)
(* record the answer (webhooks/worker.py); an operator edits endpoints and  *)
(* sends a settled delivery again (api/webhooks.py).                        *)
(*                                                                         *)
(* The clock is abstracted to what the claim compares with it: a row is due *)
(* or not, a lease is live or over.  A worker reads its row without a lock, *)
(* posts without a transaction worth the name, and writes the columns of    *)
(* its outcome, whoever holds the row by then.                              *)
(***************************************************************************)
EXTENDS Integers, FiniteSets

CONSTANTS
  Workers,      \* processes running webhook_worker.run_once
  Events,       \* what is announced, each once
  Endpoints,
  Subscribed,   \* pairs <<event, endpoint>> by event_types
  Limits,       \* the values of max_attempts an administrator uses
  MaxEnv        \* bounds: how often the environment does what, by kind

(* A worker dies, or an exception that is no httpx, OS or value error escapes;
   a lease runs out under a live worker; an operator sends a row again; an
   administrator edits an endpoint. *)
EnvKinds == {"crash", "stall", "redeliver", "edit"}

ASSUME OutboxAssumption ==
  /\ Subscribed \subseteq Events \X Endpoints
  /\ Limits \subseteq Nat \ {0} /\ \E m \in Limits : \A l \in Limits : l <= m
  /\ MaxEnv \in [EnvKinds -> Nat]
  /\ IsFiniteSet(Workers)

VARIABLES
  endpoints,  \* webhook_endpoint
  rows,       \* webhook_delivery, by event and endpoint
  workers,    \* the delivery a worker is on, and how far it is
  expiries,   \* history: how often a lease ran out under a live worker, by row
  env         \* how often the environment has acted, by kind

vars == <<endpoints, rows, workers, expiries, env>>

Deliveries == Events \X Endpoints
Claimed    == {"pending", "retry", "delivering"}
Settled    == {"delivered", "dead"}

Row == [status : {"none"} \cup Claimed \cup Settled, attempts : Nat,
        due : BOOLEAN, lease : {"none", "live", "over"}]
NoRow == [status |-> "none", attempts |-> 0, due |-> FALSE, lease |-> "none"]

(* seen: delivery.attempt_count as the worker's session loaded it. *)
Worker == [at : {"idle", "claimed", "posting"}, on : Deliveries, seen : Nat]

TypeOK ==
  /\ endpoints \in [Endpoints -> [enabled : BOOLEAN, max : Limits]]
  /\ rows \in [Deliveries -> Row]
  /\ workers \in [Workers -> Worker]
  /\ expiries \in [Deliveries -> Nat]
  /\ env \in [EnvKinds -> Nat]
  /\ \A d \in Deliveries : rows[d].status = "delivering" => rows[d].lease # "none"

Init ==
  /\ endpoints \in [Endpoints -> [enabled : {TRUE}, max : Limits]]
  /\ rows = [d \in Deliveries |-> NoRow]
  /\ workers \in [Workers -> [at : {"idle"}, on : Deliveries, seen : {0}]]
  /\ \A v, w \in Workers : workers[v] = workers[w]
  /\ expiries = [d \in Deliveries |-> 0]
  /\ env = [k \in EnvKinds |-> 0]

Happens(kind) == env[kind] < MaxEnv[kind] /\ env' = [env EXCEPT ![kind] = @ + 1]
Idle(w)       == workers' = [workers EXCEPT ![w].at = "idle", ![w].seen = 0]

-----------------------------------------------------------------------------
(* Writing an event, and the operator's requests. *)

(* The event and its pending rows appear with the business change or not at
   all; a test event goes to its one endpoint whatever that subscribed to. *)
Enqueue(event, test) ==
  LET to == {e \in Endpoints : endpoints[e].enabled /\ (<<event, e>> \in Subscribed \/ e = test)} IN
  /\ \A e \in Endpoints : rows[<<event, e>>] = NoRow
  /\ to # {}
  /\ rows' = [d \in Deliveries |->
                IF d[1] = event /\ d[2] \in to
                  THEN [NoRow EXCEPT !.status = "pending", !.due = TRUE] ELSE rows[d]]
  /\ UNCHANGED <<endpoints, workers, expiries, env>>

UpsertEndpoint(e) ==
  /\ Happens("edit")
  /\ \E enabled \in BOOLEAN, max \in Limits :
       endpoints' = [endpoints EXCEPT ![e] = [enabled |-> enabled, max |-> max]]
  /\ UNCHANGED <<rows, workers, expiries>>

Redeliver(d) ==
  /\ Happens("redeliver")
  /\ rows[d].status \in Settled
  /\ rows' = [rows EXCEPT ![d] = [NoRow EXCEPT !.status = "pending", !.due = TRUE]]
  /\ UNCHANGED <<endpoints, workers, expiries>>

-----------------------------------------------------------------------------
(* The worker. *)

(* For the mutants: the lease is not asked for; an expired one is not taken over. *)
ClaimableHeld(d)    == rows[d].status = "delivering" \/ rows[d].due
ClaimableWaiting(d) == rows[d].status \in {"pending", "retry"} /\ rows[d].due

Claimable(d) ==
  \/ rows[d].status \in {"pending", "retry"} /\ rows[d].due
  \/ rows[d].status = "delivering" /\ rows[d].lease = "over"

(* The first transaction of run_once.  The row with the earliest
   next_attempt_at goes first, which the fairness below stands for. *)
Claim(w, d) ==
  /\ workers[w].at = "idle"
  /\ Claimable(d)
  /\ rows' = [rows EXCEPT ![d].status = "delivering", ![d].attempts = @ + 1, ![d].lease = "live"]
  /\ workers' = [workers EXCEPT ![w] = [at |-> "claimed", on |-> d, seen |-> 0]]
  /\ UNCHANGED <<endpoints, expiries, env>>

(* For a mutant: the last attempt is not counted. *)
FailLate(d, attempts, retryable) ==
  LET again == retryable /\ attempts <= endpoints[d[2]].max IN
  rows' = [rows EXCEPT ![d].status = IF again THEN "retry" ELSE "dead", ![d].lease = "none",
                       ![d].due = ~again /\ rows[d].due]

(* _fail, on the attempt count in the session's row. *)
Fail(d, attempts, retryable) ==
  LET again == retryable /\ attempts < endpoints[d[2]].max IN
  rows' = [rows EXCEPT ![d].status = IF again THEN "retry" ELSE "dead", ![d].lease = "none",
                       ![d].due = ~again /\ rows[d].due]

(* _deliver reads the row: it is no longer being delivered, its endpoint was
   switched off, or the request is built and sent. *)
Load(w) ==
  LET d == workers[w].on IN
  /\ workers[w].at = "claimed"
  /\ \/ rows[d].status # "delivering" /\ Idle(w) /\ UNCHANGED rows
     \/ /\ rows[d].status = "delivering" /\ ~endpoints[d[2]].enabled
        /\ Fail(d, rows[d].attempts, FALSE) /\ Idle(w)
     \/ /\ rows[d].status = "delivering" /\ endpoints[d[2]].enabled
        /\ workers' = [workers EXCEPT ![w].at = "posting", ![w].seen = rows[d].attempts]
        /\ UNCHANGED rows
  /\ UNCHANGED <<endpoints, expiries, env>>

Posting(w) == workers[w].at = "posting" /\ Idle(w) /\ UNCHANGED <<endpoints, expiries, env>>

(* A 2xx: the outcome is written over whatever the row says now. *)
Delivered(w) ==
  LET d == workers[w].on IN
  /\ Posting(w)
  /\ rows' = [rows EXCEPT ![d].status = "delivered", ![d].lease = "none"]

(* Another status: final, or retryable (408, 425, 429, 5xx). *)
Answered(w, retryable) ==
  /\ Posting(w)
  /\ Fail(workers[w].on, workers[w].seen, retryable)

(* No answer, an unsafe address, an unreadable secret: the session starts over
   and takes the row as it is now, without asking whose it is. *)
Raised(w) ==
  LET d == workers[w].on IN
  /\ Posting(w)
  /\ Fail(d, rows[d].attempts, TRUE)

(* The process is gone, or the exception is one _deliver does not catch: the
   row stays 'delivering' under its lease. *)
Crash(w) ==
  /\ Happens("crash")
  /\ workers[w].at # "idle"
  /\ Idle(w)
  /\ UNCHANGED <<endpoints, rows, expiries>>

-----------------------------------------------------------------------------
(* Time. *)

Due(d) ==
  /\ rows[d].status = "retry" /\ ~rows[d].due
  /\ rows' = [rows EXCEPT ![d].due = TRUE]
  /\ UNCHANGED <<endpoints, workers, expiries, env>>

Holders(d) == {w \in Workers : workers[w].at # "idle" /\ workers[w].on = d}

(* Under a live worker only as often as the bound says. *)
LeaseExpires(d) ==
  /\ rows[d].lease = "live"
  /\ IF Holders(d) = {} THEN UNCHANGED env ELSE Happens("stall")
  /\ rows' = [rows EXCEPT ![d].lease = "over"]
  /\ expiries' = [expiries EXCEPT ![d] = @ + 1]
  /\ UNCHANGED <<endpoints, workers>>

Report(w) == Delivered(w) \/ (\E again \in BOOLEAN : Answered(w, again)) \/ Raised(w)

Next ==
  \/ \E event \in Events, test \in Endpoints : Enqueue(event, test)
  \/ \E e \in Endpoints : UpsertEndpoint(e)
  \/ \E w \in Workers, d \in Deliveries : Claim(w, d)
  \/ \E w \in Workers : Load(w) \/ Report(w) \/ Crash(w)
  \/ \E d \in Deliveries : Redeliver(d) \/ Due(d) \/ LeaseExpires(d)

Spec == Init /\ [][Next]_vars

(* Workers keep calling run_once and a request ends by its timeout; backoffs
   and leases run out; a row that waits is reached, since every row put back
   gets a later next_attempt_at than those already waiting. *)
FairSpec ==
  /\ Spec
  /\ \A w \in Workers : WF_vars(Load(w)) /\ WF_vars(Report(w))
  /\ \A d \in Deliveries : /\ WF_vars(Due(d)) /\ WF_vars(LeaseExpires(d) /\ Holders(d) = {})
                           /\ SF_vars(\E w \in Workers : Claim(w, d))

-----------------------------------------------------------------------------
(* Properties. *)

(* Two posts of one delivery are under way at once only if a lease ran out
   first: the number of workers on a row, and the claim it is open to, never
   exceed the leases that ran out on it by more than one. *)
HoldersCounted ==
  \A d \in Deliveries :
    Cardinality(Holders(d)) + (IF rows[d].status \in {"pending", "retry"} \/ rows[d].lease = "over"
                                 THEN 1 ELSE 0) <= 1 + expiries[d]

(* Since it was last sent, a delivery is claimed no more often than max_attempts
   allows, but for one claim per lease that ran out on it: neither a take-over,
   which does not look at the limit, nor a late worker that makes a settled row
   a retry, on the attempt count it once read, adds more than that. *)
MaxAttempts == CHOOSE m \in Limits : \A l \in Limits : l <= m

AttemptsBounded == \A d \in Deliveries : rows[d].attempts <= MaxAttempts + expiries[d]

(* Every delivery ends as delivered or as a dead letter: a crash, a late
   worker or a disabled endpoint never leaves one lying about. *)
DeliveriesSettle ==
  \A d \in Deliveries : rows[d].status \in Claimed ~> rows[d].status \in Settled

=============================================================================
