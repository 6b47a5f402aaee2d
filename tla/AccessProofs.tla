----------------------------- MODULE AccessProofs -----------------------------
(***************************************************************************)
(* What Access promises for every set of users, roles, tokens and requests: *)
(* the audit log tells the truth, a login transaction makes one session,    *)
(* and requests only lock each other out when one of them changes an        *)
(* account.                                                                *)
(***************************************************************************)
EXTENDS Access, SequenceTheorems, FiniteSetTheorems, FunctionTheorems, TLAPS

Running(r) == requests[r].at = "running"

(* The locks a request takes, in their order. *)
Plan(q) ==
  CASE q.kind = "failed" -> <<AuditLock>>
    [] q.kind \in {"callback", "password"} -> LoginWants(q.target, q.mapped # q.roles)
    [] q.kind = "update" -> UpdateWants(q.target, q.actor)
    [] q.kind = "create" -> <<Share(q.actor), AuditLock>>
    [] q.kind = "revoke" -> <<Own(q.token), AuditLock, Share(q.actor)>>
    [] q.kind = "provider" -> <<AuditLock, Write(Directory), Share(q.actor)>>

Holds(r) == {w \in Wish : [by |-> r, on |-> w.on, mode |-> w.mode] \in locks}

(* The first n locks of the plan are taken, the rest is wanted. *)
Taken(q, holds, n) ==
  /\ q.wants = SubSeq(Plan(q), n + 1, Len(Plan(q)))
  /\ holds = {Plan(q)[k] : k \in 1 .. n}

(* A token that was revoked in the meantime needs no more locks. *)
NothingToRevoke(q, holds, state) ==
  q.kind = "revoke" /\ q.wants = <<>> /\ holds = {Own(q.token)} /\ state[q.token] = "revoked"

InOrder(q, holds, state) ==
  IF q.at = "running"
  THEN (\E n \in 0 .. Len(Plan(q)) : Taken(q, holds, n)) \/ NothingToRevoke(q, holds, state)
  ELSE holds = {}

Ordered == \A r \in Requests : InOrder(requests[r], Holds(r), tokens)

Mutex == \A l, m \in locks : l.on = m.on /\ l.by # m.by => ~Conflict(l.mode, m.mode)

OneLogin ==
  \A r, q \in Requests :
    Running(r) /\ Running(q) /\ IsLogin(requests[r].kind) /\ IsLogin(requests[q].kind) => r = q

(* A token is made once, and what is revoked was made. *)
TokensTrue ==
  \A r \in Requests : Running(r) =>
    /\ requests[r].kind = "create" =>
         /\ tokens[requests[r].token] = "none"
         /\ \A q \in Requests :
              q # r /\ Running(q) /\ requests[q].kind \in {"create", "revoke"} =>
                requests[q].token # requests[r].token
    /\ requests[r].kind = "revoke" => tokens[requests[r].token] # "none"

(* Whom and what a request is about. *)
Named(q) ==
  /\ q.at = "running" =>
       /\ q.kind \in {"callback", "password", "update"} => q.target \in Users
       /\ q.kind \in {"update", "create", "revoke", "provider"} => q.actor \in Users
       /\ q.kind \in {"create", "revoke"} => q.token \in Tokens
       /\ q.kind = "provider" => q.mapped \in Mappings
  /\ q.at = "remote" => q.kind = "callback"
  /\ q.at # "running" => q.token = NoUser
  /\ q.at \in {"idle", "ended"} => q.login = 0

LockType == [by : Requests, on : Users \cup Tokens \cup {Directory, Audit}, mode : Mode]

Shape ==
  /\ TypeOK /\ locks \subseteq LockType
  /\ \A r \in Requests : Named(requests[r])

LocksInv == Shape /\ Ordered /\ Mutex /\ OneLogin /\ TokensTrue

-----------------------------------------------------------------------------
(* Types. *)

LEMMA AccessConstants ==
  /\ IsFiniteSet(Requests) /\ Requests \subseteq Nat /\ Logins \subseteq Nat /\ 0 \notin Logins
  /\ IsFiniteSet(Users) /\ Start \in [Users -> User]
  /\ NoUser \notin Users /\ NoUser \notin Tokens /\ Directory \notin Users /\ Directory \notin Tokens
  /\ Audit \notin Users /\ Audit \notin Tokens /\ Users \cap Tokens = {}
  /\ \A m \in Mappings : m \in SUBSET Roles
BY AccessAssumption

LEMMA AuditIsNotDirectory == Audit # Directory
BY DEF Audit, Directory

LEMMA RequestFields ==
  ASSUME Shape, NEW r \in Requests
  PROVE  /\ requests[r] \in Request
         /\ requests[r].at \in {"idle", "remote", "running", "ended"} /\ requests[r].kind \in Kinds
         /\ requests[r].actor \in Users \cup {NoUser} /\ requests[r].target \in Users \cup {NoUser}
         /\ requests[r].login \in Logins \cup {0} /\ requests[r].token \in Tokens \cup {NoUser}
         /\ requests[r].active \in BOOLEAN /\ requests[r].roles \in SUBSET Roles
         /\ requests[r].mapped \in SUBSET Roles /\ requests[r].seen \in SUBSET Roles
         /\ requests[r].prev \in Nat /\ requests[r].wants \in Seq(Wish)
<1>1. requests[r] \in Request
  BY DEF Shape, TypeOK
<1>2. QED
  BY <1>1 DEF Request

LEMMA IdleFields ==
  /\ Idle \in Request /\ Ended \in Request /\ Named(Idle) /\ Named(Ended)
  /\ Idle.at = "idle" /\ Ended.at = "ended" /\ Ended.login = 0 /\ Ended.token = NoUser
  /\ Idle.login = 0 /\ Idle.token = NoUser
<1>1. Idle \in Request
  BY DEF Idle, Request, Kinds
<1>2. Ended \in Request
  BY <1>1 DEF Ended, Request, Idle, Kinds
<1>3. Named(Idle) /\ Named(Ended)
  BY DEF Named, Idle, Ended
<1>4. QED
  BY <1>1, <1>2, <1>3 DEF Idle, Ended

LEMMA Wishes ==
  /\ \A x \in Users \cup Tokens \cup {Directory, Audit} :
       Share(x) \in Wish /\ Write(x) \in Wish /\ Own(x) \in Wish
  /\ AuditLock \in Wish
BY DEF Share, Write, Own, AuditLock, Wish, Mode

LEMMA PlanType ==
  ASSUME NEW q \in Request, Named(q), q.at = "running"
  PROVE  /\ Plan(q) \in Seq(Wish) /\ Len(Plan(q)) \in 1 .. 3
         /\ \A k \in 1 .. Len(Plan(q)) : Plan(q)[k] \in Wish
<1>1. q.kind \in {"callback", "password", "failed", "update", "create", "revoke", "provider"}
  BY DEF Request, Kinds
<1>2. CASE q.kind = "failed"
  BY <1>2, Wishes DEF Plan
<1>3. CASE q.kind \in {"callback", "password"}
  <2>1. q.target \in Users
    BY <1>3 DEF Named
  <2>2. CASE q.mapped # q.roles
    BY <1>3, <2>1, <2>2, Wishes DEF Plan, LoginWants
  <2>3. CASE q.mapped = q.roles
    BY <1>3, <2>1, <2>3, Wishes DEF Plan, LoginWants
  <2>4. QED
    BY <2>2, <2>3
<1>4. CASE q.kind = "update"
  BY <1>4, Wishes DEF Plan, Named, UpdateWants
<1>5. CASE q.kind = "create"
  BY <1>5, Wishes DEF Plan, Named
<1>6. CASE q.kind = "revoke"
  BY <1>6, Wishes DEF Plan, Named
<1>7. CASE q.kind = "provider"
  BY <1>7, Wishes DEF Plan, Named
<1>8. QED
  BY <1>1, <1>2, <1>3, <1>4, <1>5, <1>6, <1>7

LEMMA RequestsSet ==
  ASSUME Shape, NEW r \in Requests, NEW q \in Request, Named(q), requests' = [requests EXCEPT ![r] = q]
  PROVE  /\ requests' \in [Requests -> Request]
         /\ \A p \in Requests : Named(requests'[p])
         /\ requests'[r] = q /\ \A p \in Requests : p # r => requests'[p] = requests[p]
BY DEF Shape, TypeOK

(* The accounts after a login and after an update. *)
LoginSets(old, u, s) ==
  [old EXCEPT ![u].exists = TRUE, ![u].mapped = (@ \ s.removed) \cup s.added]

UpdateSets(old, u, q) ==
  [old EXCEPT ![u].active = q.active, ![u].manual = (@ \ (q.seen \ q.roles)) \cup (q.roles \ q.seen)]

LEMMA Synced ==
  ASSUME NEW old \in [Users -> User], NEW u \in Users, NEW s \in Event
  PROVE  /\ LoginSets(old, u, s) \in [Users -> User]
         /\ \A v \in Users : v # u => LoginSets(old, u, s)[v] = old[v]
         /\ LoginSets(old, u, s)[u].exists
         /\ LoginSets(old, u, s)[u].active = old[u].active
         /\ LoginSets(old, u, s)[u].manual = old[u].manual
         /\ LoginSets(old, u, s)[u].mapped = (old[u].mapped \ s.removed) \cup s.added
<1> DEFINE now == LoginSets(old, u, s)
<1> DEFINE known == [old EXCEPT ![u] = [old[u] EXCEPT !.exists = TRUE]]
<1>1. old[u] \in User /\ s.removed \in SUBSET Roles /\ s.added \in SUBSET Roles
  BY DEF Event
<1>2. /\ known \in [Users -> User] /\ \A v \in Users : v # u => known[v] = old[v]
      /\ known[u] = [old[u] EXCEPT !.exists = TRUE] /\ known[u].exists = TRUE
      /\ known[u].active = old[u].active /\ known[u].manual = old[u].manual
      /\ known[u].mapped = old[u].mapped
  BY <1>1 DEF User
<1>3. now = [known EXCEPT ![u] = [known[u] EXCEPT !.mapped = (known[u].mapped \ s.removed) \cup s.added]]
  BY Zenon DEF LoginSets
<1> HIDE DEF known, now
<1>4. (known[u].mapped \ s.removed) \cup s.added \in SUBSET Roles /\ known[u] \in User
  BY <1>1, <1>2 DEF User
<1> DEFINE e == [known[u] EXCEPT !.mapped = (known[u].mapped \ s.removed) \cup s.added]
<1>5. /\ e \in User /\ e.exists = TRUE /\ e.active = old[u].active /\ e.manual = old[u].manual
      /\ e.mapped = (old[u].mapped \ s.removed) \cup s.added
  BY <1>2, <1>4 DEF User
<1> HIDE DEF e
<1>6. now = [known EXCEPT ![u] = e]
  BY <1>3 DEF e
<1>7. now \in [Users -> User] /\ now[u] = e /\ \A v \in Users : v # u => now[v] = old[v]
  <2>1. known \in [Users -> User] /\ \A v \in Users : v # u => known[v] = old[v]
    BY <1>2
  <2>2. e \in User
    BY <1>5
  <2>3. QED
    BY <2>1, <2>2, <1>6
<1>8. QED
  BY <1>5, <1>7 DEF now

LEMMA Updated ==
  ASSUME NEW old \in [Users -> User], NEW u \in Users, NEW q \in Request
  PROVE  /\ UpdateSets(old, u, q) \in [Users -> User]
         /\ \A v \in Users : v # u => UpdateSets(old, u, q)[v] = old[v]
         /\ UpdateSets(old, u, q)[u].exists = old[u].exists
         /\ UpdateSets(old, u, q)[u].active = q.active
         /\ UpdateSets(old, u, q)[u].manual = (old[u].manual \ (q.seen \ q.roles)) \cup (q.roles \ q.seen)
         /\ UpdateSets(old, u, q)[u].mapped = old[u].mapped
<1> DEFINE now == UpdateSets(old, u, q)
<1> DEFINE known == [old EXCEPT ![u] = [old[u] EXCEPT !.active = q.active]]
<1>1. /\ old \in [Users -> User] /\ old[u] \in User
      /\ q.active \in BOOLEAN /\ q.seen \in SUBSET Roles /\ q.roles \in SUBSET Roles
  BY DEF Request
<1>2. /\ known \in [Users -> User] /\ \A v \in Users : v # u => known[v] = old[v]
      /\ known[u] = [old[u] EXCEPT !.active = q.active] /\ known[u].exists = old[u].exists
      /\ known[u].active = q.active /\ known[u].manual = old[u].manual
      /\ known[u].mapped = old[u].mapped
  BY <1>1 DEF User
<1>3. now = [known EXCEPT ![u] = [known[u] EXCEPT !.manual = (known[u].manual \ (q.seen \ q.roles)) \cup (q.roles \ q.seen)]]
  BY Zenon DEF UpdateSets
<1> HIDE DEF known, now
<1>4. (known[u].manual \ (q.seen \ q.roles)) \cup (q.roles \ q.seen) \in SUBSET Roles /\ known[u] \in User
  BY <1>1, <1>2 DEF User
<1> DEFINE e == [known[u] EXCEPT !.manual = (known[u].manual \ (q.seen \ q.roles)) \cup (q.roles \ q.seen)]
<1>5. /\ e \in User /\ e.exists = old[u].exists /\ e.active = q.active /\ e.mapped = old[u].mapped
      /\ e.manual = (old[u].manual \ (q.seen \ q.roles)) \cup (q.roles \ q.seen)
  BY <1>2, <1>4 DEF User
<1> HIDE DEF e
<1>6. now = [known EXCEPT ![u] = e]
  BY <1>3 DEF e
<1>7. now \in [Users -> User] /\ now[u] = e /\ \A v \in Users : v # u => now[v] = old[v]
  <2>1. known \in [Users -> User] /\ \A v \in Users : v # u => known[v] = old[v]
    BY <1>2
  <2>2. e \in User
    BY <1>5
  <2>3. QED
    BY <2>1, <2>2, <1>6
<1>8. QED
  BY <1>5, <1>7 DEF now

LEMMA AuditedType ==
  ASSUME Shape, NEW r \in Requests,
         NEW kind \in {"login", "failed", "synced", "updated", "created", "revoked", "provider"}
  PROVE  /\ Audited(r, kind) \in Event /\ Audited(r, kind).kind = kind
         /\ Audited(r, kind).user = requests[r].target /\ Audited(r, kind).roles = requests[r].roles
         /\ Audited(r, kind).active = requests[r].active
         /\ Audited(r, kind).session = 0 /\ Audited(r, kind).prev = requests[r].prev
<1>1. /\ requests[r].active \in BOOLEAN /\ requests[r].roles \in SUBSET Roles /\ requests[r].prev \in Nat
      /\ requests[r].target \in Users \cup {NoUser}
  BY RequestFields
<1>2. QED
  BY <1>1 DEF Audited, Event

LEMMA Released ==
  ASSUME Shape, NEW r \in Requests, requests' = [requests EXCEPT ![r] = Ended], locks' = Release(r)
  PROVE  /\ requests' \in [Requests -> Request] /\ \A p \in Requests : Named(requests'[p])
         /\ locks' \subseteq LockType
         /\ \A l \in locks' : l.by \in Requests /\ [on |-> l.on, mode |-> l.mode] \in Wish
         /\ \A l \in locks' : requests'[l.by].at = "running"
<1>1. /\ requests' \in [Requests -> Request] /\ \A p \in Requests : Named(requests'[p])
      /\ \A p \in Requests : p # r => requests'[p] = requests[p]
  BY IdleFields, RequestsSet
<1>2. locks' \subseteq LockType /\ \A l \in locks' : l \in locks /\ l.by # r
  BY DEF Release, Shape
<1>3. QED
  BY <1>1, <1>2 DEF Shape, TypeOK

(* A request that begins, or goes on without a lock. *)
LEMMA Begun ==
  ASSUME Shape, NEW r \in Requests, NEW q \in Request, Named(q), ~Running(r),
         requests' = [requests EXCEPT ![r] = q], locks' = locks
  PROVE  /\ requests' \in [Requests -> Request] /\ \A p \in Requests : Named(requests'[p])
         /\ locks' \subseteq LockType
         /\ \A l \in locks' : l.by \in Requests /\ [on |-> l.on, mode |-> l.mode] \in Wish
         /\ \A l \in locks' : requests'[l.by].at = "running"
<1>1. /\ requests' \in [Requests -> Request] /\ \A p \in Requests : Named(requests'[p])
      /\ \A p \in Requests : p # r => requests'[p] = requests[p]
  BY RequestsSet
<1>2. \A l \in locks : l.by # r
  BY DEF Shape, TypeOK, Running
<1>3. QED
  BY <1>1, <1>2 DEF Shape, TypeOK

(* What a request has read once it has taken the lock it waited for. *)
ReadTrue(q, wish, read) ==
  /\ read \in Request /\ Named(read) /\ wish \in Wish
  /\ read.at = q.at /\ read.kind = q.kind /\ read.actor = q.actor /\ read.target = q.target
  /\ read.login = q.login /\ read.token = q.token /\ read.active = q.active /\ read.roles = q.roles
  /\ read.mapped = q.mapped
  /\ \/ read.wants = Tail(q.wants)
     \/ read.wants = <<>> /\ q.kind = "revoke" /\ wish = Own(q.token) /\ tokens[q.token] # "active"
  /\ read.prev = IF wish = AuditLock THEN Len(log) ELSE q.prev
  /\ q.kind = "update" => read.seen = IF wish = Own(q.target) THEN users[q.target].manual ELSE q.seen
  /\ IsLogin(q.kind) =>
       read.seen = IF wish = Write(q.target) THEN users[q.target].manual \cup q.mapped ELSE q.seen

LEMMA ReadIs ==
  ASSUME Shape, NEW r \in Requests, Running(r), requests[r].wants # <<>>
  PROVE  ReadTrue(requests[r], Head(requests[r].wants), Read(r, Head(requests[r].wants)))
<1> SUFFICES ASSUME NEW q, q = requests[r], NEW wish, wish = Head(q.wants), NEW read, read = Read(r, wish)
             PROVE  ReadTrue(q, wish, read)
  OBVIOUS
<1>1. q \in Request /\ q.wants \in Seq(Wish) /\ q.wants # <<>> /\ q.at = "running" /\ Named(q)
  BY RequestFields DEF Shape, Running
<1>2. wish \in Wish /\ Tail(q.wants) \in Seq(Wish)
  BY <1>1, HeadTailProperties
<1> DEFINE p == [q EXCEPT !.wants = Tail(q.wants)]
<1>3. /\ p \in Request /\ p.wants = Tail(q.wants) /\ p.at = q.at /\ p.kind = q.kind /\ p.actor = q.actor
      /\ p.target = q.target /\ p.login = q.login /\ p.token = q.token /\ p.active = q.active
      /\ p.roles = q.roles /\ p.mapped = q.mapped /\ p.seen = q.seen /\ p.prev = q.prev
  BY <1>1, <1>2 DEF Request
<1>4. read = CASE wish = AuditLock -> [p EXCEPT !.prev = Len(log)]
               [] p.kind = "update" /\ wish = Own(p.target) -> [p EXCEPT !.seen = users[p.target].manual]
               [] p.kind = "revoke" /\ wish = Own(p.token) ->
                    IF tokens[p.token] = "active" THEN p ELSE [p EXCEPT !.wants = <<>>]
               [] IsLogin(p.kind) /\ wish = Write(p.target) ->
                    [p EXCEPT !.seen = users[p.target].manual \cup p.mapped]
               [] OTHER -> p
  BY DEF Read
<1> HIDE DEF p
<1>5. /\ (wish = Write(q.target) => q.target \in Users)
      /\ (q.kind = "update" => q.target \in Users) /\ \A u \in Users : users[u].manual \in SUBSET Roles
      /\ q.mapped \in SUBSET Roles /\ Len(log) \in Nat
  <2>1. wish = Write(q.target) => q.target \in Users \cup Tokens \cup {Directory, Audit}
    BY <1>2 DEF Wish, Write
  <2>2. q.target \in Users \cup {NoUser} /\ NoUser # Directory /\ NoUser # Audit
    BY <1>1 DEF Request, NoUser, Directory, Audit
  <2>3. \A u \in Users : users[u].manual \in SUBSET Roles
    BY DEF Shape, TypeOK, User
  <2>4. Len(log) \in Nat
    BY DEF Shape, TypeOK
  <2>5. QED
    BY <1>1, <2>1, <2>2, <2>3, <2>4, AccessConstants DEF Named, Request
<1>6. wish = AuditLock => ~(wish = Own(q.target) /\ q.target \in Users) /\ wish # Own(q.token) /\ wish # Write(q.target)
  <2>1. q.token \in Tokens \cup {NoUser} /\ NoUser # Audit
    BY <1>1 DEF Request, NoUser, Audit
  <2>2. QED
    BY <2>1, AccessConstants DEF AuditLock, Own, Write
<1> DEFINE Rest(x) ==
      /\ x \in Request /\ x.at = q.at /\ x.kind = q.kind /\ x.actor = q.actor /\ x.target = q.target
      /\ x.login = q.login /\ x.token = q.token /\ x.active = q.active /\ x.roles = q.roles
      /\ x.mapped = q.mapped
<1>7. CASE wish = AuditLock
  <2>1. read = [p EXCEPT !.prev = Len(log)]
    BY <1>3, <1>4, <1>5, <1>6, <1>7
  <2>2. Rest(read) /\ read.prev = Len(log) /\ read.seen = q.seen /\ read.wants = Tail(q.wants)
    BY <1>3, <1>5, <2>1 DEF Request
  <2>3. Named(read)
    BY <1>1, <2>2 DEF Named
  <2> HIDE DEF Rest
  <2>4. QED
    BY <1>2, <1>5, <1>6, <1>7, <2>2, <2>3 DEF Rest, ReadTrue
<1>8. CASE wish # AuditLock /\ q.kind = "update" /\ wish = Own(q.target)
  <2>1. read = [p EXCEPT !.seen = users[q.target].manual]
    BY <1>3, <1>4, <1>8 DEF IsLogin
  <2>2. Rest(read) /\ read.prev = q.prev /\ read.seen = users[q.target].manual /\ read.wants = Tail(q.wants)
    BY <1>3, <1>5, <1>8, <2>1 DEF Request
  <2>3. Named(read)
    BY <1>1, <2>2 DEF Named
  <2>4. QED
    BY <1>2, <1>8, <2>2, <2>3 DEF IsLogin, ReadTrue
<1>9. CASE wish # AuditLock /\ q.kind = "revoke" /\ wish = Own(q.token)
  <2>1. read = IF tokens[q.token] = "active" THEN p ELSE [p EXCEPT !.wants = <<>>]
    BY <1>3, <1>4, <1>9 DEF IsLogin
  <2>2. /\ Rest(read) /\ read.prev = q.prev /\ read.seen = q.seen
        /\ read.wants = IF tokens[q.token] = "active" THEN Tail(q.wants) ELSE <<>>
    <3>1. CASE tokens[q.token] = "active"
      BY <1>3, <2>1, <3>1
    <3>2. CASE tokens[q.token] # "active"
      <4>1. read = [p EXCEPT !.wants = <<>>]
        BY <2>1, <3>2
      <4>2. <<>> \in Seq(Wish)
        OBVIOUS
      <4>3. read.wants = <<>> /\ read.prev = q.prev /\ read.seen = q.seen /\ read \in Request
        BY <1>3, <4>1, <4>2 DEF Request
      <4>4. Rest(read)
        BY <1>3, <4>1, <4>3 DEF Request
      <4> HIDE DEF Rest
      <4>5. QED
        BY <3>2, <4>3, <4>4
    <3>3. QED
      BY <3>1, <3>2
  <2>3. Named(read)
    BY <1>1, <2>2 DEF Named
  <2>4. QED
    BY <1>2, <1>9, <2>2, <2>3 DEF IsLogin, ReadTrue
<1>10. CASE wish # AuditLock /\ IsLogin(q.kind) /\ wish = Write(q.target)
  <2>1. read = [p EXCEPT !.seen = users[q.target].manual \cup q.mapped]
    BY <1>3, <1>4, <1>10 DEF IsLogin
  <2>2. users[q.target].manual \cup q.mapped \in SUBSET Roles
    BY <1>5, <1>10
  <2>3. /\ Rest(read) /\ read.prev = q.prev /\ read.seen = users[q.target].manual \cup q.mapped
        /\ read.wants = Tail(q.wants)
    BY <1>3, <2>1, <2>2 DEF Request
  <2>4. Named(read)
    BY <1>1, <2>3 DEF Named
  <2>5. QED
    BY <1>2, <1>10, <2>3, <2>4 DEF IsLogin, ReadTrue
<1>11. CASE /\ wish # AuditLock /\ ~(q.kind = "update" /\ wish = Own(q.target))
            /\ ~(q.kind = "revoke" /\ wish = Own(q.token)) /\ ~(IsLogin(q.kind) /\ wish = Write(q.target))
  <2>1. read = p
    BY <1>3, <1>4, <1>11
  <2>2. Named(read)
    BY <1>1, <1>3, <2>1 DEF Named
  <2>3. QED
    BY <1>2, <1>3, <1>11, <2>1, <2>2 DEF ReadTrue
<1>12. QED
  BY <1>7, <1>8, <1>9, <1>10, <1>11

(* An event with what a login adds to it. *)
SyncedFrom(e, added, removed) == [e EXCEPT !.roles = {}, !.added = added, !.removed = removed]

LoginFrom(e, roles, session, prev) == [e EXCEPT !.roles = roles, !.session = session, !.prev = prev]

LEMMA SyncedWith ==
  ASSUME NEW e \in Event, NEW added \in SUBSET Roles, NEW removed \in SUBSET Roles, NEW s,
         s = SyncedFrom(e, added, removed)
  PROVE  /\ s \in Event /\ s.kind = e.kind /\ s.user = e.user /\ s.session = e.session /\ s.prev = e.prev
         /\ s.added = added /\ s.removed = removed
BY DEF Event, SyncedFrom

LEMMA LoginWith ==
  ASSUME NEW e \in Event, NEW roles \in SUBSET Roles, NEW session \in Nat, NEW prev \in Nat, NEW l,
         l = LoginFrom(e, roles, session, prev)
  PROVE  /\ l \in Event /\ l.kind = e.kind /\ l.user = e.user /\ l.session = session /\ l.prev = prev
         /\ l.roles = roles
BY DEF Event, LoginFrom

(* What has to keep its type, whatever happens to the requests and their locks. *)
Rows ==
  /\ users \in [Users -> User] /\ provider \in Provider
  /\ logins \in [Logins -> {"none", "asking", "open", "consumed", "gone"}]
  /\ sessions \in Seq(Session) /\ tokens \in [Tokens -> {"none", "active", "revoked"}]
  /\ log \in Seq(Event) /\ crashes \in 0 .. MaxCrashes

RequestRows ==
  /\ requests \in [Requests -> Request] /\ \A r \in Requests : Named(requests[r])
  /\ locks \subseteq LockType
  /\ \A l \in locks : l.by \in Requests /\ [on |-> l.on, mode |-> l.mode] \in Wish
  /\ \A l \in locks : requests[l.by].at = "running"

LEMMA ShapeIs == Shape <=> Rows /\ RequestRows
BY DEF Shape, TypeOK, Rows, RequestRows

LEMMA AcquireShape ==
  ASSUME Shape, NEW r \in Requests, Acquire(r)
  PROVE  Shape'
<1> DEFINE wish == Head(requests[r].wants)
<1> DEFINE read == Read(r, wish)
<1>1. /\ Running(r) /\ requests[r].wants # <<>>
      /\ locks' = locks \cup {[by |-> r, on |-> wish.on, mode |-> wish.mode]}
      /\ requests' = [requests EXCEPT ![r] = read]
      /\ UNCHANGED <<users, provider, logins, sessions, tokens, log, crashes>>
  BY DEF Acquire, Running
<1>2. read \in Request /\ Named(read) /\ wish \in Wish /\ read.at = "running"
  BY <1>1, ReadIs DEF Running, ReadTrue
<1> HIDE DEF wish, read
<1>3. /\ requests' \in [Requests -> Request] /\ \A p \in Requests : Named(requests'[p])
      /\ requests'[r] = read /\ \A p \in Requests : p # r => requests'[p] = requests[p]
  BY <1>1, <1>2, RequestsSet
<1> DEFINE l == [by |-> r, on |-> wish.on, mode |-> wish.mode]
<1>4. l \in LockType /\ [on |-> l.on, mode |-> l.mode] \in Wish /\ l.by = r
  BY <1>2 DEF Wish, LockType
<1> HIDE DEF l
<1>5. locks' = locks \cup {l}
  BY <1>1 DEF l
<1>6. RequestRows'
  BY <1>2, <1>3, <1>4, <1>5, ShapeIs DEF RequestRows
<1>7. Rows'
  BY <1>1, ShapeIs DEF Rows
<1>8. QED
  BY <1>6, <1>7, ShapeIs, PTL

LEMMA CommitShape ==
  ASSUME Shape, NEW r \in Requests, Committed(r)
  PROVE  Shape'
<1> DEFINE q == requests[r]
<1>1. /\ requests' = [requests EXCEPT ![r] = Ended] /\ locks' = Release(r) /\ Running(r)
  BY DEF Committed, LoggedIn, LoginFailed, UserUpdated, TokenCreated, TokenRevoked, ProviderPut, Commits, Running
<1>2. RequestRows'
  BY <1>1, Released DEF RequestRows
<1>3. /\ q.active \in BOOLEAN /\ q.roles \in SUBSET Roles /\ q.mapped \in SUBSET Roles /\ q.seen \in SUBSET Roles
      /\ q.prev \in Nat /\ q.login \in Logins \cup {0} /\ Named(q) /\ q.at = "running"
  BY <1>1, RequestFields DEF Shape, Running
<1>4. Rows
  BY ShapeIs
<1>5. CASE LoggedIn(r)
  <2> DEFINE synced == [Audited(r, "synced") EXCEPT !.roles = {}, !.added = q.mapped \ q.roles,
                                                    !.removed = q.roles \ q.mapped]
  <2> DEFINE login == [Audited(r, "login") EXCEPT !.roles = q.seen, !.session = Len(sessions) + 1,
                                                  !.prev = @ + IF q.roles # q.mapped THEN 1 ELSE 0]
  <2>1. q.target \in Users /\ UNCHANGED <<provider, logins, tokens, crashes>>
    BY <1>3, <1>5 DEF LoggedIn, Commits, Named
  <2>2. users' \in [Users -> User]
    <3>1. synced \in Event
      <4>1. q.mapped \ q.roles \in SUBSET Roles /\ q.roles \ q.mapped \in SUBSET Roles
        BY <1>3
      <4>2. Audited(r, "synced") \in Event
        BY AuditedType
      <4>3. synced = SyncedFrom(Audited(r, "synced"), q.mapped \ q.roles, q.roles \ q.mapped)
        BY DEF SyncedFrom
      <4> HIDE DEF synced
      <4>4. QED
        BY <4>1, <4>2, <4>3, SyncedWith
    <3>2. users' = LoginSets(users, q.target, synced)
      BY <1>5, Zenon DEF LoggedIn, LoginSets
    <3> HIDE DEF synced
    <3>3. users \in [Users -> User]
      BY <1>4 DEF Rows
    <3>4. QED
      BY <2>1, <3>1, <3>2, <3>3, Synced
  <2>3. sessions' \in Seq(Session)
    <3>1. sessions' = Append(sessions, [user |-> q.target, login |-> q.login, live |-> TRUE])
      BY <1>5 DEF LoggedIn
    <3>2. [user |-> q.target, login |-> q.login, live |-> TRUE] \in Session
      BY <1>3, <2>1 DEF Session
    <3>3. QED
      BY <1>4, <3>1, <3>2 DEF Rows
  <2>4. log' \in Seq(Event)
    <3>1. log' = log \o (IF q.roles # q.mapped THEN <<synced>> ELSE <<>>) \o <<login>>
      BY <1>5 DEF LoggedIn
    <3>2. synced \in Event
      <4>1. {} \in SUBSET Roles /\ q.mapped \ q.roles \in SUBSET Roles /\ q.roles \ q.mapped \in SUBSET Roles
        BY <1>3
      <4>2. Audited(r, "synced") \in Event
        BY AuditedType
      <4>3. synced = SyncedFrom(Audited(r, "synced"), q.mapped \ q.roles, q.roles \ q.mapped)
        BY DEF SyncedFrom
      <4> HIDE DEF synced
      <4>4. QED
        BY <4>1, <4>2, <4>3, SyncedWith
    <3>3. login \in Event
      <4>1. Audited(r, "login") \in Event
        BY AuditedType
      <4>2. q.prev + (IF q.roles # q.mapped THEN 1 ELSE 0) \in Nat /\ Len(sessions) + 1 \in Nat
        BY <1>3, <1>4 DEF Rows
      <4>3. login = LoginFrom(Audited(r, "login"), q.seen, Len(sessions) + 1,
                              q.prev + IF q.roles # q.mapped THEN 1 ELSE 0)
        BY AuditedType DEF LoginFrom
      <4> HIDE DEF login
      <4>4. QED
        BY <1>3, <4>1, <4>2, <4>3, LoginWith
    <3> HIDE DEF synced, login
    <3>4. QED
      BY <1>4, <3>1, <3>2, <3>3 DEF Rows
  <2>5. Rows'
    BY <1>4, <2>1, <2>2, <2>3, <2>4 DEF Rows
  <2>6. QED
    BY <1>2, <2>5, ShapeIs, PTL
<1>6. CASE LoginFailed(r)
  <2>1. Audited(r, "failed") \in Event
    BY AuditedType
  <2>2. Rows'
    BY <1>4, <1>6, <2>1 DEF LoginFailed, Rows
  <2>3. QED
    BY <1>2, <2>2, ShapeIs, PTL
<1>7. CASE UserUpdated(r)
  <2>1. q.target \in Users
    BY <1>3, <1>7 DEF UserUpdated, Commits, Named
  <2>2. users' = UpdateSets(users, q.target, q)
    BY <1>7, Zenon DEF UserUpdated, UpdateSets
  <2>3. users' \in [Users -> User]
    <3>1. q \in Request /\ users \in [Users -> User]
      BY <1>4, RequestFields DEF Rows
    <3>2. QED
      BY <2>1, <2>2, <3>1, Updated
  <2>4. Audited(r, "updated") \in Event
    BY AuditedType
  <2>5. Rows'
    BY <1>4, <1>7, <2>3, <2>4 DEF UserUpdated, Rows
  <2>6. QED
    BY <1>2, <2>5, ShapeIs, PTL
<1>8. CASE TokenCreated(r)
  <2>1. Audited(r, "created") \in Event
    BY AuditedType
  <2>2. Rows'
    <3>1. tokens' \in [Tokens -> {"none", "active", "revoked"}]
      BY <1>4, <1>8 DEF TokenCreated, Rows
    <3>2. log' \in Seq(Event)
      BY <1>4, <1>8, <2>1 DEF TokenCreated, Rows
    <3>3. QED
      BY <1>4, <1>8, <3>1, <3>2 DEF TokenCreated, Rows
  <2>3. QED
    BY <1>2, <2>2, ShapeIs, PTL
<1>9. CASE TokenRevoked(r)
  <2>1. Audited(r, "revoked") \in Event
    BY AuditedType
  <2>2. Rows'
    <3>1. tokens' \in [Tokens -> {"none", "active", "revoked"}]
      BY <1>4, <1>9 DEF TokenRevoked, Rows
    <3>2. log' \in Seq(Event)
      BY <1>4, <1>9, <2>1 DEF TokenRevoked, Rows
    <3>3. QED
      BY <1>4, <1>9, <3>1, <3>2 DEF TokenRevoked, Rows
  <2>3. QED
    BY <1>2, <2>2, ShapeIs, PTL
<1>10. CASE ProviderPut(r)
  <2>1. Audited(r, "provider") \in Event
    BY AuditedType
  <2>2. provider' \in Provider
    BY <1>3, <1>10 DEF ProviderPut, Commits, Named, Provider
  <2>3. Rows'
    BY <1>4, <1>10, <2>1, <2>2 DEF ProviderPut, Rows
  <2>4. QED
    BY <1>2, <2>3, ShapeIs, PTL
<1>11. QED
  BY <1>5, <1>6, <1>7, <1>8, <1>9, <1>10 DEF Committed

(* A request begins or goes on, without a lock: what it is then, and what it knows. *)
Starts(r, q) ==
  /\ ~Running(r) /\ q \in Request /\ Named(q)
  /\ requests' = [requests EXCEPT ![r] = q]
  /\ UNCHANGED <<users, provider, sessions, tokens, log, locks, crashes>>
  /\ q.at = "running" =>
       /\ q.wants = Plan(q)
       /\ IsLogin(q.kind) => LoopFree
       /\ q.kind \in {"callback", "password"} => q.roles = users[q.target].mapped
       /\ q.kind = "create" => tokens[q.token] = "none" /\ \A p \in Requests : requests[p].token # q.token
       /\ q.kind = "revoke" => tokens[q.token] # "none"
  /\ \/ logins' = logins /\ q.login \in {0, requests[r].login}
     \/ \E l \in Logins : logins[l] = "open" /\ logins' = [logins EXCEPT ![l] = "consumed"] /\ q.login = l

LEMMA CallbackStarts ==
  ASSUME Shape, NEW r \in Requests, NEW l \in Logins, Callback(r, l)
  PROVE  \E q : Starts(r, q)
<1> DEFINE mapping == provider.mapping
<1> DEFINE q == [Idle EXCEPT !.at = "remote", !.kind = "callback", !.login = l, !.mapped = mapping]
<1>1. mapping \in SUBSET Roles
  <2>1. provider.mapping \in Mappings
    BY DEF Shape, TypeOK, Provider
  <2>2. QED
    BY <2>1, AccessConstants
<1>2. ~Running(r)
  BY DEF Callback, Fresh, Running
<1>3. /\ requests' = [requests EXCEPT ![r] = q] /\ logins[l] = "open" /\ logins' = [logins EXCEPT ![l] = "consumed"]
      /\ UNCHANGED <<users, provider, sessions, tokens, log, locks, crashes>>
  BY DEF Callback, Usable
<1> HIDE DEF mapping
<1>4. q \in Request /\ q.at = "remote" /\ q.kind = "callback" /\ q.token = NoUser /\ q.login = l
  BY <1>1, IdleFields DEF Request, Kinds
<1> HIDE DEF q
<1>5. Starts(r, q)
  BY <1>2, <1>3, <1>4 DEF Starts, Named
<1>6. QED
  BY <1>5

LEMMA AskDirectoryStarts ==
  ASSUME Shape, NEW r \in Requests, AskDirectory(r)
  PROVE  \E q : Starts(r, q)
<1> DEFINE mapping == provider.mapping
<1> DEFINE q == [Idle EXCEPT !.at = "remote", !.kind = "callback", !.mapped = mapping]
<1>1. mapping \in SUBSET Roles
  <2>1. provider.mapping \in Mappings
    BY DEF Shape, TypeOK, Provider
  <2>2. QED
    BY <2>1, AccessConstants
<1>2. ~Running(r)
  BY DEF AskDirectory, Fresh, Running
<1>3. /\ requests' = [requests EXCEPT ![r] = q] /\ logins' = logins
      /\ UNCHANGED <<users, provider, sessions, tokens, log, locks, crashes>>
  BY DEF AskDirectory
<1> HIDE DEF mapping
<1>4. q \in Request /\ q.at = "remote" /\ q.kind = "callback" /\ q.token = NoUser /\ q.login = 0
  BY <1>1, IdleFields DEF Request, Kinds
<1> HIDE DEF q
<1>5. Starts(r, q)
  BY <1>2, <1>3, <1>4 DEF Starts, Named
<1>6. QED
  BY <1>5

LEMMA LoginWantsType ==
  ASSUME NEW u \in Users, NEW changed
  PROVE  LoginWants(u, changed) \in Seq(Wish)
<1>1. Share(u) \in Wish /\ Write(u) \in Wish /\ AuditLock \in Wish
  BY Wishes
<1>2. CASE changed
  BY <1>1, <1>2 DEF LoginWants
<1>3. CASE ~changed
  BY <1>1, <1>3 DEF LoginWants
<1>4. QED
  BY <1>2, <1>3

LEMMA AnsweredStarts ==
  ASSUME Shape, NEW r \in Requests, Answered(r)
  PROVE  \E q : Starts(r, q)
<1>1. PICK identity \in Identities :
        requests' = [requests EXCEPT ![r] =
          IF Refusable(identity.user) THEN Ended
          ELSE [requests[r] EXCEPT !.at = "running", !.target = identity.user, !.mapped = Desired(r, identity),
                  !.roles = users[identity.user].mapped,
                  !.wants = LoginWants(identity.user, Desired(r, identity) # users[identity.user].mapped)]]
  BY DEF Answered
<1>2. /\ requests[r].at = "remote" /\ LoopFree /\ ~Running(r) /\ logins' = logins
      /\ UNCHANGED <<users, provider, sessions, tokens, log, locks, crashes>>
  BY DEF Answered, Running
<1>3. CASE Refusable(identity.user)
  <2>1. requests' = [requests EXCEPT ![r] = Ended]
    BY <1>1, <1>3
  <2>2. Starts(r, Ended)
    BY <1>2, <2>1, IdleFields DEF Starts
  <2>3. QED
    BY <2>2
<1>4. CASE ~Refusable(identity.user)
  <2> DEFINE u == identity.user
  <2> DEFINE mapped == Desired(r, identity)
  <2> DEFINE wants == LoginWants(u, mapped # users[u].mapped)
  <2>1. u \in Users /\ users[u].mapped \in SUBSET Roles
    BY DEF Identities, Shape, TypeOK, User
  <2>2. mapped \in SUBSET Roles
    BY RequestFields DEF Desired
  <2>3. wants \in Seq(Wish)
    BY <2>1, LoginWantsType
  <2>4. requests[r] \in Request /\ requests[r].kind = "callback" /\ requests[r].login \in Logins \cup {0}
    BY <1>2, RequestFields DEF Shape, Named
  <2> DEFINE roles == users[u].mapped
  <2> DEFINE q == [requests[r] EXCEPT !.at = "running", !.target = u, !.mapped = mapped, !.roles = roles,
                                      !.wants = wants]
  <2>5. requests' = [requests EXCEPT ![r] = q]
    BY <1>1, <1>4
  <2>6. wants = LoginWants(u, mapped # roles)
    OBVIOUS
  <2> HIDE DEF u, mapped, wants, roles
  <2>7. /\ q \in Request /\ q.at = "running" /\ q.kind = "callback" /\ q.target = u /\ q.mapped = mapped
        /\ q.roles = roles /\ q.wants = wants /\ q.login = requests[r].login
    BY <2>1, <2>2, <2>3, <2>4 DEF Request, roles
  <2> HIDE DEF q
  <2>8. Plan(q) = wants
    BY <2>6, <2>7 DEF Plan
  <2>9. Starts(r, q)
    BY <1>2, <2>1, <2>5, <2>7, <2>8 DEF Starts, Named, roles
  <2>10. QED
    BY <2>9
<1>5. QED
  BY <1>3, <1>4

LEMMA RefusedStarts ==
  ASSUME Shape, NEW r \in Requests, Refused(r)
  PROVE  \E q : Starts(r, q)
<1> DEFINE q == [Idle EXCEPT !.at = "running", !.kind = "failed", !.wants = <<AuditLock>>]
<1>1. <<AuditLock>> \in Seq(Wish)
  BY Wishes
<1>2. q \in Request /\ q.at = "running" /\ q.kind = "failed" /\ q.login = 0 /\ q.wants = <<AuditLock>>
  BY <1>1 DEF Idle, Request, Kinds
<1>3. ~Running(r) /\ LoopFree
  BY DEF Refused, Running
<1>4. /\ requests' = [requests EXCEPT ![r] = q] /\ logins' = logins
      /\ UNCHANGED <<users, provider, sessions, tokens, log, locks, crashes>>
  BY DEF Refused
<1> HIDE DEF q
<1>5. Starts(r, q)
  BY <1>2, <1>3, <1>4 DEF Starts, Named, Plan
<1>6. QED
  BY <1>5

LEMMA PasswordStarts ==
  ASSUME Shape, NEW r \in Requests, NEW u \in Users, PasswordLogin(r, u)
  PROVE  \E q : Starts(r, q)
<1> DEFINE mapped == users[u].mapped
<1> DEFINE wants == LoginWants(u, FALSE)
<1> DEFINE q == [Idle EXCEPT !.at = "running", !.kind = "password", !.target = u, !.mapped = mapped,
                             !.roles = mapped, !.wants = wants]
<1>1. mapped \in SUBSET Roles /\ wants \in Seq(Wish)
  <2>1. mapped \in SUBSET Roles
    BY DEF Shape, TypeOK, User
  <2>2. QED
    BY <2>1, LoginWantsType
<1>2. ~Running(r) /\ LoopFree
  BY DEF PasswordLogin, Fresh, Running
<1>3. /\ requests' = [requests EXCEPT ![r] = q] /\ logins' = logins
      /\ UNCHANGED <<users, provider, sessions, tokens, log, locks, crashes>>
  BY DEF PasswordLogin
<1> HIDE DEF wants
<1>4. /\ q \in Request /\ q.at = "running" /\ q.kind = "password" /\ q.login = 0 /\ q.target = u
      /\ q.mapped = mapped /\ q.roles = mapped /\ q.wants = wants
  BY <1>1 DEF Idle, Request, Kinds
<1> HIDE DEF q
<1>5. Plan(q) = wants
  BY <1>4 DEF Plan, LoginWants, wants
<1>6. Starts(r, q)
  BY <1>2, <1>3, <1>4, <1>5 DEF Starts, Named
<1>7. QED
  BY <1>6

LEMMA AdministerStarts ==
  ASSUME Shape, NEW r \in Requests, Administer(r)
  PROVE  \E q : Starts(r, q)
<1>1. PICK actor \in Users :
        \/ \E u \in Users : UpdateUser(r, actor, u)
        \/ \E t \in Tokens : CreateToken(r, actor, t) \/ RevokeToken(r, actor, t)
        \/ PutProvider(r, actor)
  BY DEF Administer, Principals
<1>2. ASSUME NEW q, Begin(r, q)
      PROVE  /\ ~Running(r) /\ requests' = [requests EXCEPT ![r] = q] /\ logins' = logins
             /\ UNCHANGED <<users, provider, sessions, tokens, log, locks, crashes>>
  BY <1>2 DEF Begin, Fresh, Running
<1>3. CASE \E u \in Users : UpdateUser(r, actor, u)
  <2>1. PICK u \in Users, active \in BOOLEAN, roles \in SUBSET Roles :
          Begin(r, [Idle EXCEPT !.at = "running", !.kind = "update", !.actor = actor, !.target = u,
                                !.active = active, !.roles = roles, !.seen = users[u].manual,
                                !.wants = UpdateWants(u, actor)])
    BY <1>3 DEF UpdateUser
  <2> DEFINE seen == users[u].manual
  <2> DEFINE wants == UpdateWants(u, actor)
  <2> DEFINE q == [Idle EXCEPT !.at = "running", !.kind = "update", !.actor = actor, !.target = u,
                               !.active = active, !.roles = roles, !.seen = seen, !.wants = wants]
  <2>2. seen \in SUBSET Roles /\ wants \in Seq(Wish)
    BY Wishes DEF Shape, TypeOK, User, UpdateWants
  <2>3. Begin(r, q)
    BY <2>1
  <2> HIDE DEF seen, wants
  <2>4. /\ q \in Request /\ q.at = "running" /\ q.kind = "update" /\ q.login = 0 /\ q.target = u
        /\ q.actor = actor /\ q.wants = wants
    BY <2>2 DEF Idle, Request, Kinds
  <2> HIDE DEF q
  <2>5. Starts(r, q)
    BY <1>2, <2>3, <2>4 DEF Starts, Named, Plan, wants, IsLogin
  <2>6. QED
    BY <2>5
<1>4. CASE \E t \in Tokens : CreateToken(r, actor, t)
  <2>1. PICK t \in Tokens : CreateToken(r, actor, t)
    BY <1>4
  <2> DEFINE wants == <<Share(actor), AuditLock>>
  <2> DEFINE q == [Idle EXCEPT !.at = "running", !.kind = "create", !.actor = actor, !.token = t, !.wants = wants]
  <2>2. wants \in Seq(Wish)
    BY Wishes
  <2>3. Begin(r, q) /\ tokens[t] = "none" /\ \A p \in Requests : requests[p].token # t
    BY <2>1 DEF CreateToken
  <2> HIDE DEF wants
  <2>4. /\ q \in Request /\ q.at = "running" /\ q.kind = "create" /\ q.login = 0 /\ q.token = t
        /\ q.actor = actor /\ q.wants = wants
    BY <2>2 DEF Idle, Request, Kinds
  <2> HIDE DEF q
  <2>5. Starts(r, q)
    BY <1>2, <2>3, <2>4 DEF Starts, Named, Plan, wants, IsLogin
  <2>6. QED
    BY <2>5
<1>5. CASE \E t \in Tokens : RevokeToken(r, actor, t)
  <2>1. PICK t \in Tokens : RevokeToken(r, actor, t)
    BY <1>5
  <2> DEFINE wants == <<Own(t), AuditLock, Share(actor)>>
  <2> DEFINE q == [Idle EXCEPT !.at = "running", !.kind = "revoke", !.actor = actor, !.token = t, !.wants = wants]
  <2>2. wants \in Seq(Wish)
    BY Wishes
  <2>3. Begin(r, q) /\ tokens[t] # "none"
    BY <2>1 DEF RevokeToken
  <2> HIDE DEF wants
  <2>4. /\ q \in Request /\ q.at = "running" /\ q.kind = "revoke" /\ q.login = 0 /\ q.token = t
        /\ q.actor = actor /\ q.wants = wants
    BY <2>2 DEF Idle, Request, Kinds
  <2> HIDE DEF q
  <2>5. Starts(r, q)
    BY <1>2, <2>3, <2>4 DEF Starts, Named, Plan, wants, IsLogin
  <2>6. QED
    BY <2>5
<1>6. CASE PutProvider(r, actor)
  <2>1. PICK enabled \in BOOLEAN, mapping \in Mappings :
          Begin(r, [Idle EXCEPT !.at = "running", !.kind = "provider", !.actor = actor, !.active = enabled,
                                !.mapped = mapping, !.wants = <<AuditLock, Write(Directory), Share(actor)>>])
    BY <1>6 DEF PutProvider
  <2> DEFINE wants == <<AuditLock, Write(Directory), Share(actor)>>
  <2> DEFINE q == [Idle EXCEPT !.at = "running", !.kind = "provider", !.actor = actor, !.active = enabled,
                               !.mapped = mapping, !.wants = wants]
  <2>2. mapping \in SUBSET Roles /\ wants \in Seq(Wish)
    BY AccessConstants, Wishes
  <2>3. Begin(r, q)
    BY <2>1
  <2> HIDE DEF wants
  <2>4. /\ q \in Request /\ q.at = "running" /\ q.kind = "provider" /\ q.login = 0 /\ q.token = NoUser
        /\ q.actor = actor /\ q.mapped = mapping /\ q.wants = wants
    BY <2>2 DEF Idle, Request, Kinds
  <2> HIDE DEF q
  <2>5. Starts(r, q)
    BY <1>2, <2>3, <2>4 DEF Starts, Named, Plan, wants, IsLogin
  <2>6. QED
    BY <2>5
<1>7. QED
  BY <1>1, <1>3, <1>4, <1>5, <1>6

(* A row of auth_login_transaction that no callback has used yet. *)
LoginMoves ==
  /\ \E l \in Logins, now \in {"asking", "open", "gone"} :
       logins[l] # "consumed" /\ logins' = [logins EXCEPT ![l] = now]
  /\ UNCHANGED <<users, provider, sessions, tokens, log, requests, locks, crashes>>

(* The steps, as the invariants tell them apart. *)
LEMMA Steps ==
  ASSUME Shape, [Next]_vars
  PROVE  \/ UNCHANGED vars \/ LoginMoves \/ Crash
         \/ \E s \in DOMAIN sessions : Logout(s)
         \/ \E r \in Requests : (\E q : Starts(r, q)) \/ Acquire(r) \/ Aborted(r) \/ Committed(r)
<1>1. ASSUME NEW l \in Logins, StartLogin(l) \/ LoginStarted(l) \/ LoginExpires(l)
      PROVE  LoginMoves
  BY <1>1 DEF StartLogin, LoginStarted, LoginExpires, LoginMoves
<1>2. ASSUME NEW r \in Requests,
             \/ \E l \in Logins : Callback(r, l)
             \/ AskDirectory(r) \/ Answered(r) \/ Refused(r) \/ Administer(r)
             \/ \E u \in Users : PasswordLogin(r, u)
      PROVE  \E q : Starts(r, q)
  BY <1>2, CallbackStarts, AskDirectoryStarts, AnsweredStarts, RefusedStarts, PasswordStarts, AdministerStarts
<1>3. QED
  BY <1>1, <1>2 DEF Next

LEMMA ShapeStep ==
  ASSUME Shape, [Next]_vars
  PROVE  Shape'
<1>1. CASE UNCHANGED vars
  BY <1>1 DEF vars, Shape, TypeOK
<1>2. CASE LoginMoves
  <2>1. Rows' /\ RequestRows'
    BY <1>2, ShapeIs DEF LoginMoves, Rows, RequestRows
  <2>2. QED
    BY <2>1, ShapeIs, PTL
<1>3. CASE Crash
  <2>1. Rows'
    <3>1. Rows /\ UNCHANGED <<users, provider, sessions, tokens, log>>
      BY <1>3, ShapeIs DEF Crash
    <3>2. logins' \in [Logins -> {"none", "asking", "open", "consumed", "gone"}]
      <4>1. logins' = [l \in Logins |-> IF logins[l] = "asking" THEN "gone" ELSE logins[l]]
        BY <1>3 DEF Crash
      <4>2. QED
        BY <3>1, <4>1 DEF Rows
    <3>3. crashes' \in 0 .. MaxCrashes
      BY <1>3, <3>1, AccessAssumption DEF Crash, Rows
    <3>4. QED
      BY <3>1, <3>2, <3>3 DEF Rows
  <2>2. RequestRows'
    BY <1>3, ShapeIs, IdleFields DEF Crash, RequestRows
  <2>3. QED
    BY <2>1, <2>2, ShapeIs, PTL
<1>4. ASSUME NEW s \in DOMAIN sessions, Logout(s)
      PROVE  Shape'
  <2>1. sessions \in Seq(Session) /\ sessions[s] \in Session
    BY ShapeIs DEF Rows
  <2>2. sessions' = [sessions EXCEPT ![s] = [sessions[s] EXCEPT !.live = FALSE]]
    BY <1>4 DEF Logout
  <2>3. [sessions[s] EXCEPT !.live = FALSE] \in Session
    BY <2>1 DEF Session
  <2>4. sessions' \in Seq(Session)
    BY <2>1, <2>2, <2>3, ExceptSeq
  <2>5. Rows' /\ RequestRows'
    BY <1>4, <2>4, ShapeIs DEF Logout, Rows, RequestRows
  <2>6. QED
    BY <2>5, ShapeIs, PTL
<1>5. ASSUME NEW r \in Requests, NEW q, Starts(r, q)
      PROVE  Shape'
  <2>1. RequestRows'
    BY <1>5, Begun DEF Starts, RequestRows
  <2>2. Rows'
    BY <1>5, ShapeIs DEF Starts, Rows
  <2>3. QED
    BY <2>1, <2>2, ShapeIs, PTL
<1>6. ASSUME NEW r \in Requests, Aborted(r)
      PROVE  Shape'
  <2>1. RequestRows'
    BY <1>6, Released DEF Aborted, RequestRows
  <2>2. Rows'
    BY <1>6, ShapeIs DEF Aborted, Rows
  <2>3. QED
    BY <2>1, <2>2, ShapeIs, PTL
<1>7. QED
  BY <1>1, <1>2, <1>3, <1>4, <1>5, <1>6, Steps, AcquireShape, CommitShape

(* The administrators of Start, as the sessions they have. *)
Administrators == {u \in Users : Start[u].exists /\ Admin \in Start[u].manual}

LEMMA SetToSeqIs ==
  ASSUME NEW S, IsFiniteSet(S)
  PROVE  SetToSeq(S) \in Seq(S) /\ Len(SetToSeq(S)) = Cardinality(S)
<1>1. Cardinality(S) \in Nat /\ \E f : f \in Bijection(1 .. Cardinality(S), S)
  BY FS_CardinalityType DEF ExistsBijection
<1>2. PICK f : f \in Bijection(1 .. Cardinality(S), S)
  BY <1>1
<1>3. f \in [1 .. Cardinality(S) -> S] /\ IsInjective(f)
  BY <1>2, Zenon DEF Bijection, Injection, IsInjective
<1>4. SetToSeq(S) \in [1 .. Cardinality(S) -> S]
  BY <1>3 DEF SetToSeq
<1>5. QED
  BY <1>1, <1>4

LEMMA FirstSessions ==
  ASSUME Init
  PROVE  /\ sessions \in Seq(Session) /\ Len(sessions) = Started
         /\ \A s \in DOMAIN sessions : sessions[s].login = 0
<1> DEFINE F == [u \in Administrators |-> [user |-> u, login |-> 0, live |-> TRUE]]
<1> DEFINE S == {[user |-> u, login |-> 0, live |-> TRUE] : u \in Administrators}
<1>1. IsFiniteSet(Administrators) /\ Administrators \subseteq Users
  BY AccessConstants, FS_Subset DEF Administrators
<1>2. F \in Bijection(Administrators, S)
  <2>1. F \in [Administrators -> S]
    OBVIOUS
  <2>2. \A u, v \in Administrators : F[u] = F[v] => u = v
    OBVIOUS
  <2>3. \A s \in S : \E u \in Administrators : F[u] = s
    OBVIOUS
  <2>4. QED
    BY <2>1, <2>2, <2>3, Fun_IsBij
<1>3. IsFiniteSet(S) /\ Cardinality(S) = Cardinality(Administrators)
  BY <1>1, <1>2, FS_Bijection DEF ExistsBijection
<1>4. sessions = SetToSeq(S) /\ Started = Len(SetToSeq(Administrators))
  BY DEF Init, Started, Administrators
<1>5. S \subseteq Session /\ \A s \in S : s.login = 0
  <2>1. ASSUME NEW u \in Administrators
        PROVE  [user |-> u, login |-> 0, live |-> TRUE] \in Session
    BY <1>1 DEF Session
  <2>2. QED
    BY <2>1
<1> HIDE DEF S
<1>6. sessions \in Seq(S) /\ Len(sessions) = Started
  BY <1>1, <1>3, <1>4, SetToSeqIs
<1>7. QED
  BY <1>5, <1>6

LEMMA ShapeInit ==
  ASSUME Init
  PROVE  Shape
<1>1. Rows
  <2>1. users \in [Users -> User] /\ sessions \in Seq(Session)
    BY FirstSessions, AccessConstants DEF Init
  <2>2. provider \in Provider
    BY DEF Init, Provider
  <2>3. logins \in [Logins -> {"none"}] /\ tokens \in [Tokens -> {"none"}] /\ log \in Seq(Event)
    BY DEF Init
  <2>4. crashes \in 0 .. MaxCrashes
    BY AccessAssumption DEF Init
  <2>5. QED
    BY <2>1, <2>2, <2>3, <2>4 DEF Rows
<1>2. RequestRows
  BY IdleFields DEF Init, RequestRows
<1>3. QED
  BY <1>1, <1>2, ShapeIs

(* Access keeps its types. *)
THEOREM AccessTypes == Spec => []TypeOK
<1>1. Init => Shape
  BY ShapeInit
<1>2. Shape /\ [Next]_vars => Shape'
  BY ShapeStep
<1>3. Shape => TypeOK
  BY DEF Shape
<1>4. QED
  BY <1>1, <1>2, <1>3, PTL DEF Spec

-----------------------------------------------------------------------------
(* Locks. *)

LEMMA TakenNext ==
  ASSUME NEW q \in Request, Named(q), q.at = "running", q.wants # <<>>, NEW n \in 0 .. Len(Plan(q)),
         q.wants = SubSeq(Plan(q), n + 1, Len(Plan(q)))
  PROVE  /\ n + 1 \in 1 .. Len(Plan(q)) /\ Head(q.wants) = Plan(q)[n + 1]
         /\ Tail(q.wants) = SubSeq(Plan(q), n + 2, Len(Plan(q)))
<1> DEFINE plan == Plan(q)
<1>1. plan \in Seq(Wish) /\ Len(plan) \in Nat
  BY PlanType
<1> HIDE DEF plan
<1>2. q.wants = SubSeq(plan, n + 1, Len(plan))
  BY DEF plan
<1>3. n \in 0 .. Len(plan)
  BY DEF plan
<1>4. n # Len(plan)
  BY <1>1, <1>2, <1>3, SubSeqEmpty
<1>5. n + 1 \in 1 .. Len(plan)
  BY <1>1, <1>3, <1>4
<1>6. Head(q.wants) = plan[n + 1] /\ Tail(q.wants) = SubSeq(plan, (n + 1) + 1, Len(plan))
  <2>1. ASSUME NEW m \in 1 .. Len(plan)
        PROVE  /\ Head(SubSeq(plan, m, Len(plan))) = plan[m]
               /\ Tail(SubSeq(plan, m, Len(plan))) = SubSeq(plan, m + 1, Len(plan))
    <3>1. Len(plan) \in m .. Len(plan)
      BY <1>1
    <3>2. QED
      BY <1>1, <3>1, HeadTailOfSubSeq
  <2>2. QED
    BY <1>2, <1>5, <2>1, Zenon
<1>7. QED
  BY <1>3, <1>5, <1>6 DEF plan

LEMMA HoldsSame ==
  ASSUME NEW r, \A l : l.by = r => (l \in locks <=> l \in locks')
  PROVE  Holds(r)' = Holds(r)
BY DEF Holds

LEMMA HoldsReleased ==
  ASSUME NEW r, locks' = Release(r)
  PROVE  Holds(r)' = {} /\ \A q : q # r => Holds(q)' = Holds(q)
BY DEF Holds, Release

LEMMA HoldsMore ==
  ASSUME NEW r, NEW wish \in Wish, locks' = locks \cup {[by |-> r, on |-> wish.on, mode |-> wish.mode]}
  PROVE  Holds(r)' = Holds(r) \cup {wish} /\ \A q : q # r => Holds(q)' = Holds(q)
<1>1. \A w \in Wish : w = [on |-> w.on, mode |-> w.mode]
  BY DEF Wish
<1>2. \A w \in Wish : [by |-> r, on |-> w.on, mode |-> w.mode] = [by |-> r, on |-> wish.on, mode |-> wish.mode] => w = wish
  BY <1>1
<1>3. Holds(r)' = Holds(r) \cup {wish}
  BY <1>2 DEF Holds
<1>4. \A q : q # r => Holds(q)' = Holds(q)
  BY DEF Holds
<1>5. QED
  BY <1>3, <1>4

(* The next lock is taken. *)
LEMMA NextTaken ==
  ASSUME NEW q \in Request, Named(q), q.at = "running", q.wants # <<>>, NEW holds, NEW state, NEW read,
         InOrder(q, holds, state), ReadTrue(q, Head(q.wants), read), state = tokens,
         q.kind = "revoke" => tokens[q.token] \in {"active", "revoked"}
  PROVE  InOrder(read, holds \cup {Head(q.wants)}, state)
<1>1. PICK n \in 0 .. Len(Plan(q)) : Taken(q, holds, n)
  BY DEF InOrder, NothingToRevoke
<1> DEFINE plan == Plan(q)
<1>2. /\ n + 1 \in 1 .. Len(plan) /\ Head(q.wants) = plan[n + 1] /\ n \in Nat
      /\ Tail(q.wants) = SubSeq(plan, n + 2, Len(plan)) /\ holds = {plan[k] : k \in 1 .. n}
  BY <1>1, TakenNext DEF Taken
<1>3. Plan(read) = plan /\ read.at = "running"
  BY DEF ReadTrue, Plan
<1>4. CASE read.wants = Tail(q.wants)
  <2> HIDE DEF plan
  <2>1. holds \cup {Head(q.wants)} = {plan[k] : k \in 1 .. (n + 1)}
    BY <1>2
  <2>2. Taken(read, holds \cup {Head(q.wants)}, n + 1)
    BY <1>2, <1>3, <1>4, <2>1 DEF Taken
  <2>3. n + 1 \in 0 .. Len(Plan(read))
    BY <1>2, <1>3
  <2>4. QED
    BY <1>3, <2>2, <2>3 DEF InOrder
<1>5. CASE /\ read.wants = <<>> /\ q.kind = "revoke" /\ Head(q.wants) = Own(q.token)
           /\ tokens[q.token] # "active"
  <2>1. plan = <<Own(q.token), AuditLock, Share(q.actor)>>
    BY <1>5 DEF Plan
  <2>2. q.token # Audit
    BY <1>5, AccessConstants DEF Named
  <2>3. Own(q.token) # AuditLock /\ Own(q.token) # Share(q.actor)
    BY <2>2 DEF Own, Share, AuditLock
  <2>4. n = 0
    BY <1>2, <1>5, <2>1, <2>3
  <2>5. holds \cup {Head(q.wants)} = {Own(q.token)}
    BY <1>2, <1>5, <2>4
  <2>6. NothingToRevoke(read, holds \cup {Head(q.wants)}, state)
    BY <1>5, <2>5 DEF ReadTrue, NothingToRevoke
  <2>7. QED
    BY <1>3, <2>6 DEF InOrder
<1>6. QED
  BY <1>4, <1>5 DEF ReadTrue

(* What a commit does to the tokens. *)
LEMMA CommitTokens ==
  ASSUME Shape, NEW r \in Requests, Committed(r)
  PROVE  /\ Running(r) /\ requests' = [requests EXCEPT ![r] = Ended] /\ locks' = Release(r)
         /\ \/ tokens' = tokens
            \/ /\ requests[r].kind \in {"create", "revoke"} /\ requests[r].token \in Tokens
               /\ tokens' = [tokens EXCEPT ![requests[r].token] =
                               IF requests[r].kind = "create" THEN "active" ELSE "revoked"]
<1>1. /\ Running(r) /\ requests' = [requests EXCEPT ![r] = Ended] /\ locks' = Release(r)
  BY DEF Committed, LoggedIn, LoginFailed, UserUpdated, TokenCreated, TokenRevoked, ProviderPut, Commits, Running
<1>2. Named(requests[r])
  BY DEF Shape
<1>3. CASE LoggedIn(r) \/ LoginFailed(r) \/ UserUpdated(r) \/ ProviderPut(r)
  BY <1>1, <1>3 DEF LoggedIn, LoginFailed, UserUpdated, ProviderPut
<1>4. CASE TokenCreated(r)
  <2>1. requests[r].kind = "create" /\ tokens' = [tokens EXCEPT ![requests[r].token] = "active"]
    BY <1>4 DEF TokenCreated, Commits
  <2>2. QED
    BY <1>1, <1>2, <2>1 DEF Named, Running
<1>5. CASE TokenRevoked(r)
  <2>1. requests[r].kind = "revoke" /\ tokens' = [tokens EXCEPT ![requests[r].token] = "revoked"]
    BY <1>5 DEF TokenRevoked, Commits
  <2>2. QED
    BY <1>1, <1>2, <2>1 DEF Named, Running
<1>6. QED
  BY <1>3, <1>4, <1>5 DEF Committed

(* What the locks and the tokens have to obey, but for the types. *)
LockRules == Ordered /\ Mutex /\ OneLogin /\ TokensTrue

LEMMA LocksIs == LocksInv <=> Shape /\ LockRules
BY DEF LocksInv, LockRules

LEMMA QuietLocks ==
  ASSUME LocksInv, UNCHANGED <<requests, tokens, locks>>
  PROVE  LockRules'
BY HoldsSame DEF LocksInv, LockRules, Ordered, Mutex, OneLogin, TokensTrue, Running

LEMMA CrashLocks ==
  ASSUME LocksInv, Crash
  PROVE  LockRules'
<1>1. \A r \in Requests : requests'[r].at # "running"
  BY IdleFields DEF Crash
<1>2. locks' = {}
  BY DEF Crash
<1>3. Ordered'
  BY <1>1, <1>2 DEF Ordered, InOrder, Holds
<1>4. QED
  BY <1>1, <1>2, <1>3 DEF LockRules, Mutex, OneLogin, TokensTrue, Running

LEMMA StartLocks ==
  ASSUME LocksInv, NEW r \in Requests, NEW q, Starts(r, q)
  PROVE  LockRules'
<1>1. /\ ~Running(r) /\ q \in Request /\ Named(q) /\ requests' = [requests EXCEPT ![r] = q]
      /\ tokens' = tokens /\ locks' = locks
  BY DEF Starts
<1>2. requests'[r] = q /\ \A p \in Requests : p # r => requests'[p] = requests[p]
  BY <1>1, RequestsSet DEF LocksInv
<1>3. \A p : Holds(p)' = Holds(p)
  BY <1>1, HoldsSame
<1>4. Ordered'
  <2>1. InOrder(q, Holds(r), tokens)
    <3>1. Holds(r) = {}
      BY <1>1 DEF LocksInv, Ordered, InOrder, Running
    <3>2. CASE q.at = "running"
      <4>1. Plan(q) \in Seq(Wish) /\ Len(Plan(q)) \in Nat /\ q.wants = Plan(q)
        BY <1>1, <3>2, PlanType DEF Starts
      <4>2. SubSeq(Plan(q), 1, Len(Plan(q))) = Plan(q)
        BY <4>1, SubSeqFull
      <4>3. {Plan(q)[k] : k \in 1 .. 0} = {}
        OBVIOUS
      <4>4. Taken(q, Holds(r), 0)
        BY <3>1, <4>1, <4>2, <4>3 DEF Taken
      <4>5. 0 \in 0 .. Len(Plan(q))
        BY <4>1
      <4>6. QED
        BY <3>2, <4>4, <4>5 DEF InOrder
    <3>3. QED
      BY <3>1, <3>2 DEF InOrder
  <2>2. \A p \in Requests : p # r => InOrder(requests'[p], Holds(p), tokens)
    BY <1>2 DEF LocksInv, Ordered
  <2>3. \A p \in Requests : InOrder(requests'[p], Holds(p), tokens)
    BY <1>2, <2>1, <2>2
  <2>4. QED
    BY <1>1, <1>3, <2>3 DEF Ordered
<1>5. Mutex'
  BY <1>1 DEF LocksInv, Mutex
<1>6. OneLogin'
  <2>1. q.at = "running" /\ IsLogin(q.kind) => LoopFree
    BY DEF Starts
  <2>2. SUFFICES ASSUME NEW p \in Requests, NEW o \in Requests, Running(p)', Running(o)',
                        IsLogin(requests'[p].kind), IsLogin(requests'[o].kind)
                 PROVE  p = o
    BY DEF OneLogin
  <2>3. CASE p # r /\ o # r
    BY <1>2, <2>2, <2>3 DEF LocksInv, OneLogin, Running
  <2>4. CASE p = r \/ o = r
    BY <1>2, <2>1, <2>2, <2>4 DEF LoopFree, Running
  <2>5. QED
    BY <2>3, <2>4
<1>7. TokensTrue'
  <2>1. /\ q.at = "running" /\ q.kind = "create" =>
              tokens[q.token] = "none" /\ \A p \in Requests : requests[p].token # q.token
        /\ q.at = "running" /\ q.kind = "revoke" => tokens[q.token] # "none"
    BY DEF Starts
  <2>2. \A p \in Requests : Running(p)' => Running(p) \/ p = r
    BY <1>2 DEF Running
  <2>3. SUFFICES ASSUME NEW p \in Requests, requests'[p].at = "running"
                 PROVE  /\ requests'[p].kind = "create" =>
                             /\ tokens[requests'[p].token] = "none"
                             /\ \A o \in Requests :
                                  /\ o # p /\ requests'[o].at = "running"
                                  /\ requests'[o].kind \in {"create", "revoke"}
                                  => requests'[o].token # requests'[p].token
                        /\ requests'[p].kind = "revoke" => tokens[requests'[p].token] # "none"
    BY <1>1 DEF TokensTrue, Running
  <2>4. CASE p = r
    BY <1>2, <2>1, <2>3, <2>4
  <2>5. CASE p # r
    <3>1. /\ requests[p].kind = "create" =>
               /\ tokens[requests[p].token] = "none"
               /\ \A o \in Requests :
                    o # p /\ Running(o) /\ requests[o].kind \in {"create", "revoke"} =>
                      requests[o].token # requests[p].token
          /\ requests[p].kind = "revoke" => tokens[requests[p].token] # "none"
      BY <1>2, <2>3, <2>5 DEF LocksInv, TokensTrue, Running
    <3>2. ASSUME requests[p].kind = "create", q.at = "running", q.kind \in {"create", "revoke"}
          PROVE  q.token # requests[p].token
      BY <2>1, <3>1, <3>2
    <3>3. QED
      BY <1>2, <2>5, <3>1, <3>2 DEF Running
  <2>6. QED
    BY <2>4, <2>5
<1>8. QED
  BY <1>4, <1>5, <1>6, <1>7 DEF LockRules

LEMMA AcquireLocks ==
  ASSUME LocksInv, NEW r \in Requests, Acquire(r)
  PROVE  LockRules'
<1> DEFINE q == requests[r]
<1> DEFINE wish == Head(q.wants)
<1> DEFINE read == Read(r, wish)
<1>1. /\ Running(r) /\ q.wants # <<>> /\ Holders(r, wish) = {} /\ requests' = [requests EXCEPT ![r] = read]
      /\ locks' = locks \cup {[by |-> r, on |-> wish.on, mode |-> wish.mode]} /\ tokens' = tokens
  BY DEF Acquire, Running
<1>2. ReadTrue(q, wish, read)
  BY <1>1, ReadIs DEF LocksInv
<1>3. wish \in Wish /\ q \in Request /\ Named(q) /\ q.at = "running" /\ read \in Request /\ Named(read)
  BY <1>1, <1>2, RequestFields DEF LocksInv, Shape, Running, ReadTrue
<1> HIDE DEF read
<1>4. requests'[r] = read /\ \A p \in Requests : p # r => requests'[p] = requests[p]
  BY <1>1, <1>3, RequestsSet DEF LocksInv
<1>5. Holds(r)' = Holds(r) \cup {wish} /\ \A p : p # r => Holds(p)' = Holds(p)
  <2> HIDE DEF wish
  <2>1. QED
    BY <1>1, <1>3, HoldsMore
<1>6. Ordered'
  <2>1. q.kind = "revoke" => tokens[q.token] \in {"active", "revoked"}
    <3>1. q.kind = "revoke" => q.token \in Tokens
      BY <1>3 DEF Named
    <3>2. q.kind = "revoke" => tokens[q.token] # "none"
      BY <1>1 DEF LocksInv, TokensTrue
    <3>3. QED
      BY <3>1, <3>2 DEF LocksInv, Shape, TypeOK
  <2>2. InOrder(q, Holds(r), tokens)
    BY DEF LocksInv, Ordered
  <2>3. InOrder(read, Holds(r) \cup {wish}, tokens)
    BY <1>1, <1>2, <1>3, <2>1, <2>2, NextTaken
  <2> HIDE DEF wish, q
  <2>4. \A p \in Requests : InOrder(requests'[p], Holds(p)', tokens)
    BY <1>4, <1>5, <2>3 DEF LocksInv, Ordered
  <2>5. QED
    BY <1>1, <2>4 DEF Ordered
<1> HIDE DEF wish, q
<1>7. Mutex'
  <2>1. \A l \in locks : l.by # r /\ l.on = wish.on => ~Conflict(l.mode, wish.mode)
    BY <1>1 DEF Holders
  <2>2. \A m, n : Conflict(m, n) <=> Conflict(n, m)
    BY DEF Conflict
  <2> DEFINE lock == [by |-> r, on |-> wish.on, mode |-> wish.mode]
  <2>3. lock.by = r /\ lock.on = wish.on /\ lock.mode = wish.mode
    OBVIOUS
  <2> HIDE DEF lock
  <2>4. locks' = locks \cup {lock}
    BY <1>1 DEF lock
  <2>5. QED
    BY <2>1, <2>2, <2>3, <2>4 DEF LocksInv, Mutex
<1>8. \A p \in Requests : /\ requests'[p].at = requests[p].at /\ requests'[p].kind = requests[p].kind
                          /\ requests'[p].token = requests[p].token
  BY <1>2, <1>4 DEF ReadTrue, q
<1>9. OneLogin'
  BY <1>8 DEF LocksInv, OneLogin, Running
<1>10. TokensTrue'
  BY <1>1, <1>8 DEF LocksInv, TokensTrue, Running
<1>11. QED
  BY <1>6, <1>7, <1>9, <1>10 DEF LockRules

LEMMA LeaveLocks ==
  ASSUME LocksInv, NEW r \in Requests, Aborted(r) \/ Committed(r)
  PROVE  LockRules'
<1>1. /\ requests' = [requests EXCEPT ![r] = Ended] /\ locks' = Release(r)
      /\ \/ tokens' = tokens
         \/ /\ requests[r].kind \in {"create", "revoke"} /\ requests[r].token \in Tokens
            /\ Running(r)
            /\ tokens' = [tokens EXCEPT ![requests[r].token] =
                            IF requests[r].kind = "create" THEN "active" ELSE "revoked"]
  BY CommitTokens DEF Aborted, LocksInv
<1>2. requests'[r] = Ended /\ \A p \in Requests : p # r => requests'[p] = requests[p]
  BY <1>1, IdleFields, RequestsSet DEF LocksInv
<1>3. ~Running(r)'
  BY <1>2, IdleFields DEF Running
<1>4. Holds(r)' = {} /\ \A p : p # r => Holds(p)' = Holds(p)
  BY <1>1, HoldsReleased
<1>5. \A p \in Requests :
        /\ p # r /\ Running(p) /\ requests[p].kind = "create" => tokens'[requests[p].token] = "none"
        /\ p # r /\ Running(p) /\ requests[p].kind = "revoke" =>
             /\ tokens'[requests[p].token] # "none"
             /\ tokens[requests[p].token] = "revoked" => tokens'[requests[p].token] = "revoked"
  <2>1. TokensTrue /\ tokens \in [Tokens -> {"none", "active", "revoked"}]
    BY DEF LocksInv, Shape, TypeOK
  <2>2. CASE tokens' = tokens
    BY <2>1, <2>2 DEF TokensTrue
  <2>3. CASE /\ requests[r].kind \in {"create", "revoke"} /\ requests[r].token \in Tokens
             /\ Running(r)
             /\ tokens' = [tokens EXCEPT ![requests[r].token] =
                             IF requests[r].kind = "create" THEN "active" ELSE "revoked"]
    <3>1. /\ tokens'[requests[r].token] = IF requests[r].kind = "create" THEN "active" ELSE "revoked"
          /\ \A t : t # requests[r].token => tokens'[t] = tokens[t]
      BY <2>1, <2>3
    <3>2. requests[r].kind = "create" => tokens[requests[r].token] = "none"
      BY <2>1, <2>3 DEF TokensTrue
    <3>3. \A p \in Requests : p # r /\ Running(p) /\ requests[p].kind = "create" =>
            requests[r].token # requests[p].token
      BY <2>1, <2>3 DEF TokensTrue
    <3>4. QED
      BY <2>1, <3>1, <3>2, <3>3 DEF TokensTrue
  <2>4. QED
    BY <1>1, <2>2, <2>3
<1>6. Ordered'
  <2>1. InOrder(Ended, {}, tokens')
    BY IdleFields DEF InOrder
  <2>2. \A p \in Requests : p # r => InOrder(requests[p], Holds(p), tokens')
    BY <1>5 DEF LocksInv, Ordered, InOrder, NothingToRevoke, Running
  <2>3. \A p \in Requests : InOrder(requests'[p], Holds(p)', tokens')
    BY <1>2, <1>4, <2>1, <2>2
  <2>4. QED
    BY <2>3 DEF Ordered
<1>7. Mutex'
  BY <1>1 DEF LocksInv, Mutex, Release
<1>8. OneLogin'
  BY <1>2, <1>3 DEF LocksInv, OneLogin, Running
<1>9. TokensTrue'
  BY <1>2, <1>3, <1>5 DEF LocksInv, TokensTrue, Running
<1>10. QED
  BY <1>6, <1>7, <1>8, <1>9 DEF LockRules

LEMMA LocksStep ==
  ASSUME LocksInv, [Next]_vars
  PROVE  LocksInv'
<1>1. Shape
  BY DEF LocksInv
<1>2. LockRules'
  <2>1. CASE UNCHANGED vars \/ LoginMoves \/ \E s \in DOMAIN sessions : Logout(s)
    BY <2>1, QuietLocks DEF vars, LoginMoves, Logout
  <2>2. QED
    BY <1>1, <2>1, Steps, CrashLocks, StartLocks, AcquireLocks, LeaveLocks
<1>3. Shape'
  BY <1>1, ShapeStep
<1>4. QED
  BY <1>2, <1>3, LocksIs, PTL

LEMMA LocksInit ==
  ASSUME Init
  PROVE  LocksInv
<1>1. \A r \in Requests : requests[r].at = "idle"
  BY IdleFields DEF Init
<1>2. \A r : Holds(r) = {}
  BY DEF Init, Holds
<1>3. Ordered
  BY <1>1, <1>2 DEF Ordered, InOrder
<1>4. Mutex /\ OneLogin /\ TokensTrue
  BY <1>1 DEF Init, Mutex, OneLogin, TokensTrue, Running
<1>5. QED
  BY <1>3, <1>4, ShapeInit DEF LocksInv

(* A request holds the first locks of its plan and waits for the next. *)
LEMMA HoldsPrefix ==
  ASSUME LocksInv, NEW r \in Requests, Running(r)
  PROVE  /\ \E m \in 0 .. Len(Plan(requests[r])) : Holds(r) = {Plan(requests[r])[k] : k \in 1 .. m}
         /\ requests[r].wants # <<>> =>
              \E n \in Nat : /\ n + 1 \in 1 .. Len(Plan(requests[r]))
                             /\ Head(requests[r].wants) = Plan(requests[r])[n + 1]
                             /\ Holds(r) = {Plan(requests[r])[k] : k \in 1 .. n}
<1> DEFINE q == requests[r]
<1>1. q \in Request /\ Named(q) /\ q.at = "running" /\ InOrder(q, Holds(r), tokens)
  BY RequestFields DEF LocksInv, Shape, Ordered, Running
<1> HIDE DEF q
<1>2. CASE \E n \in 0 .. Len(Plan(q)) : Taken(q, Holds(r), n)
  <2>1. PICK n \in 0 .. Len(Plan(q)) : Taken(q, Holds(r), n)
    BY <1>2
  <2>2. Holds(r) = {Plan(q)[k] : k \in 1 .. n}
    BY <2>1 DEF Taken
  <2>3. ASSUME q.wants # <<>>
        PROVE  n \in Nat /\ n + 1 \in 1 .. Len(Plan(q)) /\ Head(q.wants) = Plan(q)[n + 1]
    BY <1>1, <2>1, <2>3, TakenNext DEF Taken
  <2>4. QED
    BY <2>2, <2>3 DEF q
<1>3. CASE NothingToRevoke(q, Holds(r), tokens)
  <2>1. Plan(q) = <<Own(q.token), AuditLock, Share(q.actor)>> /\ Holds(r) = {Own(q.token)} /\ q.wants = <<>>
    BY <1>3 DEF NothingToRevoke, Plan
  <2>2. 1 \in 0 .. Len(Plan(q)) /\ Holds(r) = {Plan(q)[k] : k \in 1 .. 1}
    BY <2>1
  <2>3. QED
    BY <2>1, <2>2 DEF q
<1>4. QED
  BY <1>1, <1>2, <1>3 DEF InOrder

(* The locks of a request that changes no account. *)
LEMMA PlanHas ==
  ASSUME NEW q \in Request, Named(q), q.at = "running", q.kind # "update", NEW k \in 1 .. Len(Plan(q))
  PROVE  /\ \/ Plan(q)[k] = AuditLock
            \/ \E u \in Users : Plan(q)[k] = Share(u)
            \/ IsLogin(q.kind) /\ \E u \in Users : Plan(q)[k] = Write(u)
            \/ k = 1 /\ \E t \in Tokens : Plan(q)[k] = Own(t)
            \/ k = 2 /\ Plan(q)[k] = Write(Directory) /\ Plan(q)[1] = AuditLock
         /\ \A j \in 1 .. Len(Plan(q)) : Plan(q)[j] = AuditLock /\ Plan(q)[k] = AuditLock => j = k
<1>1. q.kind \in {"callback", "password", "failed", "create", "revoke", "provider"}
  BY DEF Request, Kinds
<1>2. /\ \A u : Share(u) # AuditLock /\ Write(u) # AuditLock
      /\ \A t \in Tokens : Own(t) # AuditLock
  BY AccessConstants DEF Share, Write, Own, AuditLock
<1>3. CASE q.kind = "failed"
  BY <1>3 DEF Plan
<1>4. CASE q.kind \in {"callback", "password"}
  <2>1. q.target \in Users /\ IsLogin(q.kind)
    BY <1>4 DEF Named, IsLogin
  <2>2. Share(q.target) # AuditLock /\ Write(q.target) # AuditLock
    BY <1>2
  <2>3. CASE q.mapped # q.roles
    <3>1. Plan(q) = <<AuditLock, Share(q.target), Write(q.target)>>
      BY <1>4, <2>3 DEF Plan, LoginWants
    <3>2. Len(Plan(q)) = 3 /\ Plan(q)[1] = AuditLock /\ Plan(q)[2] = Share(q.target) /\ Plan(q)[3] = Write(q.target)
      BY <3>1
    <3>3. k \in {1, 2, 3} /\ 1 .. Len(Plan(q)) = {1, 2, 3}
      BY <3>2
    <3>4. QED
      BY <2>1, <2>2, <3>2, <3>3
  <2>4. CASE q.mapped = q.roles
    <3>1. Plan(q) = <<Write(q.target), AuditLock>>
      BY <1>4, <2>4 DEF Plan, LoginWants
    <3>2. Len(Plan(q)) = 2 /\ Plan(q)[1] = Write(q.target) /\ Plan(q)[2] = AuditLock
      BY <3>1
    <3>3. k \in {1, 2} /\ 1 .. Len(Plan(q)) = {1, 2}
      BY <3>2
    <3>4. QED
      BY <2>1, <2>2, <3>2, <3>3
  <2>5. QED
    BY <2>3, <2>4
<1>5. CASE q.kind = "create"
  <2>1. Plan(q) = <<Share(q.actor), AuditLock>> /\ q.actor \in Users /\ Share(q.actor) # AuditLock
    BY <1>2, <1>5 DEF Plan, Named
  <2>2. Len(Plan(q)) = 2 /\ Plan(q)[1] = Share(q.actor) /\ Plan(q)[2] = AuditLock
    BY <2>1
  <2>3. k \in {1, 2} /\ 1 .. Len(Plan(q)) = {1, 2}
    BY <2>2
  <2>4. QED
    BY <2>1, <2>2, <2>3
<1>6. CASE q.kind = "revoke"
  <2>1. /\ Plan(q) = <<Own(q.token), AuditLock, Share(q.actor)>> /\ q.actor \in Users /\ q.token \in Tokens
        /\ Share(q.actor) # AuditLock /\ Own(q.token) # AuditLock
    BY <1>2, <1>6 DEF Plan, Named
  <2>2. Len(Plan(q)) = 3 /\ Plan(q)[1] = Own(q.token) /\ Plan(q)[2] = AuditLock /\ Plan(q)[3] = Share(q.actor)
    BY <2>1
  <2>3. k \in {1, 2, 3} /\ 1 .. Len(Plan(q)) = {1, 2, 3}
    BY <2>2
  <2>4. QED
    BY <2>1, <2>2, <2>3
<1>7. CASE q.kind = "provider"
  <2>1. /\ Plan(q) = <<AuditLock, Write(Directory), Share(q.actor)>> /\ q.actor \in Users
        /\ Share(q.actor) # AuditLock /\ Write(Directory) # AuditLock
    BY <1>2, <1>7 DEF Plan, Named
  <2>2. Len(Plan(q)) = 3 /\ Plan(q)[1] = AuditLock /\ Plan(q)[2] = Write(Directory) /\ Plan(q)[3] = Share(q.actor)
    BY <2>1
  <2>3. k \in {1, 2, 3} /\ 1 .. Len(Plan(q)) = {1, 2, 3}
    BY <2>2
  <2>4. QED
    BY <2>1, <2>2, <2>3
<1>8. QED
  BY <1>1, <1>3, <1>4, <1>5, <1>6, <1>7

(* In a circle without an update everybody waits for the audit log, *)
LEMMA AllWantAudit ==
  ASSUME LocksInv, NEW S \in Circles, \A r \in S : requests[r].kind # "update", NEW r \in S
  PROVE  Head(requests[r].wants) = AuditLock /\ \E q \in S : AuditLock \in Holds(q)
<1>1. S \subseteq Requests /\ (\E q \in S : WaitsFor(r, q)) /\ (\E q \in S : WaitsFor(q, r))
  BY DEF Circles
<1>2. PICK q \in S : WaitsFor(r, q)
  BY <1>1
<1> DEFINE x == Head(requests[r].wants)
<1>3. PICK l \in locks : l.by = q /\ q # r /\ l.on = x.on /\ Conflict(l.mode, x.mode)
  BY <1>2 DEF WaitsFor, Holders
<1>4. Running(r) /\ requests[r].wants # <<>> /\ Running(q) /\ r \in Requests /\ q \in Requests
  <2>1. Running(r) /\ requests[r].wants # <<>>
    BY <1>2 DEF WaitsFor, Running
  <2>2. Running(q)
    BY <1>3 DEF LocksInv, Shape, TypeOK, Running
  <2>3. QED
    BY <1>1, <2>1, <2>2
<1>5. /\ requests[r] \in Request /\ Named(requests[r]) /\ requests[r].at = "running"
      /\ requests[q] \in Request /\ Named(requests[q]) /\ requests[q].at = "running"
      /\ requests[r].kind # "update" /\ requests[q].kind # "update"
  BY <1>4, RequestFields DEF LocksInv, Shape, Running
<1> DEFINE y == [on |-> l.on, mode |-> l.mode]
<1>6. y \in Holds(q) /\ y.on = l.on /\ y.mode = l.mode
  <2>1. y \in Wish
    BY DEF LocksInv, Shape, TypeOK
  <2>2. l = [by |-> q, on |-> y.on, mode |-> y.mode]
    BY <1>3 DEF LocksInv, Shape, LockType
  <2>3. QED
    BY <2>1, <2>2 DEF Holds
<1>7. PICK n \in Nat : /\ n + 1 \in 1 .. Len(Plan(requests[r])) /\ x = Plan(requests[r])[n + 1]
                       /\ Holds(r) = {Plan(requests[r])[k] : k \in 1 .. n}
  BY <1>4, HoldsPrefix
<1>8. PICK m \in 0 .. Len(Plan(requests[q])) : Holds(q) = {Plan(requests[q])[k] : k \in 1 .. m}
  BY <1>4, HoldsPrefix
<1>9. PICK j \in 1 .. m : y = Plan(requests[q])[j]
  BY <1>6, <1>8
<1>10. j \in 1 .. Len(Plan(requests[q]))
  BY <1>5, <1>8, <1>9, PlanType
<1> DEFINE Of(z, k, p) ==
      \/ z = AuditLock
      \/ \E u \in Users : z = Share(u)
      \/ IsLogin(requests[p].kind) /\ \E u \in Users : z = Write(u)
      \/ k = 1 /\ \E t \in Tokens : z = Own(t)
      \/ k = 2 /\ z = Write(Directory) /\ Plan(requests[p])[1] = AuditLock
<1>11. Of(x, n + 1, r)
  BY <1>5, <1>7, PlanHas
<1>12. Of(y, j, q)
  BY <1>5, <1>9, <1>10, PlanHas
<1>13. x.on = y.on /\ Conflict(y.mode, x.mode)
  BY <1>3, <1>6
<1> HIDE DEF x, y
<1>14. ASSUME NEW u \in Users, x = Share(u)
       PROVE  FALSE
  <2>1. x.on = u /\ x.mode = "share" /\ y.on = u
    BY <1>13, <1>14 DEF Share
  <2>2. y.mode \in {"share", "write"}
    BY <1>12, <2>1, AccessConstants DEF Share, Write, Own, AuditLock
  <2>3. QED
    BY <1>13, <2>1, <2>2 DEF Conflict
<1>15. ASSUME NEW u \in Users, x = Write(u), IsLogin(requests[r].kind)
       PROVE  FALSE
  <2>1. IsLogin(requests[q].kind)
    <3>1. x.on = u /\ x.mode = "write" /\ y.on = u
      BY <1>13, <1>15 DEF Write
    <3>2. y.mode # "share"
      BY <1>13, <3>1 DEF Conflict
    <3>3. QED
      BY <1>12, <3>1, <3>2, AccessConstants DEF Share, Write, Own, AuditLock
  <2>2. QED
    BY <1>3, <1>4, <1>15, <2>1 DEF LocksInv, OneLogin
<1>16. ASSUME n + 1 = 1
       PROVE  FALSE
  <2>1. Holds(r) = {}
    BY <1>7, <1>16
  <2>2. PICK p \in S : WaitsFor(p, r)
    BY <1>1
  <2>3. PICK h \in locks : h.by = r
    BY <2>2 DEF WaitsFor, Holders
  <2>4. [on |-> h.on, mode |-> h.mode] \in Wish /\ h = [by |-> r, on |-> h.on, mode |-> h.mode]
    BY <2>3 DEF LocksInv, Shape, TypeOK, LockType
  <2>5. [on |-> h.on, mode |-> h.mode] \in Holds(r)
    BY <2>4 DEF Holds
  <2>6. QED
    BY <2>1, <2>5
<1>17. ASSUME n + 1 = 2, x = Write(Directory), Plan(requests[r])[1] = AuditLock
       PROVE  FALSE
  <2>1. AuditLock \in Holds(r)
    BY <1>7, <1>17
  <2>2. j = 2 /\ Plan(requests[q])[1] = AuditLock
    BY <1>12, <1>13, <1>17, AccessConstants, AuditIsNotDirectory DEF Share, Write, Own, AuditLock, Conflict
  <2>3. AuditLock \in Holds(q)
    BY <1>8, <1>9, <2>2
  <2>4. /\ [by |-> r, on |-> AuditLock.on, mode |-> AuditLock.mode] \in locks
        /\ [by |-> q, on |-> AuditLock.on, mode |-> AuditLock.mode] \in locks
    BY <2>1, <2>3 DEF Holds
  <2>5. Conflict(AuditLock.mode, AuditLock.mode)
    BY DEF AuditLock, Own, Conflict
  <2>6. QED
    BY <1>3, <2>4, <2>5 DEF LocksInv, Mutex
<1>18. x = AuditLock
  BY <1>11, <1>14, <1>15, <1>16, <1>17
<1>19. y = AuditLock
  BY <1>12, <1>13, <1>18, AccessConstants, AuditIsNotDirectory DEF Share, Write, Own, AuditLock
<1>20. QED
  BY <1>6, <1>18, <1>19 DEF x

(* and whoever holds it does not. *)
LEMMA NoCircle ==
  ASSUME LocksInv
  PROVE  CirclesNeedUpdate
<1> SUFFICES ASSUME NEW S \in Circles, \A r \in S : requests[r].kind # "update"
             PROVE  FALSE
  BY DEF CirclesNeedUpdate
<1>1. S # {} /\ S \subseteq Requests /\ \A r \in S : \E q \in S : WaitsFor(r, q)
  BY DEF Circles
<1>2. PICK q \in S : AuditLock \in Holds(q)
  BY <1>1, AllWantAudit
<1>3. Head(requests[q].wants) = AuditLock
  BY AllWantAudit
<1>4. Running(q) /\ requests[q].wants # <<>> /\ q \in Requests
  BY <1>1 DEF WaitsFor, Running
<1>5. PICK n \in Nat : /\ n + 1 \in 1 .. Len(Plan(requests[q]))
                       /\ Plan(requests[q])[n + 1] = AuditLock
                       /\ Holds(q) = {Plan(requests[q])[k] : k \in 1 .. n}
  BY <1>3, <1>4, HoldsPrefix
<1>6. requests[q] \in Request /\ Named(requests[q]) /\ requests[q].at = "running"
  BY <1>4, RequestFields DEF LocksInv, Shape, Running
<1>7. PICK k \in 1 .. n : Plan(requests[q])[k] = AuditLock
  BY <1>2, <1>5
<1>8. k \in 1 .. Len(Plan(requests[q]))
  BY <1>5, <1>6, <1>7, PlanType
<1>9. k = n + 1
  BY <1>5, <1>6, <1>7, <1>8, PlanHas
<1>10. QED
  BY <1>5, <1>7, <1>9

(* CirclesNeedUpdate, for any number of requests, users and tokens: requests only
   lock each other out when one of them changes an account (update_user takes the
   account before the audit log, everybody else an account they only share, or
   in the event loop). *)
THEOREM OnlyUpdatesLockOut == Spec => []CirclesNeedUpdate
<1>1. Init => LocksInv
  BY LocksInit
<1>2. LocksInv /\ [Next]_vars => LocksInv'
  BY LocksStep
<1>3. LocksInv => CirclesNeedUpdate
  BY NoCircle
<1>4. QED
  BY <1>1, <1>2, <1>3, PTL DEF Spec

-----------------------------------------------------------------------------
(* What a request has read under a lock is still so when it commits. *)

ReadStill(q, holds, account, length) ==
  /\ AuditLock \in holds => q.prev = length
  /\ q.kind = "update" /\ Own(q.target) \in holds => q.seen = account[q.target].manual
  /\ q.kind \in {"callback", "password"} =>
       /\ q.roles = account[q.target].mapped
       /\ Write(q.target) \in holds => q.seen = account[q.target].manual \cup q.mapped

Reads == \A r \in Requests : Running(r) => ReadStill(requests[r], Holds(r), users, Len(log))

ReadsInv == LocksInv /\ Reads

(* Who commits has taken all locks of the plan, or finds nothing to revoke. *)
LEMMA CommitHolds ==
  ASSUME LocksInv, NEW r \in Requests, Running(r), requests[r].wants = <<>>
  PROVE  \/ \A k \in 1 .. Len(Plan(requests[r])) : Plan(requests[r])[k] \in Holds(r)
         \/ requests[r].kind = "revoke" /\ tokens[requests[r].token] = "revoked"
<1> DEFINE q == requests[r]
<1>1. q \in Request /\ Named(q) /\ q.at = "running" /\ InOrder(q, Holds(r), tokens)
  BY RequestFields DEF LocksInv, Shape, Ordered, Running
<1>2. q.wants = <<>>
  OBVIOUS
<1> HIDE DEF q
<1>3. CASE \E n \in 0 .. Len(Plan(q)) : Taken(q, Holds(r), n)
  <2>1. PICK n \in 0 .. Len(Plan(q)) : Taken(q, Holds(r), n)
    BY <1>3
  <2>2. Plan(q) \in Seq(Wish) /\ Len(Plan(q)) \in Nat
    BY <1>1, PlanType
  <2>3. SubSeq(Plan(q), n + 1, Len(Plan(q))) = <<>> /\ Holds(r) = {Plan(q)[k] : k \in 1 .. n}
    BY <1>2, <2>1 DEF Taken
  <2> DEFINE plan == Plan(q)
  <2> HIDE DEF plan
  <2>4. plan \in Seq(Wish) /\ Len(plan) \in Nat /\ n \in 0 .. Len(plan) /\ SubSeq(plan, n + 1, Len(plan)) = <<>>
    BY <2>1, <2>2, <2>3 DEF plan
  <2>5. n = Len(plan)
    <3>1. ASSUME NEW m \in 1 .. Len(plan)
          PROVE  SubSeq(plan, m, Len(plan)) # <<>>
      <4>1. Len(SubSeq(plan, m, Len(plan))) = Len(plan) - m + 1
        BY <2>4, SubSeqProperties
      <4>2. Len(SubSeq(plan, m, Len(plan))) # 0
        BY <2>4, <4>1
      <4>3. Len(<<>>) = 0
        OBVIOUS
      <4>4. QED
        BY <4>2, <4>3, Zenon
    <3>2. n + 1 \in 1 .. Len(plan) \/ n = Len(plan)
      BY <2>4
    <3>3. QED
      BY <2>4, <3>1, <3>2
  <2>6. QED
    BY <2>2, <2>3, <2>5 DEF plan, q
<1>4. CASE NothingToRevoke(q, Holds(r), tokens)
  BY <1>4 DEF NothingToRevoke, q
<1>5. QED
  BY <1>1, <1>3, <1>4 DEF InOrder

LEMMA CommitLocks ==
  ASSUME LocksInv, NEW r \in Requests, Committed(r)
  PROVE  \/ TokenRevoked(r) /\ tokens[requests[r].token] = "revoked"
         \/ /\ AuditLock \in Holds(r)
            /\ requests[r].kind = "update" => Own(requests[r].target) \in Holds(r)
            /\ requests[r].kind \in {"callback", "password"} => Write(requests[r].target) \in Holds(r)
<1> DEFINE q == requests[r]
<1>1. q \in Request /\ Named(q) /\ q.at = "running" /\ q.wants = <<>> /\ Running(r)
  BY RequestFields DEF Committed, LoggedIn, LoginFailed, UserUpdated, TokenCreated, TokenRevoked, ProviderPut, Commits,
                       LocksInv, Shape, Running
<1>2. q.kind = "revoke" => TokenRevoked(r)
  BY DEF Committed, LoggedIn, LoginFailed, UserUpdated, TokenCreated, TokenRevoked, ProviderPut, Commits
<1>3. CASE q.kind = "revoke" /\ tokens[q.token] = "revoked"
  BY <1>2, <1>3
<1>4. CASE \A k \in 1 .. Len(Plan(q)) : Plan(q)[k] \in Holds(r)
  <2>1. q.kind \in {"callback", "password", "failed", "update", "create", "revoke", "provider"}
    BY <1>1 DEF Request, Kinds
  <2>2. CASE q.kind = "failed"
    <3>1. Plan(q) = <<AuditLock>>
      BY <2>2 DEF Plan
    <3>2. 1 \in 1 .. Len(Plan(q)) /\ Plan(q)[1] = AuditLock
      BY <3>1
    <3>3. QED
      BY <1>4, <2>2, <3>2
  <2>3. CASE q.kind \in {"callback", "password"} /\ q.mapped # q.roles
    <3>1. Plan(q) = <<AuditLock, Share(q.target), Write(q.target)>>
      BY <2>3 DEF Plan, LoginWants
    <3>2. 1 \in 1 .. Len(Plan(q)) /\ 3 \in 1 .. Len(Plan(q)) /\ Plan(q)[1] = AuditLock /\ Plan(q)[3] = Write(q.target)
      BY <3>1
    <3>3. QED
      BY <1>4, <2>3, <3>2
  <2>4. CASE q.kind \in {"callback", "password"} /\ q.mapped = q.roles
    <3>1. Plan(q) = <<Write(q.target), AuditLock>>
      BY <2>4 DEF Plan, LoginWants
    <3>2. 1 \in 1 .. Len(Plan(q)) /\ 2 \in 1 .. Len(Plan(q)) /\ Plan(q)[2] = AuditLock /\ Plan(q)[1] = Write(q.target)
      BY <3>1
    <3>3. QED
      BY <1>4, <2>4, <3>2
  <2>5. CASE q.kind = "update"
    <3>1. Plan(q) = <<Own(q.target), AuditLock, Share(q.actor)>>
      BY <2>5 DEF Plan, UpdateWants
    <3>2. 1 \in 1 .. Len(Plan(q)) /\ 2 \in 1 .. Len(Plan(q)) /\ Plan(q)[2] = AuditLock /\ Plan(q)[1] = Own(q.target)
      BY <3>1
    <3>3. QED
      BY <1>4, <2>5, <3>2
  <2>6. CASE q.kind \in {"create", "revoke", "provider"}
    <3>1. \E k \in 1 .. Len(Plan(q)) : Plan(q)[k] = AuditLock
      <4>1. CASE q.kind = "create"
        <5>1. Plan(q) = <<Share(q.actor), AuditLock>>
          BY <4>1 DEF Plan
        <5>2. 2 \in 1 .. Len(Plan(q)) /\ Plan(q)[2] = AuditLock
          BY <5>1
        <5>3. QED
          BY <5>2
      <4>2. CASE q.kind = "revoke"
        <5>1. Plan(q) = <<Own(q.token), AuditLock, Share(q.actor)>>
          BY <4>2 DEF Plan
        <5>2. 2 \in 1 .. Len(Plan(q)) /\ Plan(q)[2] = AuditLock
          BY <5>1
        <5>3. QED
          BY <5>2
      <4>3. CASE q.kind = "provider"
        <5>1. Plan(q) = <<AuditLock, Write(Directory), Share(q.actor)>>
          BY <4>3 DEF Plan
        <5>2. 1 \in 1 .. Len(Plan(q)) /\ Plan(q)[1] = AuditLock
          BY <5>1
        <5>3. QED
          BY <5>2
      <4>4. QED
        BY <2>6, <4>1, <4>2, <4>3
    <3>2. QED
      BY <1>4, <2>6, <3>1
  <2>7. QED
    BY <2>1, <2>2, <2>3, <2>4, <2>5, <2>6
<1>5. QED
  BY <1>1, <1>3, <1>4, CommitHolds

(* Two requests do not hold what conflicts. *)
LEMMA Excluded ==
  ASSUME LocksInv, NEW r, NEW q, r # q, NEW v \in Holds(r), NEW w \in Holds(q), v.on = w.on
  PROVE  ~Conflict(v.mode, w.mode)
BY DEF LocksInv, Mutex, Holds

(* The account of u, but for whether it is there: no event tells of that. *)
Account(u) == [users[u] EXCEPT !.exists = TRUE]

LEMMA SameUser ==
  ASSUME NEW a \in User, NEW b \in User, a.exists = b.exists, a.active = b.active, a.manual = b.manual,
         a.mapped = b.mapped
  PROVE  a = b
BY DEF User

LEMMA AccountIs ==
  ASSUME Shape, NEW u \in Users
  PROVE  /\ Account(u) \in User /\ Account(u).exists = TRUE /\ Account(u).active = users[u].active
         /\ Account(u).manual = users[u].manual /\ Account(u).mapped = users[u].mapped
         /\ users[u] \in User
BY DEF Shape, TypeOK, Account, User

LEMMA AfterIs ==
  ASSUME NEW a \in User, NEW e \in Event, NEW u
  PROVE  /\ After(a, e, u) \in User
         /\ e.kind = "updated" /\ e.user = u =>
              /\ After(a, e, u).exists = a.exists /\ After(a, e, u).active = e.active
              /\ After(a, e, u).manual = e.roles /\ After(a, e, u).mapped = a.mapped
         /\ e.kind = "synced" /\ e.user = u =>
              /\ After(a, e, u).exists = a.exists /\ After(a, e, u).active = a.active
              /\ After(a, e, u).manual = a.manual /\ After(a, e, u).mapped = (a.mapped \ e.removed) \cup e.added
         /\ (e.kind \notin {"updated", "synced"} \/ e.user # u) => After(a, e, u) = a
<1>1. e.active \in BOOLEAN /\ e.roles \in SUBSET Roles /\ e.added \in SUBSET Roles /\ e.removed \in SUBSET Roles
  BY DEF Event
<1>2. a.mapped \in SUBSET Roles /\ a.exists \in BOOLEAN /\ a.active \in BOOLEAN /\ a.manual \in SUBSET Roles
  BY DEF User
<1> DEFINE mapped == (a.mapped \ e.removed) \cup e.added
<1>3. mapped \in SUBSET Roles
  BY <1>1, <1>2
<1>4. CASE e.kind = "updated" /\ e.user = u
  <2>1. After(a, e, u) = [a EXCEPT !.manual = e.roles, !.active = e.active]
    BY <1>4 DEF After
  <2>2. QED
    BY <1>1, <1>2, <1>4, <2>1 DEF User
<1>5. CASE e.kind = "synced" /\ e.user = u
  <2>1. After(a, e, u) = [a EXCEPT !.mapped = mapped]
    BY <1>5 DEF After
  <2> HIDE DEF mapped
  <2>2. /\ After(a, e, u) \in User /\ After(a, e, u).exists = a.exists /\ After(a, e, u).active = a.active
        /\ After(a, e, u).manual = a.manual /\ After(a, e, u).mapped = mapped
    BY <1>2, <1>3, <2>1 DEF User
  <2>3. QED
    BY <1>5, <2>2 DEF mapped
<1>6. CASE e.kind \notin {"updated", "synced"} \/ e.user # u
  <2>1. After(a, e, u) = a
    BY <1>6 DEF After
  <2>2. QED
    BY <1>6, <2>1
<1>7. QED
  BY <1>4, <1>5, <1>6

(* A commit writes nothing, one event that is no login, or a login, after what it
   has synchronised. *)
Writes(e) ==
  /\ e \in Event /\ e.prev = Len(log) /\ e.session = 0 /\ e.kind # "login"
  /\ \A u \in Users : Account(u)' = After(Account(u), e, u)

LogsIn(r, e) ==
  /\ e \in Event /\ e.kind = "login" /\ e.session = Len(sessions) + 1 /\ e.user \in Users
  /\ e.roles = Account(e.user)'.manual \cup Account(e.user)'.mapped
  /\ sessions' = Append(sessions, [user |-> e.user, login |-> requests[r].login, live |-> TRUE])

CommitIs(r) ==
  \/ UNCHANGED <<users, sessions, log>>
  \/ \E e : Writes(e) /\ log' = Append(log, e) /\ sessions' = sessions
  \/ \E e : /\ LogsIn(r, e) /\ e.prev = Len(log) /\ log' = Append(log, e)
            /\ \A u \in Users : Account(u)' = Account(u)
  \/ \E s, e : Writes(s) /\ LogsIn(r, e) /\ e.prev = Len(log) + 1 /\ log' = Append(Append(log, s), e)

(* An event that tells of no account. *)
LEMMA PlainWrites ==
  ASSUME ReadsInv, NEW r \in Requests, Committed(r), AuditLock \in Holds(r),
         NEW kind \in {"failed", "created", "revoked", "provider"}, users' = users
  PROVE  Writes(Audited(r, kind))
<1> DEFINE e == Audited(r, kind)
<1>1. e \in Event /\ e.kind = kind /\ e.session = 0 /\ e.prev = requests[r].prev
  BY AuditedType DEF ReadsInv, LocksInv
<1>2. requests[r].prev = Len(log)
  BY CommitTokens DEF ReadsInv, LocksInv, Reads, ReadStill
<1>3. \A u \in Users : Account(u)' = Account(u)
  BY DEF Account
<1>4. \A u \in Users : After(Account(u), e, u) = Account(u)
  BY <1>1, AccountIs, AfterIs DEF ReadsInv, LocksInv
<1> HIDE DEF e
<1>5. Writes(e)
  BY <1>1, <1>2, <1>3, <1>4 DEF Writes
<1>6. QED
  BY <1>5 DEF e

LEMMA UpdateWrites ==
  ASSUME ReadsInv, NEW r \in Requests, UserUpdated(r), AuditLock \in Holds(r), Own(requests[r].target) \in Holds(r)
  PROVE  Writes(Audited(r, "updated"))
<1> DEFINE e == Audited(r, "updated")
<1> DEFINE q == requests[r]
<1>1. /\ e \in Event /\ e.kind = "updated" /\ e.session = 0 /\ e.prev = q.prev /\ e.user = q.target
      /\ e.roles = q.roles /\ e.active = q.active
  BY AuditedType DEF ReadsInv, LocksInv
<1>2. Shape /\ q.kind = "update" /\ Running(r) /\ q.target \in Users /\ ReadStill(q, Holds(r), users, Len(log))
  BY DEF UserUpdated, Commits, ReadsInv, LocksInv, Reads, Running, Shape, Named
<1>3. q.prev = Len(log) /\ q.seen = users[q.target].manual
  BY <1>2 DEF ReadStill
<1>4. /\ users' \in [Users -> User] /\ \A v \in Users : v # q.target => users'[v] = users[v]
      /\ users'[q.target].exists = users[q.target].exists /\ users'[q.target].active = q.active
      /\ users'[q.target].manual = (users[q.target].manual \ (q.seen \ q.roles)) \cup (q.roles \ q.seen)
      /\ users'[q.target].mapped = users[q.target].mapped
  <2>1. users' = UpdateSets(users, q.target, q)
    BY Zenon DEF UserUpdated, UpdateSets
  <2>2. q \in Request /\ users \in [Users -> User]
    BY <1>2, RequestFields DEF Shape, TypeOK
  <2> HIDE DEF q
  <2>3. QED
    BY <1>2, <2>1, <2>2, Updated
<1>5. users'[q.target].manual = q.roles
  BY <1>3, <1>4
<1> HIDE DEF e, q
<1>6. ASSUME NEW u \in Users
      PROVE  Account(u)' = After(Account(u), e, u)
  <2>1. CASE u = q.target
    <3>1. Account(u)' = [users'[u] EXCEPT !.exists = TRUE] /\ users'[u] \in User
      BY <1>4 DEF Account
    <3>2. /\ Account(u)' \in User /\ Account(u)'.exists = TRUE /\ Account(u)'.active = users'[u].active
          /\ Account(u)'.manual = users'[u].manual /\ Account(u)'.mapped = users'[u].mapped
      BY <3>1 DEF User
    <3>3. /\ Account(u) \in User /\ Account(u).exists = TRUE /\ Account(u).mapped = users[u].mapped
      BY <1>2, AccountIs
    <3>4. /\ After(Account(u), e, u) \in User /\ After(Account(u), e, u).exists = TRUE
          /\ After(Account(u), e, u).active = q.active /\ After(Account(u), e, u).manual = q.roles
          /\ After(Account(u), e, u).mapped = users[u].mapped
      BY <1>1, <2>1, <3>3, AfterIs
    <3>5. PICK a, b : a = Account(u)' /\ b = After(Account(u), e, u)
      OBVIOUS
    <3>6. a \in User /\ b \in User /\ a.exists = b.exists /\ a.active = b.active /\ a.manual = b.manual
          /\ a.mapped = b.mapped
      BY <1>4, <1>5, <2>1, <3>2, <3>4, <3>5
    <3>7. QED
      BY <3>5, <3>6, SameUser
  <2>2. CASE u # q.target
    <3>1. Account(u)' = Account(u)
      BY <1>4, <2>2 DEF Account
    <3>2. Account(u) \in User /\ e.user # u
      BY <1>1, <1>2, <2>2, AccountIs
    <3>3. After(Account(u), e, u) = Account(u)
      BY <1>1, <3>2, AfterIs
    <3>4. QED
      BY <3>1, <3>3
  <2>3. QED
    BY <2>1, <2>2
<1>7. Writes(e)
  BY <1>1, <1>3, <1>6 DEF Writes
<1>8. QED
  BY <1>7 DEF e

LEMMA LoginWrites ==
  ASSUME ReadsInv, NEW r \in Requests, LoggedIn(r), AuditLock \in Holds(r), Write(requests[r].target) \in Holds(r)
  PROVE  CommitIs(r)
<1> DEFINE synced == [Audited(r, "synced") EXCEPT !.roles = {}, !.added = requests[r].mapped \ requests[r].roles,
                                                  !.removed = requests[r].roles \ requests[r].mapped]
<1> DEFINE login == [Audited(r, "login") EXCEPT !.roles = requests[r].seen, !.session = Len(sessions) + 1,
                       !.prev = @ + IF requests[r].roles # requests[r].mapped THEN 1 ELSE 0]
<1>0. PICK q, s, e : q = requests[r] /\ s = synced /\ e = login
  OBVIOUS
<1>1. /\ Shape /\ q.kind \in {"callback", "password"} /\ Running(r) /\ q.target \in Users
      /\ ReadStill(q, Holds(r), users, Len(log))
  BY <1>0 DEF LoggedIn, Commits, ReadsInv, LocksInv, Reads, Running, Shape, Named
<1>2. /\ q \in Request /\ q.mapped \in SUBSET Roles /\ q.roles \in SUBSET Roles /\ q.seen \in SUBSET Roles
      /\ sessions \in Seq(Session) /\ log \in Seq(Event)
  BY <1>0, <1>1, RequestFields DEF Shape, TypeOK
<1>3. /\ q.prev = Len(log) /\ q.roles = users[q.target].mapped
      /\ q.seen = users[q.target].manual \cup q.mapped
  BY <1>0, <1>1 DEF ReadStill
<1>4. /\ users' = LoginSets(users, q.target, s)
      /\ log' = log \o (IF q.roles # q.mapped THEN <<s>> ELSE <<>>) \o <<e>>
      /\ sessions' = Append(sessions, [user |-> q.target, login |-> q.login, live |-> TRUE])
  <2>1. users' = LoginSets(users, q.target, s)
    BY <1>0, Zenon DEF LoggedIn, LoginSets
  <2>2. QED
    BY <1>0, <2>1 DEF LoggedIn
<1>5. /\ s \in Event /\ s.kind = "synced" /\ s.user = q.target /\ s.session = 0 /\ s.prev = Len(log)
      /\ s.added = q.mapped \ q.roles /\ s.removed = q.roles \ q.mapped
  <2>1. /\ Audited(r, "synced") \in Event /\ Audited(r, "synced").kind = "synced"
        /\ Audited(r, "synced").user = q.target /\ Audited(r, "synced").session = 0
        /\ Audited(r, "synced").prev = q.prev
    BY <1>0, <1>1, AuditedType
  <2>2. q.mapped \ q.roles \in SUBSET Roles /\ q.roles \ q.mapped \in SUBSET Roles
    BY <1>2
  <2>3. s = SyncedFrom(Audited(r, "synced"), q.mapped \ q.roles, q.roles \ q.mapped)
    BY <1>0 DEF SyncedFrom
  <2>4. QED
    BY <1>3, <2>1, <2>2, <2>3, SyncedWith
<1>6. /\ e \in Event /\ e.kind = "login" /\ e.user = q.target /\ e.session = Len(sessions) + 1
      /\ e.prev = Len(log) + (IF q.roles # q.mapped THEN 1 ELSE 0) /\ e.roles = q.seen
  <2>1. /\ Audited(r, "login") \in Event /\ Audited(r, "login").kind = "login"
        /\ Audited(r, "login").user = q.target /\ Audited(r, "login").prev = q.prev
    BY <1>0, <1>1, AuditedType
  <2>2. PICK a, prev, session : /\ a = Audited(r, "login") /\ session = Len(sessions) + 1
                                /\ prev = q.prev + (IF q.roles # q.mapped THEN 1 ELSE 0)
    OBVIOUS
  <2>3. a \in Event /\ prev \in Nat /\ session \in Nat /\ q.seen \in SUBSET Roles
    BY <1>2, <1>3, <2>1, <2>2
  <2>4. e = LoginFrom(a, q.seen, session, prev)
    BY <1>0, <2>1, <2>2 DEF LoginFrom
  <2> HIDE DEF login
  <2>5. /\ e \in Event /\ e.kind = a.kind /\ e.user = a.user /\ e.session = session /\ e.prev = prev
        /\ e.roles = q.seen
    BY <2>3, <2>4, LoginWith
  <2>6. QED
    BY <1>3, <2>1, <2>2, <2>5
<1> HIDE DEF synced, login
<1>7. /\ users' \in [Users -> User] /\ \A v \in Users : v # q.target => users'[v] = users[v]
      /\ users'[q.target].exists /\ users'[q.target].active = users[q.target].active
      /\ users'[q.target].manual = users[q.target].manual
      /\ users'[q.target].mapped = (users[q.target].mapped \ s.removed) \cup s.added
  <2>1. users \in [Users -> User]
    BY <1>1 DEF Shape, TypeOK
  <2>2. PICK old \in [Users -> User], u \in Users, n \in Event : old = users /\ u = q.target /\ n = s
    BY <1>1, <1>5, <2>1
  <2>3. LoginSets(old, u, n) \in [Users -> User]
    BY Synced
  <2>4. \A v \in Users : v # u => LoginSets(old, u, n)[v] = old[v]
    BY Synced
  <2>5. LoginSets(old, u, n)[u].exists
    BY Synced
  <2>6. LoginSets(old, u, n)[u].active = old[u].active
    BY Synced
  <2>7. LoginSets(old, u, n)[u].manual = old[u].manual
    BY Synced
  <2>8. LoginSets(old, u, n)[u].mapped = (old[u].mapped \ n.removed) \cup n.added
    BY Synced
  <2>9. QED
    BY <1>4, <2>2, <2>3, <2>4, <2>5, <2>6, <2>7, <2>8
<1>8. users'[q.target].mapped = q.mapped
  BY <1>3, <1>5, <1>7
<1>9. sessions' = Append(sessions, [user |-> e.user, login |-> requests[r].login, live |-> TRUE])
  BY <1>0, <1>4, <1>6
<1>10. ASSUME NEW u \in Users
       PROVE  /\ Account(u)' = After(Account(u), s, u)
              /\ Account(u)'.manual = users'[u].manual /\ Account(u)'.mapped = users'[u].mapped
              /\ s.added = {} /\ s.removed = {} => Account(u)' = Account(u)
  <2>1. /\ Account(u) \in User /\ Account(u).exists = TRUE /\ Account(u).active = users[u].active
        /\ Account(u).manual = users[u].manual /\ Account(u).mapped = users[u].mapped /\ users[u] \in User
    BY <1>1, AccountIs
  <2>2. /\ Account(u)' \in User /\ Account(u)'.exists = TRUE /\ Account(u)'.active = users'[u].active
        /\ Account(u)'.manual = users'[u].manual /\ Account(u)'.mapped = users'[u].mapped
    <3>1. Account(u)' = [users'[u] EXCEPT !.exists = TRUE] /\ users'[u] \in User
      BY <1>7 DEF Account
    <3>2. QED
      BY <3>1 DEF User
  <2>3. PICK a, b, c : a = Account(u)' /\ b = After(Account(u), s, u) /\ c = Account(u)
    OBVIOUS
  <2>4. CASE u = q.target
    <3>1. /\ b \in User /\ b.exists = TRUE /\ b.active = users[u].active /\ b.manual = users[u].manual
          /\ b.mapped = (users[u].mapped \ s.removed) \cup s.added
      BY <1>5, <2>1, <2>3, <2>4, AfterIs
    <3>2. a = b
      <4>1. a \in User /\ a.exists = b.exists /\ a.active = b.active /\ a.manual = b.manual /\ a.mapped = b.mapped
        BY <1>7, <2>2, <2>3, <2>4, <3>1
      <4>2. QED
        BY <3>1, <4>1, SameUser
    <3>3. ASSUME s.added = {}, s.removed = {}
          PROVE  a = c
      <4>1. a.mapped = c.mapped /\ a.exists = c.exists /\ a.active = c.active /\ a.manual = c.manual
        BY <1>7, <2>1, <2>2, <2>3, <2>4, <3>3
      <4>2. QED
        BY <2>1, <2>2, <2>3, <4>1, SameUser
    <3>4. QED
      BY <2>2, <2>3, <3>2, <3>3
  <2>5. CASE u # q.target
    <3>1. a = c
      BY <1>7, <2>3, <2>5 DEF Account
    <3>2. b = c
      <4>1. s.user # u
        BY <1>5, <2>5
      <4>2. QED
        BY <1>5, <2>1, <2>3, <4>1, AfterIs
    <3>3. QED
      BY <2>2, <2>3, <3>1, <3>2
  <2>6. QED
    BY <2>4, <2>5
<1>11. LogsIn(r, e)
  <2>1. e.roles = Account(e.user)'.manual \cup Account(e.user)'.mapped
    BY <1>1, <1>3, <1>6, <1>7, <1>8, <1>10
  <2>2. e.user \in Users
    BY <1>1, <1>6
  <2>3. QED
    BY <1>6, <1>9, <2>1, <2>2 DEF LogsIn
<1>12. CASE q.roles = q.mapped
  <2>1. s.added = {} /\ s.removed = {}
    BY <1>5, <1>12
  <2>2. \A u \in Users : Account(u)' = Account(u)
    BY <1>10, <2>1
  <2>3. log' = Append(log, e) /\ e.prev = Len(log)
    <3>1. log' = (log \o <<>>) \o <<e>>
      BY <1>4, <1>12
    <3>2. log \o <<>> = log /\ log \o <<e>> = Append(log, e)
      BY <1>2, <1>6, ConcatEmptySeq, AppendIsConcat
    <3>3. e.prev = Len(log)
      BY <1>2, <1>6, <1>12
    <3>4. QED
      BY <3>1, <3>2, <3>3
  <2>4. QED
    BY <1>11, <2>2, <2>3 DEF CommitIs
<1>13. CASE q.roles # q.mapped
  <2>1. Writes(s)
    BY <1>5, <1>10 DEF Writes
  <2>2. log' = Append(Append(log, s), e) /\ e.prev = Len(log) + 1
    <3>1. log' = (log \o <<s>>) \o <<e>>
      BY <1>4, <1>13
    <3>2. log \o <<s>> = Append(log, s) /\ Append(log, s) \in Seq(Event)
      BY <1>2, <1>5, AppendIsConcat, AppendProperties
    <3>3. Append(log, s) \o <<e>> = Append(Append(log, s), e)
      BY <1>6, <3>2, AppendIsConcat
    <3>4. QED
      BY <1>6, <1>13, <3>1, <3>2, <3>3
  <2>3. QED
    BY <1>11, <2>1, <2>2 DEF CommitIs
<1>14. QED
  BY <1>12, <1>13

LEMMA CommitWrites ==
  ASSUME ReadsInv, NEW r \in Requests, Committed(r)
  PROVE  CommitIs(r)
<1>1. LocksInv
  BY DEF ReadsInv
<1>2. CASE TokenRevoked(r) /\ tokens[requests[r].token] = "revoked"
  BY <1>2 DEF TokenRevoked, CommitIs
<1>3. CASE /\ AuditLock \in Holds(r)
           /\ requests[r].kind = "update" => Own(requests[r].target) \in Holds(r)
           /\ requests[r].kind \in {"callback", "password"} => Write(requests[r].target) \in Holds(r)
  <2>1. CASE LoggedIn(r)
    BY <1>3, <2>1, LoginWrites DEF LoggedIn, Commits
  <2>2. CASE LoginFailed(r)
    BY <1>3, <2>2, PlainWrites DEF LoginFailed, CommitIs
  <2>3. CASE UserUpdated(r)
    <3>1. requests[r].kind = "update"
      BY <2>3 DEF UserUpdated, Commits
    <3>2. QED
      BY <1>3, <2>3, <3>1, UpdateWrites DEF UserUpdated, CommitIs
  <2>4. CASE TokenCreated(r)
    BY <1>3, <2>4, PlainWrites DEF TokenCreated, CommitIs
  <2>5. CASE TokenRevoked(r)
    BY <1>3, <2>5, PlainWrites DEF TokenRevoked, CommitIs
  <2>6. CASE ProviderPut(r)
    BY <1>3, <2>6, PlainWrites DEF ProviderPut, CommitIs
  <2>7. QED
    BY <2>1, <2>2, <2>3, <2>4, <2>5, <2>6 DEF Committed
<1>4. QED
  BY <1>1, <1>2, <1>3, CommitLocks

(* Whose bindings a commit changes. *)
LEMMA CommitUsers ==
  ASSUME LocksInv, NEW r \in Requests, Committed(r), NEW u \in Users
  PROVE  /\ users'[u].manual = users[u].manual \/ (requests[r].kind = "update" /\ Own(u) \in Holds(r))
         /\ users'[u].mapped = users[u].mapped \/ requests[r].kind \in {"callback", "password"}
<1>1. Shape /\ users \in [Users -> User] /\ Named(requests[r]) /\ requests[r] \in Request
  BY RequestFields DEF LocksInv, Shape, TypeOK
<1>2. CASE LoggedIn(r)
  <2> DEFINE q == requests[r]
  <2> DEFINE synced == [Audited(r, "synced") EXCEPT !.roles = {}, !.added = q.mapped \ q.roles,
                                                    !.removed = q.roles \ q.mapped]
  <2>1. q.kind \in {"callback", "password"} /\ q.target \in Users
    BY <1>1, <1>2 DEF LoggedIn, Commits, Named
  <2>2. synced \in Event
    <3>1. q.mapped \ q.roles \in SUBSET Roles /\ q.roles \ q.mapped \in SUBSET Roles
      BY <1>1 DEF Request
    <3>2. Audited(r, "synced") \in Event
      BY <1>1, AuditedType
    <3>3. synced = SyncedFrom(Audited(r, "synced"), q.mapped \ q.roles, q.roles \ q.mapped)
      BY DEF SyncedFrom
    <3> HIDE DEF synced
    <3>4. QED
      BY <3>1, <3>2, <3>3, SyncedWith
  <2>3. users' = LoginSets(users, q.target, synced)
    BY <1>2, Zenon DEF LoggedIn, LoginSets
  <2> HIDE DEF synced
  <2>4. PICK old \in [Users -> User], v \in Users, n \in Event : old = users /\ v = q.target /\ n = synced
    BY <1>1, <2>1, <2>2
  <2>5. LoginSets(old, v, n)[v].manual = old[v].manual
    BY Synced
  <2>6. \A w \in Users : w # v => LoginSets(old, v, n)[w] = old[w]
    BY Synced
  <2>7. QED
    BY <2>1, <2>3, <2>4, <2>5, <2>6
<1>3. CASE UserUpdated(r)
  <2>1. requests[r].kind = "update" /\ requests[r].target \in Users
    BY <1>1, <1>3 DEF UserUpdated, Commits, Named
  <2>2. Own(requests[r].target) \in Holds(r)
    BY <1>3, <2>1, CommitLocks DEF TokenRevoked, Commits
  <2>3. users' = UpdateSets(users, requests[r].target, requests[r])
    BY <1>3, Zenon DEF UserUpdated, UpdateSets
  <2>4. PICK old \in [Users -> User], v \in Users, q \in Request :
          old = users /\ v = requests[r].target /\ q = requests[r]
    BY <1>1, <2>1
  <2>5. UpdateSets(old, v, q)[v].mapped = old[v].mapped
    BY Updated
  <2>6. \A w \in Users : w # v => UpdateSets(old, v, q)[w] = old[w]
    BY Updated
  <2>7. QED
    BY <2>1, <2>2, <2>3, <2>4, <2>5, <2>6
<1>4. CASE LoginFailed(r) \/ TokenCreated(r) \/ TokenRevoked(r) \/ ProviderPut(r)
  BY <1>4 DEF LoginFailed, TokenCreated, TokenRevoked, ProviderPut
<1>5. QED
  BY <1>2, <1>3, <1>4 DEF Committed

LEMMA ReadsStep ==
  ASSUME ReadsInv, [Next]_vars
  PROVE  Reads'
<1>1. LocksInv /\ Shape
  BY DEF ReadsInv, LocksInv
<1>2. CASE UNCHANGED vars \/ LoginMoves \/ \E s \in DOMAIN sessions : Logout(s)
  <2>1. UNCHANGED <<requests, locks, users, log>>
    BY <1>2 DEF vars, LoginMoves, Logout
  <2>2. \A r : Holds(r)' = Holds(r)
    BY <2>1, HoldsSame
  <2>3. QED
    BY <2>1, <2>2 DEF ReadsInv, Reads, Running
<1>3. CASE Crash
  <2>1. \A r \in Requests : requests'[r].at # "running"
    BY <1>3, IdleFields DEF Crash
  <2>2. QED
    BY <2>1 DEF Reads, Running
<1>4. ASSUME NEW r \in Requests, NEW q, Starts(r, q)
      PROVE  Reads'
  <2>1. /\ ~Running(r) /\ q \in Request /\ Named(q) /\ requests' = [requests EXCEPT ![r] = q]
        /\ UNCHANGED <<users, log, locks>>
        /\ q.at = "running" /\ q.kind \in {"callback", "password"} => q.roles = users[q.target].mapped
    BY <1>4 DEF Starts
  <2>2. requests'[r] = q /\ \A p \in Requests : p # r => requests'[p] = requests[p]
    BY <1>1, <2>1, RequestsSet
  <2>3. \A p : Holds(p)' = Holds(p)
    BY <2>1, HoldsSame
  <2>4. Holds(r) = {}
    BY <1>1, <2>1 DEF LocksInv, Ordered, InOrder, Running
  <2>5. q.at = "running" => ReadStill(q, Holds(r), users, Len(log))
    BY <2>1, <2>4 DEF ReadStill
  <2>6. \A p \in Requests : requests'[p].at = "running" => ReadStill(requests'[p], Holds(p), users, Len(log))
    BY <2>2, <2>5 DEF ReadsInv, Reads, Running
  <2>7. QED
    BY <2>1, <2>3, <2>6 DEF Reads, Running
<1>5. ASSUME NEW r \in Requests, Acquire(r)
      PROVE  Reads'
  <2>1. PICK q, wish, read :
          /\ q = requests[r] /\ wish = Head(requests[r].wants) /\ read = Read(r, Head(requests[r].wants))
    OBVIOUS
  <2>2. /\ Running(r) /\ q.wants # <<>> /\ requests' = [requests EXCEPT ![r] = read]
        /\ locks' = locks \cup {[by |-> r, on |-> wish.on, mode |-> wish.mode]}
        /\ UNCHANGED <<users, log>>
    BY <1>5, <2>1 DEF Acquire, Running
  <2>3. ReadTrue(q, wish, read)
    BY <1>1, <2>1, <2>2, ReadIs
  <2>4. requests'[r] = read /\ \A p \in Requests : p # r => requests'[p] = requests[p]
    BY <1>1, <2>2, <2>3, RequestsSet DEF ReadTrue
  <2>5. Holds(r)' = Holds(r) \cup {wish} /\ \A p : p # r => Holds(p)' = Holds(p)
    BY <2>2, <2>3, HoldsMore DEF ReadTrue
  <2>6. ReadStill(read, Holds(r) \cup {wish}, users, Len(log))
    <3>1. ReadStill(q, Holds(r), users, Len(log))
      BY <2>1, <2>2 DEF ReadsInv, Reads
    <3>2. AuditLock \in Holds(r) \cup {wish} => read.prev = Len(log)
      BY <2>3, <3>1 DEF ReadTrue, ReadStill
    <3>3. read.kind = "update" /\ Own(read.target) \in Holds(r) \cup {wish} => read.seen = users[read.target].manual
      BY <2>3, <3>1 DEF ReadTrue, ReadStill
    <3>4. read.kind \in {"callback", "password"} =>
            /\ read.roles = users[read.target].mapped
            /\ Write(read.target) \in Holds(r) \cup {wish} => read.seen = users[read.target].manual \cup read.mapped
      BY <2>3, <3>1 DEF ReadTrue, ReadStill, IsLogin
    <3>5. QED
      BY <3>2, <3>3, <3>4 DEF ReadStill
  <2>7. \A p \in Requests : requests'[p].at = "running" => ReadStill(requests'[p], Holds(p)', users, Len(log))
    BY <2>4, <2>5, <2>6 DEF ReadsInv, Reads, Running
  <2>8. QED
    BY <2>2, <2>7 DEF Reads, Running
<1>6. ASSUME NEW r \in Requests, Aborted(r) \/ Committed(r)
      PROVE  Reads'
  <2>1. requests' = [requests EXCEPT ![r] = Ended] /\ locks' = Release(r)
    BY <1>1, <1>6, CommitTokens DEF Aborted
  <2>2. requests'[r] = Ended /\ \A p \in Requests : p # r => requests'[p] = requests[p]
    BY <1>1, <2>1, IdleFields, RequestsSet
  <2>3. Holds(r)' = {} /\ \A p : p # r => Holds(p)' = Holds(p)
    BY <2>1, HoldsReleased
  <2>4. ASSUME NEW p \in Requests, p # r, Running(p)
        PROVE  ReadStill(requests[p], Holds(p), users', Len(log'))
    <3> DEFINE q == requests[p]
    <3>1. ReadStill(q, Holds(p), users, Len(log))
      BY <2>4 DEF ReadsInv, Reads
    <3>2. CASE Aborted(r)
      BY <3>1, <3>2 DEF Aborted
    <3>3. CASE Committed(r)
      <4>1. Named(q) /\ q.at = "running" /\ Running(r)
        BY <1>1, <2>4, <3>3, CommitTokens DEF Shape, Running
      <4>2. AuditLock \in Holds(p) => log' = log
        <5>1. CASE AuditLock \in Holds(r) /\ AuditLock \in Holds(p)
          <6>1. Conflict(AuditLock.mode, AuditLock.mode)
            BY DEF AuditLock, Own, Conflict
          <6>2. QED
            BY <1>1, <2>4, <5>1, <6>1, Excluded
        <5>2. QED
          BY <1>1, <3>3, <5>1, CommitLocks DEF TokenRevoked
      <4>3. ASSUME q.kind = "update", Own(q.target) \in Holds(p)
            PROVE  users'[q.target].manual = users[q.target].manual
        <5>1. q.target \in Users
          BY <4>1, <4>3 DEF Named
        <5>2. Own(q.target) \notin Holds(r)
          <6>1. Conflict(Own(q.target).mode, Own(q.target).mode)
            BY DEF Own, Conflict
          <6>2. QED
            BY <1>1, <2>4, <4>3, <6>1, Excluded
        <5>3. QED
          BY <1>1, <3>3, <5>1, <5>2, CommitUsers
      <4>4. ASSUME q.kind \in {"callback", "password"}
            PROVE  /\ users'[q.target].mapped = users[q.target].mapped
                   /\ Write(q.target) \in Holds(p) => users'[q.target].manual = users[q.target].manual
        <5>1. q.target \in Users
          BY <4>1, <4>4 DEF Named
        <5>2. requests[r].kind \notin {"callback", "password"}
          BY <1>1, <2>4, <4>1, <4>4 DEF LocksInv, OneLogin, IsLogin
        <5>3. ~(Write(q.target) \in Holds(p) /\ Own(q.target) \in Holds(r))
          <6>1. Conflict(Write(q.target).mode, Own(q.target).mode) /\ Write(q.target).on = Own(q.target).on
            BY DEF Own, Write, Conflict
          <6>2. QED
            BY <1>1, <2>4, <6>1, Excluded
        <5>4. QED
          BY <1>1, <3>3, <5>1, <5>2, <5>3, CommitUsers
      <4> HIDE DEF q
      <4>5. QED
        BY <3>1, <4>2, <4>3, <4>4 DEF ReadStill, q
    <3>4. QED
      BY <1>6, <3>2, <3>3
  <2>5. \A p \in Requests : requests'[p].at = "running" => ReadStill(requests'[p], Holds(p)', users', Len(log'))
    BY <2>2, <2>3, <2>4, IdleFields DEF Running
  <2>6. QED
    BY <2>5 DEF Reads, Running
<1>7. QED
  BY <1>1, <1>2, <1>3, <1>4, <1>5, <1>6, Steps

-----------------------------------------------------------------------------
(* What the log tells of an account.  Told is the only function that obeys its
   equation, which would take an induction over the log; instead every function
   that obeys it tells the truth so far, and there is one. *)

Tells(events, u, f) ==
  f = [k \in 0 .. Len(events) |->
         IF k = 0 THEN [Start[u] EXCEPT !.exists = TRUE] ELSE After(f[k - 1], events[k], u)]

Chronicle(events, u, account) ==
  /\ \E f : Tells(events, u, f)
  /\ \A f : Tells(events, u, f) =>
       /\ f[Len(events)] = account
       /\ \A i \in 1 .. Len(events) :
            events[i].kind = "login" /\ events[i].user = u => events[i].roles = f[i - 1].manual \cup f[i - 1].mapped

LEMMA TellsIs ==
  ASSUME NEW events \in Seq(Event), NEW u, NEW f
  PROVE  Tells(events, u, f) <=>
           /\ f = [k \in 0 .. Len(events) |-> f[k]]
           /\ f[0] = [Start[u] EXCEPT !.exists = TRUE]
           /\ \A k \in 1 .. Len(events) : f[k] = After(f[k - 1], events[k], u)
<1>1. Len(events) \in Nat
  OBVIOUS
<1> DEFINE Step(k) == IF k = 0 THEN [Start[u] EXCEPT !.exists = TRUE] ELSE After(f[k - 1], events[k], u)
<1>2. Step(0) = [Start[u] EXCEPT !.exists = TRUE] /\ \A k \in 1 .. Len(events) : Step(k) = After(f[k - 1], events[k], u)
  OBVIOUS
<1>3. Tells(events, u, f) <=> f = [k \in 0 .. Len(events) |-> Step(k)]
  BY DEF Tells
<1> HIDE DEF Step
<1>4. ASSUME f = [k \in 0 .. Len(events) |-> Step(k)]
      PROVE  f = [k \in 0 .. Len(events) |-> f[k]] /\ \A k \in 0 .. Len(events) : f[k] = Step(k)
  BY <1>4
<1>5. ASSUME f = [k \in 0 .. Len(events) |-> f[k]], \A k \in 0 .. Len(events) : f[k] = Step(k)
      PROVE  f = [k \in 0 .. Len(events) |-> Step(k)]
  BY <1>5
<1>6. (\A k \in 0 .. Len(events) : f[k] = Step(k)) <=> f[0] = Step(0) /\ \A k \in 1 .. Len(events) : f[k] = Step(k)
  BY <1>1
<1>7. QED
  BY <1>2, <1>3, <1>4, <1>5, <1>6

(* One more event: the account is what it was, after the event. *)
LEMMA OneMore ==
  ASSUME NEW events \in Seq(Event), NEW u, NEW account, NEW e \in Event, Chronicle(events, u, account),
         e.kind = "login" /\ e.user = u => e.roles = account.manual \cup account.mapped
  PROVE  Chronicle(Append(events, e), u, After(account, e, u))
<1> DEFINE n == Len(events)
<1> DEFINE more == Append(events, e)
<1>1. /\ n \in Nat /\ more \in Seq(Event) /\ Len(more) = n + 1 /\ more[n + 1] = e
      /\ \A k \in 1 .. n : more[k] = events[k]
  BY AppendProperties
<1> HIDE DEF more
<1>2. \E g : Tells(more, u, g)
  <2>1. PICK f : Tells(events, u, f)
    BY DEF Chronicle
  <2>2. f[0] = [Start[u] EXCEPT !.exists = TRUE] /\ \A k \in 1 .. n : f[k] = After(f[k - 1], events[k], u)
    BY <2>1, TellsIs
  <2> DEFINE g == [k \in 0 .. n + 1 |-> IF k = n + 1 THEN After(f[n], e, u) ELSE f[k]]
  <2>3. g[n + 1] = After(f[n], e, u) /\ \A k \in 0 .. n : g[k] = f[k]
    BY <1>1
  <2>4. g = [k \in 0 .. n + 1 |-> g[k]]
    OBVIOUS
  <2> HIDE DEF g
  <2>5. g[0] = [Start[u] EXCEPT !.exists = TRUE]
    BY <1>1, <2>2, <2>3
  <2>6. \A k \in 1 .. n + 1 : g[k] = After(g[k - 1], more[k], u)
    <3>1. ASSUME NEW k \in 1 .. n
          PROVE  g[k] = After(g[k - 1], more[k], u)
      <4>1. k - 1 \in 0 .. n /\ k \in 0 .. n
        BY <1>1
      <4>2. g[k] = f[k] /\ g[k - 1] = f[k - 1] /\ more[k] = events[k] /\ f[k] = After(f[k - 1], events[k], u)
        BY <1>1, <2>2, <2>3, <4>1
      <4>3. QED
        BY <4>2
    <3>2. g[n + 1] = After(g[(n + 1) - 1], more[n + 1], u)
      BY <1>1, <2>3
    <3>3. \A k \in 1 .. n + 1 : k \in 1 .. n \/ k = n + 1
      BY <1>1
    <3>4. QED
      BY <3>1, <3>2, <3>3
  <2>7. Tells(more, u, g)
    BY <1>1, <2>4, <2>5, <2>6, TellsIs
  <2>8. QED
    BY <2>7
<1>3. ASSUME NEW g, Tells(more, u, g)
      PROVE  /\ g[n + 1] = After(account, e, u)
             /\ \A i \in 1 .. n + 1 :
                  more[i].kind = "login" /\ more[i].user = u => more[i].roles = g[i - 1].manual \cup g[i - 1].mapped
  <2>1. /\ g[0] = [Start[u] EXCEPT !.exists = TRUE]
        /\ \A k \in 1 .. n + 1 : g[k] = After(g[k - 1], more[k], u)
    <3>1. more \in Seq(Event) /\ Tells(more, u, g)
      BY <1>1, <1>3
    <3>2. /\ g[0] = [Start[u] EXCEPT !.exists = TRUE]
          /\ \A k \in 1 .. Len(more) : g[k] = After(g[k - 1], more[k], u)
      BY <3>1, TellsIs, ZenonT(40)
    <3>3. QED
      BY <1>1, <3>2
  <2> DEFINE f == [k \in 0 .. n |-> g[k]]
  <2>2. \A k \in 0 .. n : f[k] = g[k]
    OBVIOUS
  <2>3. f = [k \in 0 .. n |-> f[k]]
    OBVIOUS
  <2> HIDE DEF f
  <2>4. f[0] = [Start[u] EXCEPT !.exists = TRUE]
    BY <1>1, <2>1, <2>2
  <2>5. \A k \in 1 .. n : f[k] = After(f[k - 1], events[k], u)
    <3>1. ASSUME NEW k \in 1 .. n
          PROVE  f[k] = After(f[k - 1], events[k], u)
      <4>1. k - 1 \in 0 .. n /\ k \in 0 .. n /\ k \in 1 .. n + 1
        BY <1>1
      <4>2. g[k] = f[k] /\ g[k - 1] = f[k - 1] /\ more[k] = events[k] /\ g[k] = After(g[k - 1], more[k], u)
        BY <1>1, <2>1, <2>2, <4>1
      <4>3. QED
        BY <4>2
    <3>2. QED
      BY <3>1
  <2>6. Tells(events, u, f)
    BY <2>3, <2>4, <2>5, TellsIs
  <2>7. /\ f[n] = account
        /\ \A i \in 1 .. n :
             events[i].kind = "login" /\ events[i].user = u => events[i].roles = f[i - 1].manual \cup f[i - 1].mapped
    BY <2>6 DEF Chronicle
  <2>8. g[n] = account /\ g[n + 1] = After(account, e, u)
    <3>1. n \in 0 .. n /\ n + 1 \in 1 .. n + 1 /\ (n + 1) - 1 = n
      BY <1>1
    <3>2. g[n + 1] = After(g[(n + 1) - 1], more[n + 1], u)
      BY <2>1, <3>1
    <3>3. QED
      BY <1>1, <2>2, <2>7, <3>1, <3>2
  <2>9. ASSUME NEW i \in 1 .. n + 1, more[i].kind = "login", more[i].user = u
        PROVE  more[i].roles = g[i - 1].manual \cup g[i - 1].mapped
    <3>1. CASE i = n + 1
      <4>1. i - 1 = n
        BY <1>1, <3>1
      <4>2. QED
        BY <1>1, <2>8, <2>9, <3>1, <4>1
    <3>2. CASE i # n + 1
      <4>1. i \in 1 .. n /\ i - 1 \in 0 .. n
        BY <1>1, <3>2
      <4>2. more[i] = events[i] /\ g[i - 1] = f[i - 1]
        BY <1>1, <2>2, <4>1
      <4>3. QED
        BY <2>7, <2>9, <4>1, <4>2
    <3>3. QED
      BY <3>1, <3>2
  <2>10. QED
    BY <2>8, <2>9
<1>4. QED
  BY <1>1, <1>2, <1>3 DEF Chronicle, more

(* Nothing is told yet. *)
LEMMA NothingTold ==
  ASSUME NEW u
  PROVE  Chronicle(<<>>, u, [Start[u] EXCEPT !.exists = TRUE])
<1> DEFINE first == [Start[u] EXCEPT !.exists = TRUE]
<1>1. <<>> \in Seq(Event) /\ Len(<<>>) = 0 /\ \A i \in 1 .. 0 : FALSE
  OBVIOUS
<1>2. \A g : Tells(<<>>, u, g) <=> g = [k \in 0 .. 0 |-> first]
  <2>1. \A g : [k \in 0 .. 0 |-> IF k = 0 THEN first ELSE After(g[k - 1], <<>>[k], u)] = [k \in 0 .. 0 |-> first]
    OBVIOUS
  <2>2. QED
    BY <1>1, <2>1 DEF Tells
<1>3. [k \in 0 .. 0 |-> first][0] = first
  OBVIOUS
<1> HIDE DEF first
<1>4. Chronicle(<<>>, u, first)
  BY <1>1, <1>2, <1>3 DEF Chronicle
<1>5. QED
  BY <1>4 DEF first

Chain(events) ==
  \A i \in 1 .. Len(events) : events[i].prev = i - 1 /\ (events[i].kind = "login" => events[i].user \in Users)

HistoryInv == ReadsInv /\ Chain(log) /\ \A u \in Users : Chronicle(log, u, Account(u))

LEMMA ToldIs ==
  ASSUME NEW u, \E f : Tells(log, u, f)
  PROVE  \E f : Tells(log, u, f) /\ \A n : Told(u, n) = f[n]
<1> DEFINE c == CHOOSE f : Tells(log, u, f)
<1>1. Tells(log, u, c)
  OBVIOUS
<1>2. \A n : Told(u, n) = c[n]
  BY DEF Told, Tells
<1> HIDE DEF c
<1>3. QED
  BY <1>1, <1>2

(* The history so far is what the log tells. *)
LEMMA HistoryTells ==
  ASSUME HistoryInv
  PROVE  AuditTrue
<1>1. Shape /\ log \in Seq(Event) /\ DOMAIN log = 1 .. Len(log) /\ Len(log) \in Nat
  BY DEF HistoryInv, ReadsInv, LocksInv, Shape, TypeOK
<1>2. ASSUME NEW u \in Users
      PROVE  /\ Told(u, Len(log)) = Account(u)
             /\ \A i \in DOMAIN log :
                  log[i].kind = "login" /\ log[i].user = u =>
                    log[i].roles = Told(u, i - 1).manual \cup Told(u, i - 1).mapped
  <2>1. Chronicle(log, u, Account(u))
    BY DEF HistoryInv
  <2>2. PICK f : Tells(log, u, f) /\ \A n : Told(u, n) = f[n]
    BY <2>1, ToldIs DEF Chronicle
  <2>3. /\ f[Len(log)] = Account(u)
        /\ \A i \in 1 .. Len(log) :
             log[i].kind = "login" /\ log[i].user = u => log[i].roles = f[i - 1].manual \cup f[i - 1].mapped
    BY <2>1, <2>2 DEF Chronicle
  <2>4. QED
    BY <1>1, <2>2, <2>3
<1>3. \A u \in Users : users[u].exists => users[u] = Told(u, Len(log))
  <2>1. ASSUME NEW u \in Users, users[u].exists
        PROVE  users[u] = Account(u)
    <3>1. /\ Account(u) \in User /\ Account(u).exists = TRUE /\ Account(u).active = users[u].active
          /\ Account(u).manual = users[u].manual /\ Account(u).mapped = users[u].mapped
          /\ users[u] \in User
      BY <1>1, AccountIs
    <3>2. users[u].exists = Account(u).exists
      BY <2>1, <3>1 DEF User
    <3>3. QED
      BY <3>1, <3>2, SameUser
  <2>2. QED
    BY <1>2, <2>1
<1>4. \A i \in DOMAIN log : log[i].kind = "login" =>
        log[i].roles = Told(log[i].user, i - 1).manual \cup Told(log[i].user, i - 1).mapped
  <2>1. ASSUME NEW i \in DOMAIN log, log[i].kind = "login"
        PROVE  log[i].user \in Users
    BY <1>1, <2>1 DEF HistoryInv, Chain
  <2>2. QED
    BY <1>2, <2>1
<1>5. QED
  BY <1>1, <1>3, <1>4 DEF AuditTrue, HistoryInv, Chain

LEMMA ChainMore ==
  ASSUME NEW events \in Seq(Event), NEW e \in Event, Chain(events), e.prev = Len(events),
         e.kind = "login" => e.user \in Users
  PROVE  Chain(Append(events, e))
<1>1. /\ Len(events) \in Nat /\ Len(Append(events, e)) = Len(events) + 1
      /\ Append(events, e)[Len(events) + 1] = e
      /\ \A i \in 1 .. Len(events) : Append(events, e)[i] = events[i]
  BY AppendProperties
<1>2. \A i \in 1 .. Len(events) + 1 : i \in 1 .. Len(events) \/ i = Len(events) + 1
  BY <1>1
<1>3. QED
  BY <1>1, <1>2 DEF Chain

LEMMA HistoryStep ==
  ASSUME HistoryInv, [Next]_vars
  PROVE  Chain(log') /\ \A u \in Users : Chronicle(log', u, Account(u)')
<1>1. /\ ReadsInv /\ Shape /\ log \in Seq(Event) /\ Chain(log)
      /\ \A u \in Users : Chronicle(log, u, Account(u)) /\ Account(u) \in User
  BY AccountIs DEF HistoryInv, ReadsInv, LocksInv, Shape, TypeOK
<1>2. ASSUME users' = users, log' = log
      PROVE  Chain(log') /\ \A u \in Users : Chronicle(log', u, Account(u)')
  BY <1>1, <1>2 DEF Account
<1>3. ASSUME NEW r \in Requests, CommitIs(r)
      PROVE  Chain(log') /\ \A u \in Users : Chronicle(log', u, Account(u)')
  <2>1. CASE UNCHANGED <<users, sessions, log>>
    BY <1>2, <2>1
  <2>2. CASE \E e : Writes(e) /\ log' = Append(log, e) /\ sessions' = sessions
    <3>1. PICK e : Writes(e) /\ log' = Append(log, e)
      BY <2>2
    <3>2. /\ e \in Event /\ e.prev = Len(log) /\ e.kind # "login"
          /\ \A u \in Users : Account(u)' = After(Account(u), e, u)
      BY <3>1 DEF Writes
    <3>3. Chain(log')
      BY <1>1, <3>1, <3>2, ChainMore
    <3>4. ASSUME NEW u \in Users
          PROVE  Chronicle(log', u, Account(u)')
      <4>1. Chronicle(Append(log, e), u, After(Account(u), e, u))
        BY <1>1, <3>2, OneMore
      <4>2. QED
        BY <3>1, <3>2, <4>1
    <3>5. QED
      BY <3>3, <3>4
  <2>3. CASE \E e : /\ LogsIn(r, e) /\ e.prev = Len(log) /\ log' = Append(log, e)
                    /\ \A u \in Users : Account(u)' = Account(u)
    <3>1. PICK e : /\ LogsIn(r, e) /\ e.prev = Len(log) /\ log' = Append(log, e)
                   /\ \A u \in Users : Account(u)' = Account(u)
      BY <2>3
    <3>2. /\ e \in Event /\ e.kind = "login" /\ e.user \in Users
          /\ e.roles = Account(e.user)'.manual \cup Account(e.user)'.mapped
      BY <3>1 DEF LogsIn
    <3>3. Chain(log')
      BY <1>1, <3>1, <3>2, ChainMore
    <3>4. ASSUME NEW u \in Users
          PROVE  Chronicle(log', u, Account(u)')
      <4>1. e.user = u => e.roles = Account(u).manual \cup Account(u).mapped
        BY <3>1, <3>2
      <4>2. After(Account(u), e, u) = Account(u)
        BY <1>1, <3>2, AfterIs
      <4>3. Chronicle(Append(log, e), u, After(Account(u), e, u))
        BY <1>1, <3>2, <4>1, OneMore
      <4>4. QED
        BY <3>1, <4>2, <4>3
    <3>5. QED
      BY <3>3, <3>4
  <2>4. CASE \E s, e : Writes(s) /\ LogsIn(r, e) /\ e.prev = Len(log) + 1 /\ log' = Append(Append(log, s), e)
    <3>1. PICK s, e : Writes(s) /\ LogsIn(r, e) /\ e.prev = Len(log) + 1 /\ log' = Append(Append(log, s), e)
      BY <2>4
    <3>2. /\ s \in Event /\ s.prev = Len(log) /\ s.kind # "login"
          /\ \A u \in Users : Account(u)' = After(Account(u), s, u)
      BY <3>1 DEF Writes
    <3>3. /\ e \in Event /\ e.kind = "login" /\ e.user \in Users
          /\ e.roles = Account(e.user)'.manual \cup Account(e.user)'.mapped
      BY <3>1 DEF LogsIn
    <3>4. PICK more : more = Append(log, s)
      OBVIOUS
    <3>5. more \in Seq(Event) /\ Len(more) = Len(log) + 1 /\ log' = Append(more, e)
      BY <1>1, <3>1, <3>2, <3>4, AppendProperties
    <3>6. Chain(more)
      BY <1>1, <3>2, <3>4, ChainMore
    <3>7. Chain(log')
      BY <3>1, <3>3, <3>5, <3>6, ChainMore
    <3>8. ASSUME NEW u \in Users
          PROVE  Chronicle(log', u, Account(u)')
      <4>1. PICK account : account = Account(u)'
        OBVIOUS
      <4>2. account = After(Account(u), s, u) /\ account \in User
        BY <1>1, <3>2, <4>1, AfterIs
      <4>3. Chronicle(more, u, account)
        BY <1>1, <3>2, <3>4, <4>2, OneMore
      <4>4. e.user = u => e.roles = account.manual \cup account.mapped
        BY <3>3, <4>1
      <4>5. After(account, e, u) = account
        BY <3>3, <4>2, AfterIs
      <4>6. Chronicle(Append(more, e), u, After(account, e, u))
        BY <3>3, <3>5, <4>3, <4>4, OneMore
      <4>7. QED
        BY <3>5, <4>1, <4>5, <4>6
    <3>9. QED
      BY <3>7, <3>8
  <2>5. QED
    BY <1>3, <2>1, <2>2, <2>3, <2>4 DEF CommitIs
<1>4. CASE UNCHANGED vars \/ LoginMoves \/ Crash \/ \E s \in DOMAIN sessions : Logout(s)
  BY <1>2, <1>4 DEF vars, LoginMoves, Crash, Logout
<1>5. ASSUME NEW r \in Requests, (\E q : Starts(r, q)) \/ Acquire(r) \/ Aborted(r)
      PROVE  users' = users /\ log' = log
  BY <1>5 DEF Starts, Acquire, Aborted
<1>6. QED
  BY <1>1, <1>2, <1>3, <1>4, <1>5, Steps, CommitWrites

LEMMA ReadsInvStep ==
  ASSUME ReadsInv, [Next]_vars
  PROVE  ReadsInv'
<1>1. LocksInv' /\ Reads'
  BY LocksStep, ReadsStep DEF ReadsInv
<1>2. QED
  BY <1>1 DEF ReadsInv

LEMMA ReadsInit ==
  ASSUME Init
  PROVE  ReadsInv
<1>1. \A r \in Requests : requests[r].at = "idle"
  BY IdleFields DEF Init
<1>2. QED
  BY <1>1, LocksInit DEF ReadsInv, Reads, Running

LEMMA HistoryInvStep ==
  ASSUME HistoryInv, [Next]_vars
  PROVE  HistoryInv'
<1>1. ReadsInv'
  BY ReadsInvStep DEF HistoryInv
<1>2. Chain(log') /\ \A u \in Users : Chronicle(log', u, Account(u)')
  BY HistoryStep
<1>3. QED
  BY <1>1, <1>2 DEF HistoryInv

LEMMA HistoryInit ==
  ASSUME Init
  PROVE  HistoryInv
<1>1. log = <<>> /\ users = Start
  BY DEF Init
<1>2. Chain(log)
  BY <1>1 DEF Chain
<1>3. \A u \in Users : Chronicle(log, u, Account(u))
  BY <1>1, NothingTold DEF Account
<1>4. QED
  BY <1>2, <1>3, ReadsInit DEF HistoryInv

(* AuditTrue, for any number of users, requests and events: what a request goes
   by was read under a lock that nobody else got before it committed, so each
   event follows the one it names, the accounts are what the events add up to,
   and a login records the roles it gives. *)
THEOREM AuditLogTrue == Spec => []AuditTrue
<1>1. Init => HistoryInv
  BY HistoryInit
<1>2. HistoryInv /\ [Next]_vars => HistoryInv'
  BY HistoryInvStep
<1>3. HistoryInv => AuditTrue
  BY HistoryTells
<1>4. QED
  BY <1>1, <1>2, <1>3, PTL DEF Spec

-----------------------------------------------------------------------------
(* Sessions. *)

(* A used login belongs to one request or to one session. *)
LoginsUsed ==
  /\ \A s \in 1 .. Len(sessions) : sessions[s].login # 0 => logins[sessions[s].login] = "consumed"
  /\ \A s, t \in 1 .. Len(sessions) : sessions[s].login = sessions[t].login /\ sessions[s].login # 0 => s = t
  /\ \A r \in Requests : requests[r].login # 0 =>
       /\ logins[requests[r].login] = "consumed"
       /\ \A s \in 1 .. Len(sessions) : sessions[s].login # requests[r].login
       /\ \A q \in Requests : q # r => requests[q].login # requests[r].login

(* The events of the sessions. *)
Recorded(events, made) ==
  /\ Started <= Len(made)
  /\ \A i \in 1 .. Len(events) : events[i].session <= Len(made)
  /\ \A i, j \in 1 .. Len(events) : events[i].session = events[j].session /\ events[i].session # 0 => i = j
  /\ \A s \in 1 .. Len(made) : s > Started =>
       \E i \in 1 .. Len(events) : events[i].session = s /\ events[i].user = made[s].user

SessionsInv == ReadsInv /\ LoginsUsed /\ Recorded(log, sessions)

LEMMA StartedIsNat == Started \in Nat
<1>1. IsFiniteSet(Administrators)
  BY AccessConstants, FS_Subset DEF Administrators
<1>2. SetToSeq(Administrators) \in Seq(Administrators)
  BY <1>1, SetToSeqIs
<1>3. QED
  BY <1>2 DEF Started, Administrators

LEMMA RecordedMore ==
  ASSUME NEW events \in Seq(Event), NEW made \in Seq(Session), NEW e \in Event, Recorded(events, made), e.session = 0
  PROVE  Recorded(Append(events, e), made)
<1> DEFINE more == Append(events, e)
<1>1. /\ Len(events) \in Nat /\ Len(made) \in Nat /\ Len(more) = Len(events) + 1
      /\ more[Len(events) + 1] = e /\ \A i \in 1 .. Len(events) : more[i] = events[i]
  BY AppendProperties
<1> HIDE DEF more
<1>2. \A i \in 1 .. Len(more) : i \in 1 .. Len(events) \/ i = Len(events) + 1
  BY <1>1
<1>3. \A i \in 1 .. Len(events) : i \in 1 .. Len(more)
  BY <1>1
<1>4. \A i \in 1 .. Len(more) : more[i].session <= Len(made)
  BY <1>1, <1>2 DEF Recorded
<1>5. \A i, j \in 1 .. Len(more) : more[i].session = more[j].session /\ more[i].session # 0 => i = j
  BY <1>1, <1>2 DEF Recorded
<1>6. \A s \in 1 .. Len(made) : s > Started => \E i \in 1 .. Len(more) : more[i].session = s /\ more[i].user = made[s].user
  BY <1>1, <1>3 DEF Recorded
<1>7. QED
  BY <1>4, <1>5, <1>6 DEF Recorded, more

LEMMA RecordedLogin ==
  ASSUME NEW events \in Seq(Event), NEW made \in Seq(Session), NEW e \in Event, NEW s \in Session,
         Recorded(events, made), e.session = Len(made) + 1, e.user = s.user
  PROVE  Recorded(Append(events, e), Append(made, s))
<1> DEFINE more == Append(events, e)
<1> DEFINE now == Append(made, s)
<1>1. /\ Len(events) \in Nat /\ Len(more) = Len(events) + 1
      /\ more[Len(events) + 1] = e /\ \A i \in 1 .. Len(events) : more[i] = events[i]
  BY AppendProperties
<1>2. /\ Len(made) \in Nat /\ Len(now) = Len(made) + 1
      /\ now[Len(made) + 1] = s /\ \A i \in 1 .. Len(made) : now[i] = made[i]
  BY AppendProperties
<1> HIDE DEF more, now
<1>3. \A i \in 1 .. Len(more) : i \in 1 .. Len(events) \/ i = Len(events) + 1
  BY <1>1
<1>4. ASSUME NEW i \in 1 .. Len(events)
      PROVE  i \in 1 .. Len(more) /\ events[i].session \in Nat /\ events[i].session <= Len(made)
  <2>1. events[i] \in Event
    BY <1>1
  <2>2. events[i].session \in Nat
    BY <2>1 DEF Event
  <2>3. QED
    BY <1>1, <2>2 DEF Recorded
<1>5. Len(events) + 1 \in 1 .. Len(more) /\ Started <= Len(now)
  BY <1>1, <1>2, StartedIsNat DEF Recorded
<1>6. \A i \in 1 .. Len(more) : more[i].session <= Len(now)
  BY <1>1, <1>2, <1>3, <1>4
<1>7. ASSUME NEW i \in 1 .. Len(more), NEW j \in 1 .. Len(more), more[i].session = more[j].session,
             more[i].session # 0
      PROVE  i = j
  <2>1. CASE i \in 1 .. Len(events) /\ j \in 1 .. Len(events)
    BY <1>1, <1>7, <2>1 DEF Recorded
  <2>2. CASE i = Len(events) + 1 /\ j \in 1 .. Len(events)
    BY <1>1, <1>2, <1>4, <1>7, <2>2
  <2>3. CASE i \in 1 .. Len(events) /\ j = Len(events) + 1
    BY <1>1, <1>2, <1>4, <1>7, <2>3
  <2>4. QED
    BY <1>3, <2>1, <2>2, <2>3
<1>8. ASSUME NEW t \in 1 .. Len(now), t > Started
      PROVE  \E i \in 1 .. Len(more) : more[i].session = t /\ more[i].user = now[t].user
  <2>1. CASE t = Len(made) + 1
    BY <1>1, <1>2, <1>5, <2>1
  <2>2. CASE t # Len(made) + 1
    <3>1. t \in 1 .. Len(made)
      BY <1>2, <2>2
    <3>2. PICK i \in 1 .. Len(events) : events[i].session = t /\ events[i].user = made[t].user
      BY <1>8, <3>1 DEF Recorded
    <3>3. QED
      BY <1>1, <1>2, <1>4, <3>1, <3>2
  <2>3. QED
    BY <2>1, <2>2
<1>9. QED
  BY <1>5, <1>6, <1>7, <1>8 DEF Recorded, more, now

(* What the events and the login of a session say of it does not end with it. *)
LEMMA RecordedLogout ==
  ASSUME SessionsInv, NEW s \in DOMAIN sessions, Logout(s)
  PROVE  LoginsUsed' /\ Recorded(log', sessions')
<1>1. sessions \in Seq(Session) /\ Shape
  BY DEF SessionsInv, ReadsInv, LocksInv, Shape, TypeOK
<1>2. /\ sessions' = [sessions EXCEPT ![s] = [sessions[s] EXCEPT !.live = FALSE]]
      /\ UNCHANGED <<logins, log, requests>>
  BY DEF Logout
<1>3. Len(sessions') = Len(sessions)
  BY <1>1, <1>2
<1>4. \A t \in 1 .. Len(sessions) : sessions'[t].login = sessions[t].login /\ sessions'[t].user = sessions[t].user
  <2>1. sessions[s] \in Session
    BY <1>1
  <2>2. [sessions[s] EXCEPT !.live = FALSE].login = sessions[s].login
        /\ [sessions[s] EXCEPT !.live = FALSE].user = sessions[s].user
    BY <2>1 DEF Session
  <2>3. QED
    BY <1>1, <1>2, <2>2
<1>5. LoginsUsed'
  BY <1>2, <1>3, <1>4 DEF SessionsInv, LoginsUsed
<1>6. Recorded(log', sessions')
  BY <1>2, <1>3, <1>4 DEF SessionsInv, Recorded
<1>7. QED
  BY <1>5, <1>6

LEMMA UsedTypes ==
  ASSUME Shape
  PROVE  /\ logins \in [Logins -> {"none", "asking", "open", "consumed", "gone"}]
         /\ sessions \in Seq(Session) /\ Len(sessions) \in Nat
         /\ \A s \in 1 .. Len(sessions) : sessions[s].login \in Logins \cup {0}
         /\ \A r \in Requests : requests[r].login \in Logins \cup {0}
<1>1. sessions \in Seq(Session) /\ logins \in [Logins -> {"none", "asking", "open", "consumed", "gone"}]
  BY DEF Shape, TypeOK
<1>2. ASSUME NEW s \in 1 .. Len(sessions)
      PROVE  sessions[s].login \in Logins \cup {0}
  <2>1. sessions[s] \in Session
    BY <1>1
  <2>2. QED
    BY <2>1 DEF Session
<1>3. QED
  BY <1>1, <1>2, RequestFields

(* Nobody comes to a login. *)
LEMMA UsedSame ==
  ASSUME Shape, LoginsUsed, sessions' = sessions,
         \A r \in Requests : requests'[r].login = 0 \/ requests'[r].login = requests[r].login,
         \A l \in Logins : logins[l] = "consumed" => logins'[l] = "consumed"
  PROVE  LoginsUsed'
BY UsedTypes DEF LoginsUsed

(* A request comes to one that nobody has used. *)
LEMMA UsedOpened ==
  ASSUME Shape, LoginsUsed, sessions' = sessions, NEW r \in Requests, NEW l \in Logins, logins[l] = "open",
         logins' = [logins EXCEPT ![l] = "consumed"], requests'[r].login = l,
         \A p \in Requests : p # r => requests'[p] = requests[p]
  PROVE  LoginsUsed'
<1>1. logins'[l] = "consumed" /\ \A k \in Logins : logins[k] = "consumed" => logins'[k] = "consumed"
  BY UsedTypes
<1>2. l \in Logins /\ l # 0
  BY AccessConstants
<1>3. /\ \A s \in 1 .. Len(sessions) : sessions[s].login # l
      /\ \A p \in Requests : requests[p].login # l
  BY <1>2 DEF LoginsUsed
<1>4. \A s \in 1 .. Len(sessions) : sessions[s].login # 0 => logins'[sessions[s].login] = "consumed"
  BY <1>1, UsedTypes DEF LoginsUsed
<1>5. ASSUME NEW p \in Requests, requests'[p].login # 0
      PROVE  /\ logins'[requests'[p].login] = "consumed"
             /\ \A s \in 1 .. Len(sessions) : sessions[s].login # requests'[p].login
             /\ \A q \in Requests : q # p => requests'[q].login # requests'[p].login
  <2>1. CASE p = r
    BY <1>1, <1>3, <2>1
  <2>2. CASE p # r
    BY <1>1, <1>3, <1>5, <2>2, UsedTypes DEF LoginsUsed
  <2>3. QED
    BY <2>1, <2>2
<1>6. QED
  BY <1>4, <1>5 DEF LoginsUsed

(* A request makes its login that of a session. *)
LEMMA UsedUp ==
  ASSUME Shape, LoginsUsed, NEW r \in Requests, NEW s \in Session, s.login = requests[r].login,
         sessions' = Append(sessions, s), logins' = logins, requests'[r].login = 0,
         \A p \in Requests : p # r => requests'[p] = requests[p]
  PROVE  LoginsUsed'
<1> DEFINE n == Len(sessions)
<1>1. /\ n \in Nat /\ Len(sessions') = n + 1 /\ sessions'[n + 1] = s
      /\ \A t \in 1 .. n : sessions'[t] = sessions[t]
  BY UsedTypes, AppendProperties
<1> HIDE DEF n
<1>2. \A t \in 1 .. n + 1 : t \in 1 .. n \/ t = n + 1
  BY <1>1
<1>3. /\ \A t \in 1 .. n : sessions[t].login # 0 => logins[sessions[t].login] = "consumed"
      /\ \A t, o \in 1 .. n : sessions[t].login = sessions[o].login /\ sessions[t].login # 0 => t = o
      /\ \A p \in Requests : requests[p].login # 0 =>
           /\ logins[requests[p].login] = "consumed"
           /\ \A t \in 1 .. n : sessions[t].login # requests[p].login
           /\ \A q \in Requests : q # p => requests[q].login # requests[p].login
  BY DEF LoginsUsed, n
<1>4. \A t \in 1 .. n + 1 : sessions'[t].login # 0 => logins[sessions'[t].login] = "consumed"
  BY <1>1, <1>2, <1>3
<1>5. \A t, o \in 1 .. n + 1 : sessions'[t].login = sessions'[o].login /\ sessions'[t].login # 0 => t = o
  BY <1>1, <1>2, <1>3
<1>6. ASSUME NEW p \in Requests, requests'[p].login # 0
      PROVE  /\ logins[requests'[p].login] = "consumed"
             /\ \A t \in 1 .. n + 1 : sessions'[t].login # requests'[p].login
             /\ \A q \in Requests : q # p => requests'[q].login # requests'[p].login
  <2>1. p # r /\ requests'[p] = requests[p]
    BY <1>6
  <2>2. \A t \in 1 .. n + 1 : sessions'[t].login # requests'[p].login
    BY <1>1, <1>2, <1>3, <1>6, <2>1
  <2>3. \A q \in Requests : q # p => requests'[q].login # requests'[p].login
    BY <1>3, <1>6, <2>1
  <2>4. QED
    <3>1. logins[requests'[p].login] = "consumed"
      <4>1. requests[p].login # 0
        BY <1>6, <2>1
      <4>2. logins[requests[p].login] = "consumed"
        BY <1>3, <4>1
      <4>3. QED
        BY <2>1, <4>2
    <3>2. QED
      BY <2>2, <2>3, <3>1
<1>7. QED
  BY <1>1, <1>4, <1>5, <1>6 DEF LoginsUsed

(* A commit ends one request, and leaves the login rows alone. *)
LEMMA CommitEnds ==
  ASSUME Shape, NEW r \in Requests, Committed(r)
  PROVE  /\ logins' = logins /\ requests'[r].login = 0
         /\ \A p \in Requests : p # r => requests'[p] = requests[p]
<1>1. requests' = [requests EXCEPT ![r] = Ended]
  BY CommitTokens
<1>2. requests'[r] = Ended /\ \A p \in Requests : p # r => requests'[p] = requests[p]
  BY <1>1, IdleFields, RequestsSet
<1>3. logins' = logins
  BY DEF Committed, LoggedIn, LoginFailed, UserUpdated, TokenCreated, TokenRevoked, ProviderPut
<1>4. QED
  BY <1>2, <1>3, IdleFields

LEMMA CommitSessions ==
  ASSUME SessionsInv, NEW r \in Requests, Committed(r)
  PROVE  LoginsUsed' /\ Recorded(log', sessions')
<1>1. Shape /\ log \in Seq(Event) /\ sessions \in Seq(Session) /\ LoginsUsed /\ Recorded(log, sessions)
  BY DEF SessionsInv, ReadsInv, LocksInv, Shape, TypeOK
<1>2. /\ logins' = logins /\ requests'[r].login = 0
      /\ \A p \in Requests : p # r => requests'[p] = requests[p]
  BY <1>1, CommitEnds
<1>3. sessions' = sessions => LoginsUsed'
  BY <1>1, <1>2, UsedSame
<1>4. ASSUME NEW e, LogsIn(r, e)
      PROVE  /\ LoginsUsed'
             /\ \A events \in Seq(Event) :
                  Recorded(events, sessions) => Recorded(Append(events, e), sessions')
  <2> DEFINE s == [user |-> e.user, login |-> requests[r].login, live |-> TRUE]
  <2>1. e \in Event /\ e.session = Len(sessions) + 1 /\ e.user \in Users /\ sessions' = Append(sessions, s)
    BY <1>4 DEF LogsIn
  <2>2. s \in Session /\ s.login = requests[r].login /\ s.user = e.user
    BY <1>1, <2>1, UsedTypes DEF Session
  <2> HIDE DEF s
  <2>3. LoginsUsed'
    BY <1>1, <1>2, <2>1, <2>2, UsedUp
  <2>4. \A events \in Seq(Event) : Recorded(events, sessions) => Recorded(Append(events, e), sessions')
    BY <1>1, <2>1, <2>2, RecordedLogin
  <2>5. QED
    BY <2>3, <2>4
<1>5. CASE UNCHANGED <<users, sessions, log>>
  BY <1>1, <1>3, <1>5
<1>6. CASE \E e : Writes(e) /\ log' = Append(log, e) /\ sessions' = sessions
  BY <1>1, <1>3, <1>6, RecordedMore DEF Writes
<1>7. CASE \E e : /\ LogsIn(r, e) /\ e.prev = Len(log) /\ log' = Append(log, e)
                  /\ \A u \in Users : Account(u)' = Account(u)
  BY <1>1, <1>4, <1>7
<1>8. CASE \E s, e : Writes(s) /\ LogsIn(r, e) /\ e.prev = Len(log) + 1 /\ log' = Append(Append(log, s), e)
  <2>1. PICK s, e : Writes(s) /\ LogsIn(r, e) /\ log' = Append(Append(log, s), e)
    BY <1>8
  <2>2. s \in Event /\ s.session = 0
    BY <2>1 DEF Writes
  <2>3. Append(log, s) \in Seq(Event) /\ Recorded(Append(log, s), sessions)
    BY <1>1, <2>2, AppendProperties, RecordedMore
  <2>4. QED
    BY <1>4, <2>1, <2>3
<1>9. CommitIs(r)
  BY CommitWrites DEF SessionsInv
<1>10. QED
  BY <1>5, <1>6, <1>7, <1>8, <1>9 DEF CommitIs

LEMMA SessionsStep ==
  ASSUME SessionsInv, [Next]_vars
  PROVE  LoginsUsed' /\ Recorded(log', sessions')
<1>1. /\ Shape /\ log \in Seq(Event) /\ sessions \in Seq(Session) /\ LoginsUsed
      /\ Recorded(log, sessions) /\ requests \in [Requests -> Request]
  BY DEF SessionsInv, ReadsInv, LocksInv, Shape, TypeOK
<1>2. CASE UNCHANGED vars
  BY <1>1, <1>2, UsedSame DEF vars
<1>3. CASE LoginMoves
  <2>1. /\ UNCHANGED <<sessions, log, requests>>
        /\ \A l \in Logins : logins[l] = "consumed" => logins'[l] = "consumed"
    BY <1>1, <1>3, UsedTypes DEF LoginMoves
  <2>2. QED
    BY <1>1, <2>1, UsedSame
<1>4. CASE Crash
  <2>1. /\ UNCHANGED <<sessions, log>>
        /\ \A r \in Requests : requests'[r].login = 0
        /\ \A l \in Logins : logins[l] = "consumed" => logins'[l] = "consumed"
    BY <1>4, IdleFields DEF Crash
  <2>2. QED
    BY <1>1, <2>1, UsedSame
<1>5. ASSUME NEW r \in Requests, NEW q, Starts(r, q)
      PROVE  LoginsUsed' /\ Recorded(log', sessions')
  <2>1. /\ UNCHANGED <<sessions, log>> /\ q \in Request /\ requests' = [requests EXCEPT ![r] = q]
        /\ \/ logins' = logins /\ q.login \in {0, requests[r].login}
           \/ \E l \in Logins : logins[l] = "open" /\ logins' = [logins EXCEPT ![l] = "consumed"] /\ q.login = l
    BY <1>5 DEF Starts
  <2>2. requests'[r] = q /\ \A p \in Requests : p # r => requests'[p] = requests[p]
    BY <1>1, <2>1
  <2>3. CASE logins' = logins /\ q.login \in {0, requests[r].login}
    BY <1>1, <2>1, <2>2, <2>3, UsedSame
  <2>4. CASE \E l \in Logins : logins[l] = "open" /\ logins' = [logins EXCEPT ![l] = "consumed"] /\ q.login = l
    BY <1>1, <2>1, <2>2, <2>4, UsedOpened
  <2>5. QED
    BY <2>1, <2>3, <2>4
<1>6. ASSUME NEW r \in Requests, Acquire(r)
      PROVE  LoginsUsed' /\ Recorded(log', sessions')
  <2> DEFINE wish == Head(requests[r].wants)
  <2> DEFINE read == Read(r, wish)
  <2>1. /\ UNCHANGED <<sessions, log, logins>> /\ requests' = [requests EXCEPT ![r] = read]
        /\ Running(r) /\ requests[r].wants # <<>>
    BY <1>6 DEF Acquire, Running
  <2>2. read.login = requests[r].login
    BY <1>1, <2>1, ReadIs DEF ReadTrue
  <2> HIDE DEF read
  <2>3. requests'[r] = read /\ \A p \in Requests : p # r => requests'[p] = requests[p]
    BY <1>1, <2>1
  <2>4. QED
    BY <1>1, <2>1, <2>2, <2>3, UsedSame
<1>7. ASSUME NEW r \in Requests, Aborted(r)
      PROVE  LoginsUsed' /\ Recorded(log', sessions')
  <2>1. UNCHANGED <<sessions, log, logins>> /\ requests' = [requests EXCEPT ![r] = Ended]
    BY <1>7 DEF Aborted
  <2>2. requests'[r] = Ended /\ \A p \in Requests : p # r => requests'[p] = requests[p]
    BY <1>1, <2>1
  <2>3. QED
    BY <1>1, <2>1, <2>2, IdleFields, UsedSame
<1>8. QED
  BY <1>1, <1>2, <1>3, <1>4, <1>5, <1>6, <1>7, Steps, RecordedLogout, CommitSessions

LEMMA SessionsInvStep ==
  ASSUME SessionsInv, [Next]_vars
  PROVE  SessionsInv'
<1>1. ReadsInv'
  BY ReadsInvStep DEF SessionsInv
<1>2. LoginsUsed' /\ Recorded(log', sessions')
  BY SessionsStep
<1>3. QED
  BY <1>1, <1>2 DEF SessionsInv

LEMMA SessionsInit ==
  ASSUME Init
  PROVE  SessionsInv
<1>1. /\ sessions \in Seq(Session) /\ Len(sessions) = Started
      /\ \A s \in 1 .. Len(sessions) : sessions[s].login = 0
  BY FirstSessions
<1>2. log = <<>> /\ \A r \in Requests : requests[r].login = 0
  BY IdleFields DEF Init
<1>3. LoginsUsed
  BY <1>1, <1>2 DEF LoginsUsed
<1>4. Recorded(log, sessions)
  BY <1>1, <1>2, StartedIsNat DEF Recorded
<1>5. QED
  BY <1>3, <1>4, ReadsInit DEF SessionsInv

LEMMA SessionsTell ==
  ASSUME SessionsInv
  PROVE  OneSessionPerLogin
<1>1. /\ DOMAIN sessions = 1 .. Len(sessions) /\ DOMAIN log = 1 .. Len(log) /\ Started \in Nat
      /\ LoginsUsed /\ Recorded(log, sessions)
  BY StartedIsNat DEF SessionsInv, ReadsInv, LocksInv, Shape, TypeOK
<1>2. ASSUME NEW s \in DOMAIN sessions, s > Started
      PROVE  Cardinality({i \in DOMAIN log : log[i].session = s /\ log[i].user = sessions[s].user}) = 1
  <2>1. PICK i \in DOMAIN log : log[i].session = s /\ log[i].user = sessions[s].user
    BY <1>1, <1>2 DEF Recorded
  <2>2. s # 0
    BY <1>1, <1>2
  <2>3. \A j \in DOMAIN log : log[j].session = s => j = i
    BY <1>1, <2>1, <2>2 DEF Recorded
  <2>4. {j \in DOMAIN log : log[j].session = s /\ log[j].user = sessions[s].user} = {i}
    BY <2>1, <2>3
  <2>5. QED
    BY <2>4, FS_Singleton
<1>3. QED
  BY <1>1, <1>2 DEF OneSessionPerLogin, LoginsUsed

(* OneSessionPerLogin, for any number of requests and logins: complete_redirect_login
   goes on with a row only if it finds it open, and consumes it, so a used row is with
   one request or one session, and the commit that makes a session writes its event. *)
THEOREM OneSession == Spec => []OneSessionPerLogin
<1>1. Init => SessionsInv
  BY SessionsInit
<1>2. SessionsInv /\ [Next]_vars => SessionsInv'
  BY SessionsInvStep
<1>3. SessionsInv => OneSessionPerLogin
  BY SessionsTell
<1>4. QED
  BY <1>1, <1>2, <1>3, PTL DEF Spec
=============================================================================
