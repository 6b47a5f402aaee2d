-------------------------------- MODULE Access --------------------------------
(***************************************************************************)
(* Logins, sessions, roles, API tokens and the security audit log (auth/,   *)
(* audit/service.py, api/auth.py, api/identity_admin.py): what one request  *)
(* commits while the others wait for locks.                                 *)
(*                                                                         *)
(* Logins run in the event loop: from a directory's answer to its commit a  *)
(* login holds the loop, the time it waits for a lock included.  The rest   *)
(* are threads.  A transaction takes row locks and the advisory lock of the *)
(* audit log in the order it flushes, and keeps them to its end; the        *)
(* database aborts one of a circle.                                         *)
(***************************************************************************)
EXTENDS Integers, FiniteSets, Sequences, SequencesExt

CONSTANTS
  Requests,       \* requests of one lifetime, in the order they come: 1 .. n
  Users, Roles,
  Logins,         \* auth_login_transaction rows: 1 .. n
  Tokens,         \* api_token rows
  Mappings,       \* the roles group_role_mapping may give to the directory's group
  Start,          \* user_account and role_binding at first
  Admin,          \* the role of Roles every administrative permission is in
  MaxCrashes

NoUser == "nobody"
Directory == "directory"     \* an oidc, saml or ldap provider, its row
Audit == "audit"             \* AUDIT_LOCK_KEY

(* manual: bindings without a provider; mapped: the directory's. *)
User == [exists : BOOLEAN, active : BOOLEAN, manual : SUBSET Roles, mapped : SUBSET Roles]

ASSUME AccessAssumption ==
  /\ IsFiniteSet(Requests) /\ Requests \subseteq Nat /\ Logins \subseteq Nat \ {0}
  /\ IsFiniteSet(Users) /\ Start \in [Users -> User]
  /\ {NoUser, Directory, Audit} \cap (Users \cup Tokens) = {} /\ Users \cap Tokens = {}
  /\ Mappings \subseteq SUBSET Roles /\ Mappings # {} /\ Admin \in Roles
  /\ MaxCrashes \in Nat

VARIABLES
  users, provider,  \* user_account with role_binding; identity_provider
  logins,           \* auth_login_transaction
  sessions,         \* auth_session, in the order of their commits
  tokens,           \* api_token: none, active or revoked
  log,              \* security_audit_event, committed
  requests, locks, crashes

vars == <<users, provider, logins, sessions, tokens, log, requests, locks, crashes>>

Session == [user : Users, login : Logins \cup {0}, live : BOOLEAN]
Provider == [enabled : BOOLEAN, mapping : Mappings]

(* roles: of an update those it gives, of a login those of its session; added
   and removed: of a synchronisation. *)
Event == [kind : {"login", "failed", "synced", "updated", "created", "revoked", "provider"},
          user : Users \cup {NoUser}, active : BOOLEAN, roles : SUBSET Roles,
          added : SUBSET Roles, removed : SUBSET Roles, session : Nat, prev : Nat]

Mode == {"share", "write", "own"}    \* KEY SHARE, NO KEY UPDATE, UPDATE
Wish == [on : Users \cup Tokens \cup {Directory, Audit}, mode : Mode]

(* wants: the locks still to take, in order; seen: the bindings the request has
   read and goes by; prev: the last event when it took the audit lock. *)
Kinds == {"callback", "password", "failed", "update", "create", "revoke", "provider"}
Request == [at : {"idle", "remote", "running", "ended"}, kind : Kinds, actor : Users \cup {NoUser},
            target : Users \cup {NoUser}, login : Logins \cup {0}, token : Tokens \cup {NoUser},
            active : BOOLEAN, roles : SUBSET Roles, mapped : SUBSET Roles,
            seen : SUBSET Roles, prev : Nat, wants : Seq(Wish)]

TypeOK ==
  /\ users \in [Users -> User]
  /\ provider \in Provider
  /\ logins \in [Logins -> {"none", "asking", "open", "consumed", "gone"}]
  /\ sessions \in Seq(Session)
  /\ tokens \in [Tokens -> {"none", "active", "revoked"}]
  /\ log \in Seq(Event)
  /\ requests \in [Requests -> Request]
  /\ \A l \in locks : l.by \in Requests /\ [on |-> l.on, mode |-> l.mode] \in Wish
  /\ crashes \in 0 .. MaxCrashes
  /\ \A l \in locks : requests[l.by].at = "running"

Idle == [at |-> "idle", kind |-> "password", actor |-> NoUser, target |-> NoUser, login |-> 0,
         token |-> NoUser, active |-> TRUE, roles |-> {}, mapped |-> {}, seen |-> {}, prev |-> 0,
         wants |-> <<>>]
Ended == [Idle EXCEPT !.at = "ended"]

(* The administrators of Start are logged in. *)
Init ==
  /\ users = Start
  /\ provider \in [enabled : {TRUE}, mapping : Mappings]
  /\ logins = [l \in Logins |-> "none"]
  /\ sessions = SetToSeq({[user |-> u, login |-> 0, live |-> TRUE] :
                          u \in {v \in Users : Start[v].exists /\ Admin \in Start[v].manual}})
  /\ tokens = [t \in Tokens |-> "none"] /\ log = <<>>
  /\ requests = [r \in Requests |-> Idle]
  /\ locks = {} /\ crashes = 0

Started == Len(SetToSeq({u \in Users : Start[u].exists /\ Admin \in Start[u].manual}))

Fresh(r) == requests[r].at = "idle" /\ \A q \in Requests : q < r => requests[q].at # "idle"
IsLogin(kind) == kind \in {"callback", "password", "failed"}
LoopFree == \A r \in Requests : requests[r].at = "running" => ~IsLogin(requests[r].kind)

-----------------------------------------------------------------------------
(* Locks. *)

Share(x) == [on |-> x, mode |-> "share"]
Write(x) == [on |-> x, mode |-> "write"]
Own(x)   == [on |-> x, mode |-> "own"]
(* For a mutant: pg_advisory_xact_lock_shared. *)
AuditLockShared == Share(Audit)

(* pg_advisory_xact_lock. *)
AuditLock == Own(Audit)

Conflict(m, n) == {m, n} \in {{"own"}, {"own", "write"}, {"own", "share"}, {"write"}}

Holders(r, wish) ==
  {l.by : l \in {l \in locks : l.by # r /\ l.on = wish.on /\ Conflict(l.mode, wish.mode)}}

WaitsFor(r, q) ==
  /\ requests[r].at = "running" /\ requests[r].wants # <<>>
  /\ q \in Holders(r, Head(requests[r].wants))

(* Requests that wait for each other in a circle. *)
Circles ==
  {S \in SUBSET Requests :
     S # {} /\ \A r \in S : (\E q \in S : WaitsFor(r, q)) /\ (\E q \in S : WaitsFor(q, r))}

Release(r) == {l \in locks : l.by # r}

RolesOf(u) == users[u].manual \cup users[u].mapped

(* What a request reads once it has the lock: update_user the manual bindings,
   a login the roles of its session, revoke whether there is anything to revoke,
   append the last event. *)
Read(r, wish) ==
  LET q == [requests[r] EXCEPT !.wants = Tail(@)] IN
  CASE wish = AuditLock -> [q EXCEPT !.prev = Len(log)]
    [] q.kind = "update" /\ wish = Own(q.target) -> [q EXCEPT !.seen = users[q.target].manual]
    [] q.kind = "revoke" /\ wish = Own(q.token) ->
         IF tokens[q.token] = "active" THEN q ELSE [q EXCEPT !.wants = <<>>]
    [] IsLogin(q.kind) /\ wish = Write(q.target) ->
         [q EXCEPT !.seen = users[q.target].manual \cup q.mapped]
    [] OTHER -> q

Acquire(r) ==
  /\ requests[r].at = "running" /\ requests[r].wants # <<>>
  /\ LET wish == Head(requests[r].wants) IN
       /\ Holders(r, wish) = {}
       /\ locks' = locks \cup {[by |-> r, on |-> wish.on, mode |-> wish.mode]}
       /\ requests' = [requests EXCEPT ![r] = Read(r, wish)]
  /\ UNCHANGED <<users, provider, logins, sessions, tokens, log, crashes>>

(* One of a circle is aborted: the request fails and is not tried again. *)
Aborted(r) ==
  /\ \E S \in Circles : r \in S
  /\ requests' = [requests EXCEPT ![r] = Ended]
  /\ locks' = Release(r)
  /\ UNCHANGED <<users, provider, logins, sessions, tokens, log, crashes>>

(* Everything a request wants is taken: what it does is committed. *)
Commits(r, kinds) ==
  /\ requests[r].at = "running" /\ requests[r].wants = <<>> /\ requests[r].kind \in kinds
  /\ requests' = [requests EXCEPT ![r] = Ended]
  /\ locks' = Release(r)

Audited(r, kind) ==
  LET q == requests[r] IN
  [kind |-> kind, user |-> q.target, active |-> q.active, roles |-> q.roles, added |-> {},
   removed |-> {}, session |-> 0, prev |-> q.prev]

-----------------------------------------------------------------------------
(* Logins. *)

StartLogin(l) ==
  /\ LoopFree /\ logins[l] = "none" /\ provider.enabled
  /\ \A k \in Logins : k < l => logins[k] # "none"
  /\ logins' = [logins EXCEPT ![l] = "asking"]
  /\ UNCHANGED <<users, provider, sessions, tokens, log, requests, locks, crashes>>

(* The row is committed after the directory's metadata arrived, or they do not. *)
LoginStarted(l) ==
  /\ LoopFree /\ logins[l] = "asking"
  /\ \E now \in {"open", "gone"} : logins' = [logins EXCEPT ![l] = now]
  /\ UNCHANGED <<users, provider, sessions, tokens, log, requests, locks, crashes>>

LoginExpires(l) ==
  /\ logins[l] = "open"
  /\ logins' = [logins EXCEPT ![l] = "gone"]
  /\ UNCHANGED <<users, provider, sessions, tokens, log, requests, locks, crashes>>

(* For a mutant: a consumed row is as good as an open one. *)
UsableStarted(l) == logins[l] \in {"open", "consumed"}

Usable(l) == logins[l] = "open"

(* Consumed before the directory is asked; the mapping is read here. *)
Callback(r, l) ==
  /\ LoopFree /\ Fresh(r) /\ provider.enabled /\ Usable(l)
  /\ logins' = [logins EXCEPT ![l] = "consumed"]
  /\ requests' = [requests EXCEPT ![r] = [Idle EXCEPT !.at = "remote", !.kind = "callback", !.login = l,
                                                      !.mapped = provider.mapping]]
  /\ UNCHANGED <<users, provider, sessions, tokens, log, locks, crashes>>

(* An LDAP login has no transaction. *)
AskDirectory(r) ==
  /\ LoopFree /\ Fresh(r) /\ provider.enabled
  /\ requests' = [requests EXCEPT ![r] = [Idle EXCEPT !.at = "remote", !.kind = "callback",
                                                      !.mapped = provider.mapping]]
  /\ UNCHANGED <<users, provider, logins, sessions, tokens, log, locks, crashes>>

(* For a mutant: the account is locked like update_user does. *)
LoginWantsOwn(u, changed) ==
  IF changed THEN <<AuditLock, Share(u), Own(u), Write(u)>> ELSE <<Own(u), Write(u), AuditLock>>

(* The first flush is that of the roles' event, or that of the session. *)
LoginWants(u, changed) ==
  IF changed THEN <<AuditLock, Share(u), Write(u)>> ELSE <<Write(u), AuditLock>>

(* Whom the directory may say it is, and whether they are in the group. *)
Identities == [user : Users, member : BOOLEAN]

(* _sync_provider_roles. *)
Desired(r, identity) == IF identity.member THEN requests[r].mapped ELSE {}

(* _resolve_user: a subject nobody is linked to gets an account, an account that
   is not active is refused. *)
Refusable(u) == users[u].exists /\ ~users[u].active

(* _finish_login up to its first lock. *)
Answered(r) ==
  /\ LoopFree /\ requests[r].at = "remote"
  /\ \E identity \in Identities :
       LET u      == identity.user
           mapped == Desired(r, identity) IN
       requests' = [requests EXCEPT ![r] =
         IF Refusable(u) THEN Ended
         ELSE [@ EXCEPT !.at = "running", !.target = u, !.mapped = mapped, !.roles = users[u].mapped,
                        !.wants = LoginWants(u, mapped # users[u].mapped)]]
  /\ UNCHANGED <<users, provider, logins, sessions, tokens, log, locks, crashes>>

(* The directory refuses, does not answer or says what is not valid. *)
Refused(r) ==
  /\ LoopFree /\ requests[r].at = "remote"
  /\ requests' = [requests EXCEPT ![r] = [Idle EXCEPT !.at = "running", !.kind = "failed",
                                                      !.wants = <<AuditLock>>]]
  /\ UNCHANGED <<users, provider, logins, sessions, tokens, log, locks, crashes>>

(* A local login goes straight on; its provider maps no roles. *)
PasswordLogin(r, u) ==
  /\ LoopFree /\ Fresh(r) /\ users[u].exists /\ users[u].active
  /\ requests' = [requests EXCEPT ![r] =
       [Idle EXCEPT !.at = "running", !.kind = "password", !.target = u, !.mapped = users[u].mapped,
                    !.roles = users[u].mapped, !.wants = LoginWants(u, FALSE)]]
  /\ UNCHANGED <<users, provider, logins, sessions, tokens, log, locks, crashes>>

(* q.roles: the directory's bindings that were found, q.mapped: those wanted. *)
LoggedIn(r) ==
  LET q       == requests[r]
      changed == q.roles # q.mapped
      synced  == [Audited(r, "synced") EXCEPT !.roles = {}, !.added = q.mapped \ q.roles,
                                              !.removed = q.roles \ q.mapped]
      login   == [Audited(r, "login") EXCEPT !.roles = q.seen, !.session = Len(sessions) + 1,
                                             !.prev = @ + IF changed THEN 1 ELSE 0] IN
  /\ Commits(r, {"callback", "password"})
  /\ users' = [users EXCEPT ![q.target].exists = TRUE,
                            ![q.target].mapped = (@ \ synced.removed) \cup synced.added]
  /\ sessions' = Append(sessions, [user |-> q.target, login |-> q.login, live |-> TRUE])
  /\ log' = log \o (IF changed THEN <<synced>> ELSE <<>>) \o <<login>>
  /\ UNCHANGED <<provider, logins, tokens, crashes>>

LoginFailed(r) ==
  /\ Commits(r, {"failed"})
  /\ log' = Append(log, Audited(r, "failed"))
  /\ UNCHANGED <<users, provider, logins, sessions, tokens, crashes>>

Logout(s) ==
  /\ sessions[s].live
  /\ sessions' = [sessions EXCEPT ![s].live = FALSE]
  /\ UNCHANGED <<users, provider, logins, tokens, log, requests, locks, crashes>>

-----------------------------------------------------------------------------
(* Administration.  The principal is read first, and not again. *)

Principals ==
  {u \in Users : users[u].active /\ Admin \in RolesOf(u) /\ \E s \in ToSet(sessions) : s.user = u /\ s.live}

Begin(r, request) ==
  /\ Fresh(r)
  /\ requests' = [requests EXCEPT ![r] = request]
  /\ UNCHANGED <<users, provider, logins, sessions, tokens, log, locks, crashes>>

UpdateWants(u, a) == <<Own(u), AuditLock, Share(a)>>

(* Nobody takes their own administration away. *)
UpdateUser(r, actor, u) ==
  \E active \in BOOLEAN, roles \in SUBSET Roles :
    /\ users[u].exists /\ (u = actor => active /\ Admin \in roles)
    /\ Begin(r, [Idle EXCEPT !.at = "running", !.kind = "update", !.actor = actor, !.target = u,
                             !.active = active, !.roles = roles, !.seen = users[u].manual,
                             !.wants = UpdateWants(u, actor)])

(* The rows read are deleted or kept, the roles that were not there are added. *)
UserUpdated(r) ==
  LET q == requests[r] IN
  /\ Commits(r, {"update"})
  /\ users' = [users EXCEPT ![q.target].active = q.active,
                            ![q.target].manual = (@ \ (q.seen \ q.roles)) \cup (q.roles \ q.seen)]
  /\ log' = Append(log, Audited(r, "updated"))
  /\ UNCHANGED <<provider, logins, sessions, tokens, crashes>>

CreateToken(r, actor, t) ==
  /\ tokens[t] = "none" /\ \A q \in Requests : requests[q].token # t
  /\ Begin(r, [Idle EXCEPT !.at = "running", !.kind = "create", !.actor = actor, !.token = t,
                           !.wants = <<Share(actor), AuditLock>>])

TokenCreated(r) ==
  /\ Commits(r, {"create"})
  /\ tokens' = [tokens EXCEPT ![requests[r].token] = "active"]
  /\ log' = Append(log, Audited(r, "created"))
  /\ UNCHANGED <<users, provider, logins, sessions, crashes>>

RevokeToken(r, actor, t) ==
  /\ tokens[t] # "none"
  /\ Begin(r, [Idle EXCEPT !.at = "running", !.kind = "revoke", !.actor = actor, !.token = t,
                           !.wants = <<Own(t), AuditLock, Share(actor)>>])

TokenRevoked(r) ==
  LET t == requests[r].token IN
  /\ Commits(r, {"revoke"})
  /\ tokens' = [tokens EXCEPT ![t] = "revoked"]
  /\ log' = IF tokens[t] = "active" THEN Append(log, Audited(r, "revoked")) ELSE log
  /\ UNCHANGED <<users, provider, logins, sessions, crashes>>

PutProvider(r, actor) ==
  \E enabled \in BOOLEAN, mapping \in Mappings :
    Begin(r, [Idle EXCEPT !.at = "running", !.kind = "provider", !.actor = actor,
                          !.active = enabled, !.mapped = mapping,
                          !.wants = <<AuditLock, Write(Directory), Share(actor)>>])

ProviderPut(r) ==
  /\ Commits(r, {"provider"})
  /\ provider' = [enabled |-> requests[r].active, mapping |-> requests[r].mapped]
  /\ log' = Append(log, Audited(r, "provider"))
  /\ UNCHANGED <<users, logins, sessions, tokens, crashes>>

(* What is not committed is gone, and the waiting requests with it. *)
Crash ==
  /\ crashes < MaxCrashes /\ \E r \in Requests : requests[r].at \in {"remote", "running"}
  /\ requests' = [r \in Requests |-> IF requests[r].at = "idle" THEN Idle ELSE Ended]
  /\ locks' = {}
  /\ logins' = [l \in Logins |-> IF logins[l] = "asking" THEN "gone" ELSE logins[l]]
  /\ crashes' = crashes + 1
  /\ UNCHANGED <<users, provider, sessions, tokens, log>>

Administer(r) ==
  \E actor \in Principals :
    \/ \E u \in Users : UpdateUser(r, actor, u)
    \/ \E t \in Tokens : CreateToken(r, actor, t) \/ RevokeToken(r, actor, t)
    \/ PutProvider(r, actor)

Committed(r) ==
  \/ LoggedIn(r) \/ LoginFailed(r) \/ UserUpdated(r)
  \/ TokenCreated(r) \/ TokenRevoked(r) \/ ProviderPut(r)

Next ==
  \/ \E l \in Logins : StartLogin(l) \/ LoginStarted(l) \/ LoginExpires(l)
  \/ \E r \in Requests :
       \/ Acquire(r) \/ Aborted(r) \/ Committed(r) \/ Administer(r)
       \/ \E l \in Logins : Callback(r, l)
       \/ AskDirectory(r) \/ Answered(r) \/ Refused(r)
       \/ \E u \in Users : PasswordLogin(r, u)
  \/ \E s \in DOMAIN sessions : Logout(s)
  \/ Crash

Spec == Init /\ [][Next]_vars

-----------------------------------------------------------------------------
(* Properties. *)

(* What an event tells of the bindings and the state of u. *)
After(account, e, u) ==
  CASE e.kind = "updated" /\ e.user = u -> [account EXCEPT !.manual = e.roles, !.active = e.active]
    [] e.kind = "synced" /\ e.user = u -> [account EXCEPT !.mapped = (@ \ e.removed) \cup e.added]
    [] OTHER -> account

(* The account of u, as the first n events tell it. *)
Told(u, n) ==
  LET account[k \in 0 .. Len(log)] ==
        IF k = 0 THEN [Start[u] EXCEPT !.exists = TRUE] ELSE After(account[k - 1], log[k], u)
  IN  account[n]

(* The audit log tells the truth: each event carries the hash of the one before
   it, the accounts are what the events add up to, and the roles a login records
   are those the events before it gave. *)
AuditTrue ==
  /\ \A i \in DOMAIN log : log[i].prev = i - 1
  /\ \A u \in Users : users[u].exists => users[u] = Told(u, Len(log))
  /\ \A i \in DOMAIN log :
       log[i].kind = "login" =>
         LET account == Told(log[i].user, i - 1)
         IN  log[i].roles = account.manual \cup account.mapped

(* A login transaction makes one session at most, whatever callbacks come, and
   every session made here has its event in the log. *)
OneSessionPerLogin ==
  /\ \A s, t \in DOMAIN sessions :
       sessions[s].login = sessions[t].login /\ sessions[s].login # 0 => s = t
  /\ \A s \in DOMAIN sessions : s > Started =>
       Cardinality({i \in DOMAIN log : log[i].session = s /\ log[i].user = sessions[s].user}) = 1

(* Requests only lock each other out when one of them changes an account. *)
CirclesNeedUpdate == \A S \in Circles : \E r \in S : requests[r].kind = "update"
=============================================================================
