---------------------------- MODULE DeviceAccess ----------------------------
(***************************************************************************)
(* What stands between the system and a device it logs in to: the SSH       *)
(* credentials and their bindings (services/ssh_service.py), the NetBox     *)
(* settings by which a device is found (integration_config_service.py), the *)
(* registered host keys (api/probes.py) and the transport that reads all of *)
(* them and connects (probes/ssh_transport.py), for a probe and for a       *)
(* change of configuration.  What a probe does to the graph and its budget  *)
(* is CaseGraph's, when a change is allowed Remediation's.                  *)
(*                                                                         *)
(* There is one device.  Credentials and settings are edited on the API's   *)
(* event loop, where a request runs alone; registrations and probes run in  *)
(* threads or other processes, and see each other's rows once committed.    *)
(***************************************************************************)
EXTENDS Integers, Sequences, FiniteSets

CONSTANTS
  Creds,    \* SSH credentials
  Keys,     \* host keys, those the device shows and those that are registered
  Ports,    \* SSH ports of the device
  Admins,   \* registrations of host keys at once
  Sessions, \* probes and changes at once
  Tokens,   \* NetBox tokens
  Deployed, \* the NetBox values of the environment
  Payloads, \* what the NetBox settings are set to
  Edits,    \* what credentials are created with and changed to
  MaxEnv    \* bounds: how often the environment does what, by kind

(* A credential or the settings are edited or tried, a host key is registered, a
   session is asked for, a process dies. *)
EnvKinds == {"edit", "register", "session", "crash"}

VARIABLES
  netbox,   \* the NetBox settings in force, stored once they were edited
  creds,    \* the credentials
  hostKeys, \* the committed host keys, in the order of their registration
  regs,     \* where each registration is
  sessions, \* where each probe or change is
  running,  \* the device has a probe run that counts as running
  env       \* how often the environment has acted, by kind

vars == <<netbox, creds, hostKeys, regs, sessions, running, env>>

Scopes == {"probe.read", "device.mutate"}

(* With what a secret is encrypted: the application's key, or a NetBox token in
   what an earlier version has stored. *)
Secrets == {"none", "app"} \cup Tokens

NetBox == [stored : BOOLEAN, enabled : BOOLEAN, url : BOOLEAN, token : Tokens \cup {"none"}]

(* used: a probe run refers to it. *)
Cred == [life : {"new", "live", "deleted"}, enabled : BOOLEAN, scope : SUBSET Scopes,
         auth : {"password", "private_key"}, password : Secrets, key : Secrets, port : Ports,
         binding : {"none", "unknown", "success", "failed", "auth_failed"}, used : BOOLEAN]
AnyPort == CHOOSE port \in Ports : TRUE
NewCred == [life |-> "new", enabled |-> TRUE, scope |-> {"probe.read"}, auth |-> "password",
            password |-> "none", key |-> "none", port |-> AnyPort, binding |-> "none", used |-> FALSE]

(* What the NetBox settings are set to, and a credential is created with or changed to. *)
Payload == [enabled : BOOLEAN, url : {"kept", "given", "cleared"}, token : Tokens \cup {"none"},
            clear : BOOLEAN]
Edit == [auth : {"password", "private_key"}, password : {"kept", "given", "cleared"},
         key : {"kept", "given", "cleared"}, scope : SUBSET Scopes, port : Ports, enabled : BOOLEAN]

DeviceAccessAssumption ==
  /\ Creds # {} /\ Keys # {} /\ Ports # {}
  /\ Deployed \in NetBox /\ Payloads \subseteq Payload /\ Edits \subseteq Edit

HostKey == [port : Ports, key : Keys, active : BOOLEAN]

(* seen: the active rows when its update began; held: those it has locked. *)
Reg == [at : {"idle", "seeking", "holding", "inserted"}, port : Ports, key : Keys,
        seen : SUBSET Nat, held : SUBSET Nat]
NoReg == [at |-> "idle", port |-> AnyPort, key |-> CHOOSE k \in Keys : TRUE, seen |-> {}, held |-> {}]

(* row: the host key it goes by; shown: the key the device has shown it; retired:
   the rows that were no longer active when it was asked for. *)
Session == [at : {"idle", "resolving", "ready", "open"}, scope : Scopes, cred : Creds, port : Ports,
            row : Nat, shown : Keys, retired : SUBSET Nat]
NoSession == [at |-> "idle", scope |-> "probe.read", cred |-> CHOOSE c \in Creds : TRUE,
              port |-> AnyPort, row |-> 0, shown |-> CHOOSE k \in Keys : TRUE, retired |-> {}]

TypeOK ==
  /\ netbox \in NetBox /\ creds \in [Creds -> Cred] /\ hostKeys \in Seq(HostKey)
  /\ regs \in [Admins -> Reg] /\ sessions \in [Sessions -> Session]
  /\ running \in BOOLEAN /\ env \in [EnvKinds -> Nat]

(* An earlier version may have left a credential behind. *)
Init ==
  /\ netbox = Deployed
  /\ creds \in [Creds -> {NewCred} \cup
                  {[NewCred EXCEPT !.life = "live", !.password = t] : t \in {Deployed.token} \ {"none"}}]
  /\ hostKeys = <<>> /\ running = FALSE
  /\ regs = [u \in Admins |-> NoReg]
  /\ sessions = [s \in Sessions |-> NoSession]
  /\ env = [k \in EnvKinds |-> 0]

Happens(kind) == env[kind] < MaxEnv[kind] /\ env' = [env EXCEPT ![kind] = @ + 1]

(* A change holds the event loop from end to end. *)
LoopFree == \A s \in Sessions : sessions[s].scope = "device.mutate" => sessions[s].at = "idle"

-----------------------------------------------------------------------------
(* The settings and the credentials. *)

(* The first edit starts from nothing: what the environment gave is gone. *)
UpsertNetBox(p) ==
  /\ LoopFree /\ Happens("edit")
  /\ LET row == IF netbox.stored THEN netbox ELSE [netbox EXCEPT !.url = FALSE, !.token = "none"]
     IN netbox' = [stored |-> TRUE, enabled |-> p.enabled,
                   url |-> IF p.url = "kept" THEN row.url ELSE p.url = "given",
                   token |-> CASE p.clear -> "none" [] p.token # "none" -> p.token [] OTHER -> row.token]
  /\ UNCHANGED <<creds, hostKeys, regs, sessions, running>>

NetBoxReady == netbox.enabled /\ netbox.url /\ netbox.token # "none"

(* A token that does not fit a secret of an earlier version leaves it unreadable. *)
Readable(secret) == secret \in {"app", netbox.token}
Sealed(edit, old) == CASE edit = "given" -> "app" [] edit = "cleared" -> "none" [] OTHER -> old

Live(c) == creds[c].life = "live"

CreateCredential(c, e) ==
  /\ LoopFree /\ creds[c].life = "new" /\ Happens("edit")
  /\ e.auth = "password" => e.password = "given"
  /\ e.auth = "private_key" => e.key = "given"
  /\ creds' = [creds EXCEPT ![c] = [NewCred EXCEPT !.life = "live", !.auth = e.auth, !.scope = e.scope,
                 !.password = Sealed(e.password, "none"),
                 !.key = Sealed(e.key, "none"), !.port = e.port]]
  /\ UNCHANGED <<netbox, hostKeys, regs, sessions, running>>

(* An edit may name another kind of secret than the credential has. *)
UpdateCredential(c, e) ==
  /\ LoopFree /\ Live(c) /\ Happens("edit")
  /\ creds' = [creds EXCEPT ![c].enabled = e.enabled, ![c].auth = e.auth, ![c].scope = e.scope,
                 ![c].port = e.port,
                 ![c].password = Sealed(e.password, @), ![c].key = Sealed(e.key, @)]
  /\ UNCHANGED <<netbox, hostKeys, regs, sessions, running>>

(* Its bindings go first, and come back if a probe run still refers to it. *)
DeleteCredential(c) ==
  /\ LoopFree /\ Live(c) /\ ~creds[c].used /\ Happens("edit")
  /\ creds' = [creds EXCEPT ![c] = [NewCred EXCEPT !.life = "deleted"]]
  /\ UNCHANGED <<netbox, hostKeys, regs, sessions, running>>

BindDevice(c) ==
  /\ LoopFree /\ Live(c) /\ NetBoxReady /\ Happens("edit")
  /\ creds' = [creds EXCEPT ![c].binding = IF @ = "none" THEN "unknown" ELSE @]
  /\ UNCHANGED <<netbox, hostKeys, regs, sessions, running>>

(* Secrets the connection asks for that can be had at all. *)
Usable(c) ==
  LET secret == IF creds[c].auth = "password" THEN creds[c].password ELSE creds[c].key
  IN secret # "none" /\ Readable(secret)

(* A test takes whatever key it is shown, and binds the device it means to reach. *)
TestConnectivity(c) ==
  /\ LoopFree /\ Live(c) /\ NetBoxReady /\ Happens("edit")
  /\ \E result \in {"failed"} \cup (IF Usable(c) THEN {"success", "auth_failed"} ELSE {}) :
       creds' = [creds EXCEPT ![c].binding = result]
  /\ UNCHANGED <<netbox, hostKeys, regs, sessions, running>>

-----------------------------------------------------------------------------
(* The host keys. *)

Rows(port) == {i \in DOMAIN hostKeys : hostKeys[i].port = port}
Active(port) == {i \in Rows(port) : hostKeys[i].active}
Others(u) == Admins \ {u}

Register(u) ==
  /\ regs[u].at = "idle" /\ Happens("register")
  /\ \E port \in Ports, key \in Keys :
       regs' = [regs EXCEPT ![u] = [NoReg EXCEPT !.at = "seeking", !.port = port, !.key = key,
                                                 !.seen = Active(port)]]
  /\ UNCHANGED <<netbox, creds, hostKeys, sessions, running>>

(* The update waits for whoever has locked a row, and then looks at it again. *)
Deactivate(u) ==
  /\ regs[u].at = "seeking"
  /\ \A v \in Others(u) : regs[v].held \cap regs[u].seen = {}
  /\ regs' = [regs EXCEPT ![u].at = "holding", ![u].held = {i \in regs[u].seen : hostKeys[i].active}]
  /\ UNCHANGED <<netbox, creds, hostKeys, sessions, running, env>>

(* The index on the active rows makes an insert wait for a like one, and refuses it
   while another row is active.  A plausible bug has no such index. *)
AdmittedAlways(u) == TRUE
Admitted(u) == Active(regs[u].port) \subseteq regs[u].held
Insert(u) ==
  /\ regs[u].at = "holding"
  /\ \A v \in Others(u) : regs[v].at = "inserted" => regs[v].port # regs[u].port
  /\ regs' = [regs EXCEPT ![u] = IF Admitted(u) THEN [@ EXCEPT !.at = "inserted"] ELSE NoReg]
  /\ UNCHANGED <<netbox, creds, hostKeys, sessions, running, env>>

Commit(u) ==
  /\ regs[u].at = "inserted"
  /\ hostKeys' = Append([i \in DOMAIN hostKeys |->
                           IF i \in regs[u].held THEN [hostKeys[i] EXCEPT !.active = FALSE] ELSE hostKeys[i]],
                        [port |-> regs[u].port, key |-> regs[u].key, active |-> TRUE])
  /\ regs' = [regs EXCEPT ![u] = NoReg]
  /\ UNCHANGED <<netbox, creds, sessions, running, env>>

-----------------------------------------------------------------------------
(* Probes and changes. *)

At(s, place) == sessions[s].at = place
Leaves(s) == sessions' = [sessions EXCEPT ![s] = NoSession]
Refers(s) == creds' = [creds EXCEPT ![sessions[s].cred].used = TRUE]

(* The session reads its credential, and asks NetBox for the device, which takes a
   while; a probe that is refused leaves a run that refers to the credential. *)
Resolve(s, c, scope) ==
  /\ At(s, "idle") /\ Happens("session")
  /\ scope = "device.mutate" => LoopFree
  /\ LET cred == creds[c]
         fits == Live(c) /\ cred.binding # "none" /\ cred.enabled /\ scope \in cred.scope
     IN \/ /\ fits /\ NetBoxReady
           /\ sessions' = [sessions EXCEPT ![s] =
                [NoSession EXCEPT !.at = "resolving", !.scope = scope, !.cred = c, !.port = cred.port,
                                  !.retired = {i \in DOMAIN hostKeys : ~hostKeys[i].active}]]
           /\ UNCHANGED creds
        \/ /\ UNCHANGED sessions
           /\ creds' = IF scope = "probe.read" /\ Live(c) THEN [creds EXCEPT ![c].used = TRUE] ELSE creds
  /\ UNCHANGED <<netbox, hostKeys, regs, running>>

(* A plausible bug takes any row of the device's port. *)
KnownOfPort(port) == Rows(port)
Known(port) == Active(port)

(* A probe without a host key leaves a rejected run, if its credential is still
   there to refer to. *)
Unknown(s) ==
  /\ At(s, "resolving") /\ Known(sessions[s].port) = {}
  /\ Leaves(s)
  /\ creds' = IF sessions[s].scope = "probe.read" /\ Live(sessions[s].cred)
              THEN [creds EXCEPT ![sessions[s].cred].used = TRUE] ELSE creds
  /\ UNCHANGED <<netbox, hostKeys, regs, running, env>>

(* One probe runs on a device at a time; its run refers to the credential. *)
BeginProbe(s) ==
  /\ At(s, "resolving") /\ sessions[s].scope = "probe.read"
  /\ \E row \in Known(sessions[s].port) :
       IF running \/ ~Live(sessions[s].cred)
       THEN Leaves(s) /\ UNCHANGED <<creds, running>>
       ELSE /\ sessions' = [sessions EXCEPT ![s].at = "ready", ![s].row = row]
            /\ Refers(s) /\ running' = TRUE
  /\ UNCHANGED <<netbox, hostKeys, regs, env>>

BeginChange(s) ==
  /\ At(s, "resolving") /\ sessions[s].scope = "device.mutate"
  /\ \E row \in Known(sessions[s].port) : sessions' = [sessions EXCEPT ![s].at = "ready", ![s].row = row]
  /\ UNCHANGED <<netbox, creds, hostKeys, regs, running, env>>

(* The commit has made the probe forget its rows: it reads them again, active or not,
   the credential as it is now.  A session opens if the device shows the row's key. *)
Connect(s) ==
  /\ At(s, "ready") /\ Usable(sessions[s].cred)
  /\ \E shown \in Keys :
       /\ shown = hostKeys[sessions[s].row].key
       /\ sessions' = [sessions EXCEPT ![s].at = "open", ![s].shown = shown]
  /\ UNCHANGED <<netbox, creds, hostKeys, regs, running, env>>

(* It is done, or was refused by either side. *)
Finish(s) ==
  /\ sessions[s].at \in {"ready", "open"}
  /\ Leaves(s)
  /\ running' = IF sessions[s].scope = "probe.read" THEN FALSE ELSE running
  /\ UNCHANGED <<netbox, creds, hostKeys, regs, env>>

(* Nobody ends the run of a probe that has died. *)
Die(s) ==
  /\ ~At(s, "idle") /\ Happens("crash") /\ Leaves(s)
  /\ UNCHANGED <<netbox, creds, hostKeys, regs, running>>

(* A registration that dies, or fails at its audit, is rolled back. *)
RollBack(u) ==
  /\ regs[u].at # "idle" /\ Happens("crash")
  /\ regs' = [regs EXCEPT ![u] = NoReg]
  /\ UNCHANGED <<netbox, creds, hostKeys, sessions, running>>

Next ==
  \/ \E p \in Payloads : UpsertNetBox(p)
  \/ \E c \in Creds : \/ \E e \in Edits : CreateCredential(c, e) \/ UpdateCredential(c, e)
                      \/ DeleteCredential(c) \/ BindDevice(c) \/ TestConnectivity(c)
                      \/ \E s \in Sessions, scope \in Scopes : Resolve(s, c, scope)
  \/ \E u \in Admins : Register(u) \/ Deactivate(u) \/ Insert(u) \/ Commit(u) \/ RollBack(u)
  \/ \E s \in Sessions : \/ Unknown(s) \/ BeginProbe(s) \/ BeginChange(s) \/ Connect(s)
                         \/ Finish(s) \/ Die(s)

DeviceAccessSpec == Init /\ [][Next]_vars

-----------------------------------------------------------------------------
(* Properties. *)

(* Registrations at once, blocked, refused or dead half-way, leave a port at most one
   active host key, and never a registered port without one. *)
OneHostKey ==
  \A port \in Ports : Rows(port) # {} => Cardinality(Active(port)) = 1

(* A probe or a change, which come by the pinned transport, opens its session to a
   host that has shown a key registered for the device and not replaced before the
   session was asked for, however keys and credentials are edited until it opens.
   Other connections pin no key and take any host for the device: the test of a
   credential, the commands of the older SSH service and the reading of a
   configuration for NetBox. *)
KnowsItsHost ==
  \A s \in Sessions : At(s, "open") =>
    \E i \in DOMAIN hostKeys : i \notin sessions[s].retired /\ hostKeys[i].key = sessions[s].shown
=============================================================================
