----------------------------- MODULE AssetMirror -----------------------------
(***************************************************************************)
(* What the system knows of the network's assets: the answers of NetBox     *)
(* (mcp/netbox_mcp.py) that the asset API caches (api/assets.py,            *)
(* utils/cache.py), the local mirror of its devices                         *)
(* (services/asset_sync_service.py), and the running configurations that    *)
(* are fetched from the devices and written back to NetBox.                 *)
(*                                                                         *)
(* NetBox is asked synchronously, so a request keeps the API's event loop   *)
(* until it is answered; only while a configuration is fetched do others    *)
(* run.                                                                    *)
(***************************************************************************)
EXTENDS Integers, FiniteSets

CONSTANTS
  Devices, \* the devices NetBox may have
  Vendors, \* their vendors
  Asked,   \* which cached lists are asked for, by which vendor: see Requests
  Fetches, \* requests that fetch a configuration at once
  TTL,     \* default_ttl of the cache
  MaxNow,  \* bound: the clock
  MaxEnv   \* bounds: how often the environment does what, by kind

(* NetBox is edited, or a user asks for a configuration to be fetched. *)
EnvKinds == {"edit", "fetch"}

VARIABLES
  now,     \* the clock
  netbox,  \* NetBox's devices: see Device
  context, \* NetBox's context data of each device: the configuration and the rest
  cache,   \* what is cached: see Entry
  cleared, \* when the cache was cleared last
  answer,  \* the last answer to a request for a cached list
  mirror,  \* the local rows: each device's revision as written, 0 without a row
  fetches, \* where each fetch is
  env      \* how often the environment has acted, by kind

vars == <<now, netbox, context, cache, cleared, answer, mirror, fetches, env>>

(* The lists the API caches, each under a prefix of its own. *)
Prefixes == {"devices", "ips", "sites", "racks", "rack_devices", "vlans", "prefixes", "prefix_ips",
             "devices_with_ip"}
Requests == Prefixes \X ({"all"} \cup Vendors)

AssetMirrorAssumption ==
  Asked \subseteq Requests /\ TTL \in Nat /\ Devices # {} /\ MaxNow \in Nat \ {0}

(* A device in NetBox; rev: when it was edited last, 0 before it was added. *)
Device == [there : BOOLEAN, rev : Nat, ip : BOOLEAN, vendor : Vendors]

(* What a list says: of when it is and, of devices, each with its revision, 0 for
   one that is not in it. *)
Entry == [asOf : Nat, revs : [Devices -> Nat], expires : Nat]
Nothing == [asOf |-> 0, revs |-> [d \in Devices |-> 0], expires |-> 0]

Context == [config : Nat, rest : Nat]
Fetch == [at : {"idle", "fetching"}, device : Devices, context : Context]
NoFetch == [at |-> "idle", device |-> CHOOSE d \in Devices : TRUE, context |-> [config |-> 0, rest |-> 0]]

TypeOK ==
  /\ now \in 0 .. MaxNow /\ cleared \in 0 .. now
  /\ netbox \in [Devices -> Device] /\ context \in [Devices -> Context]
  /\ cache \in [Asked -> Entry]
  /\ answer \in [asOf : Nat, given : Nat, cleared : Nat]
  /\ mirror \in [Devices -> Nat] /\ fetches \in [Fetches -> Fetch]
  /\ env \in [EnvKinds -> Nat]

Init ==
  /\ now = 1 /\ cleared = 0
  /\ netbox \in [Devices -> {[there |-> r = 1, rev |-> r, ip |-> TRUE, vendor |-> v] :
                                     r \in {0, 1}, v \in Vendors}]
  /\ context = [d \in Devices |-> [config |-> 0, rest |-> 0]]
  /\ cache = [q \in Asked |-> Nothing]
  /\ answer = [asOf |-> 0, given |-> 0, cleared |-> 0]
  /\ mirror = [d \in Devices |-> 0]
  /\ fetches = [f \in Fetches |-> NoFetch]
  /\ env = [k \in EnvKinds |-> 0]

Happens(kind) == env[kind] < MaxEnv[kind] /\ env' = [env EXCEPT ![kind] = @ + 1]
There(d) == netbox[d].there

-----------------------------------------------------------------------------
(* NetBox and the time. *)

Tick ==
  /\ now < MaxNow /\ now' = now + 1
  /\ UNCHANGED <<netbox, context, cache, cleared, answer, mirror, fetches, env>>

(* A device is added or changed; an identifier is not given twice. *)
Edit(d) ==
  /\ There(d) \/ netbox[d].rev = 0
  /\ now < MaxNow /\ now' = now + 1 /\ Happens("edit")
  /\ \E ip \in BOOLEAN, vendor \in Vendors :
       netbox' = [netbox EXCEPT ![d] = [there |-> TRUE, rev |-> now', ip |-> ip, vendor |-> vendor]]
  /\ UNCHANGED <<context, cache, cleared, answer, mirror, fetches>>

Remove(d) ==
  /\ There(d) /\ now < MaxNow /\ now' = now + 1 /\ Happens("edit")
  /\ netbox' = [netbox EXCEPT ![d].there = FALSE]
  /\ UNCHANGED <<context, cache, cleared, answer, mirror, fetches>>

(* Somebody edits the rest of the device's context data. *)
EditContext(d) ==
  /\ There(d) /\ now < MaxNow /\ now' = now + 1 /\ Happens("edit")
  /\ context' = [context EXCEPT ![d].rest = now']
  /\ UNCHANGED <<netbox, cache, cleared, answer, mirror, fetches>>

-----------------------------------------------------------------------------
(* The lists. *)

(* NetBox matches sites, racks and names, the system the vendor; of the lists of
   devices one keeps only those with an address. *)
Matches(q, d) ==
  /\ There(d) /\ q[1] \in {"devices", "rack_devices", "devices_with_ip"}
  /\ q[2] \in {"all", netbox[d].vendor}
  /\ q[1] = "devices_with_ip" => netbox[d].ip
Found(q) == [asOf |-> now, expires |-> now + TTL,
             revs |-> [d \in Devices |-> IF Matches(q, d) THEN netbox[d].rev ELSE 0]]

(* A plausible bug serves an entry whatever its age. *)
CachedForever(q) == cache[q].asOf > 0
Cached(q) == cache[q].asOf > 0 /\ now <= cache[q].expires

(* The rows of these devices are written as the answer has them; nothing removes a
   row. *)
Synced(revs) == [d \in Devices |-> IF revs[d] > 0 THEN revs[d] ELSE mirror[d]]

Mirrored(q) == q[1] \in {"devices", "devices_with_ip"}
Says(entry) == answer' = [asOf |-> entry.asOf, given |-> now, cleared |-> cleared]

(* An answer from the cache is not written to the mirror.  A plausible bug writes it
   there like any other. *)
HitSynced(q) ==
  /\ Cached(q) /\ Says(cache[q])
  /\ mirror' = IF Mirrored(q) THEN Synced(cache[q].revs) ELSE mirror
  /\ UNCHANGED <<now, netbox, context, cache, cleared, fetches, env>>
Hit(q) ==
  /\ Cached(q) /\ Says(cache[q])
  /\ UNCHANGED <<now, netbox, context, cache, cleared, mirror, fetches, env>>

Miss(q) ==
  /\ ~Cached(q) /\ Says(Found(q))
  /\ cache' = [cache EXCEPT ![q] = Found(q)]
  /\ mirror' = IF Mirrored(q) THEN Synced(Found(q).revs) ELSE mirror
  /\ UNCHANGED <<now, netbox, context, cleared, fetches, env>>

(* The page of a device and an explicit synchronisation go past the cache. *)
Detail(d) ==
  /\ There(d)
  /\ mirror' = Synced([Nothing.revs EXCEPT ![d] = netbox[d].rev])
  /\ UNCHANGED <<now, netbox, context, cache, cleared, answer, fetches, env>>

SyncDevices(vendor) ==
  /\ mirror' = Synced(Found(<<"devices", vendor>>).revs)
  /\ UNCHANGED <<now, netbox, context, cache, cleared, answer, fetches, env>>

Listed == Prefixes
ClearCache ==
  /\ cache' = [q \in Asked |-> IF q[1] \in Listed THEN Nothing ELSE cache[q]]
  /\ cleared' = now
  /\ UNCHANGED <<now, netbox, context, answer, mirror, fetches, env>>

-----------------------------------------------------------------------------
(* Running configurations. *)

(* The device's context data is read before the device is asked ... *)
BeginFetch(f, d) ==
  /\ fetches[f].at = "idle" /\ There(d) /\ netbox[d].ip /\ Happens("fetch")
  /\ fetches' = [fetches EXCEPT ![f] = [at |-> "fetching", device |-> d, context |-> context[d]]]
  /\ UNCHANGED <<now, netbox, context, cache, cleared, answer, mirror>>

(* ... and written whole afterwards, over whatever it has become. *)
SaveConfig(f) ==
  /\ fetches[f].at = "fetching" /\ There(fetches[f].device)
  /\ context' = [context EXCEPT ![fetches[f].device] = [fetches[f].context EXCEPT !.config = now]]
  /\ fetches' = [fetches EXCEPT ![f] = NoFetch]
  /\ UNCHANGED <<now, netbox, cache, cleared, answer, mirror, env>>

FetchFails(f) ==
  /\ fetches[f].at = "fetching"
  /\ fetches' = [fetches EXCEPT ![f] = NoFetch]
  /\ UNCHANGED <<now, netbox, context, cache, cleared, answer, mirror, env>>

Next ==
  \/ Tick \/ ClearCache
  \/ \E d \in Devices : Edit(d) \/ Remove(d) \/ EditContext(d) \/ Detail(d)
  \/ \E q \in Asked : Hit(q) \/ Miss(q)
  \/ \E vendor \in {"all"} \cup Vendors : SyncDevices(vendor)
  \/ \E f \in Fetches : \/ \E d \in Devices : BeginFetch(f, d)
                        \/ SaveConfig(f) \/ FetchFails(f)

AssetMirrorSpec == Init /\ [][Next]_vars

-----------------------------------------------------------------------------
(* Properties. *)

(* Whichever lists are asked for and however they were filled, an answer is never
   older than the cache's lifetime, nor than the last time the cache was cleared: of
   the list, that is, for how long NetBox takes to find it is not counted. *)
AnswersFresh ==
  answer.given > 0 => answer.asOf >= answer.cleared /\ answer.given - answer.asOf <= TTL

(* However lists, pages and synchronisations alternate, with answers from the cache
   among them, a row of the mirror never goes back to an earlier revision. *)
MirrorForward == [][\A d \in Devices : mirror'[d] >= mirror[d]]_vars
=============================================================================
