------------------------------ MODULE MCServices ------------------------------
(* The instance of Services.  Its parts share no state: each is explored from its
   own initial states while the others rest. *)
EXTENDS Services, TLC

CONSTANTS j1, j2, u1, u2, k1, k2, c1, s1, d1, f1

VARIABLE part \* the component that moves

accessVars == <<settings, creds, hostKeys, regs, sessions, running, accessEnv>>
assetsVars == <<now, devices, context, cache, cleared, answer, mirror, fetches, assetsEnv>>
eventsVars == <<events, reader, eventsEnv>>

(* Advice and a notification with a probe, a change over SSH with a rough script,
   and no rule at all. *)
Does(tool, type, mode, params, rest) ==
  [tool |-> tool, type |-> type, mode |-> mode, params |-> params, rest |-> rest]
MCRules == { <<>>,
  << Does("none", "notify", "observe", "plain", "none"), Does("status", "other", "observe", "none", "none") >>,
  << Does("config", "other", "execute", "plain", "none"), Does("none", "script", "none", "none", "rough") >> }
MCUndo == << Does("config", "other", "none", "plain", "none") >>
MCMaxEnv == [draft |-> 2, level |-> 1, age |-> 1, crash |-> 1]

MCDeployed == [stored |-> FALSE, enabled |-> TRUE, url |-> TRUE, token |-> "t1"]
MCPayloads ==
  { [enabled |-> TRUE, url |-> "given", token |-> "t2", clear |-> FALSE],
    [enabled |-> TRUE, url |-> "kept", token |-> "none", clear |-> FALSE],
    [enabled |-> FALSE, url |-> "kept", token |-> "none", clear |-> TRUE] }
MCEdits ==
  { [auth |-> "password", password |-> "given", key |-> "kept", scope |-> {"probe.read", "device.mutate"},
     port |-> 22, enabled |-> TRUE],
    [auth |-> "private_key", password |-> "kept", key |-> "given", scope |-> {"probe.read"},
     port |-> 830, enabled |-> TRUE],
    [auth |-> "private_key", password |-> "cleared", key |-> "kept", scope |-> {"probe.read"},
     port |-> 22, enabled |-> FALSE] }

MCAccessMaxEnv == [edit |-> 2, register |-> 3, session |-> 1, crash |-> 1]

MCAsked == {<<"devices", "v1">>, <<"devices_with_ip", "all">>}
MCAssetsMaxEnv == [edit |-> 2, fetch |-> 1]

(* A core and an access device of one site. *)
MCPlace(site, device, core, links) == [site |-> site, device |-> device, core |-> core, links |-> links]
MCCore == MCPlace("s", TRUE, TRUE, 1)
MCAccess == MCPlace("s", TRUE, FALSE, 2)
MCKind(place, family, category, severity) ==
  [place |-> place, family |-> family, category |-> category, severity |-> severity]

MCPlaces == {MCCore, MCAccess}
MCKinds == {MCKind(MCCore, "link", "log_signal", 2), MCKind(MCCore, "link", "zabbix_alert", 5),
            MCKind(MCAccess, "link", "zabbix_alert", 5)}
MCEventsMaxEnv == [collect |-> 3, again |-> 1, link |-> 1, read |-> 1]

(* The state in which each of the components rests. *)
JobsRest == Init /\ level = -1
AccessRests == D!Init /\ creds[c1].life = "new"
AssetsRest == A!Init /\ devices[d1].rev = 0 /\ devices[d1].vendor = "v1"

ServicesInit ==
  \/ part = "jobs" /\ Init /\ AccessRests /\ AssetsRest /\ E!Init
  \/ part = "access" /\ JobsRest /\ D!Init /\ AssetsRest /\ E!Init
  \/ part = "assets" /\ JobsRest /\ AccessRests /\ A!Init /\ E!Init
  \/ part = "events" /\ JobsRest /\ AccessRests /\ AssetsRest /\ E!Init

ServicesNext ==
  \/ part = "jobs" /\ Next /\ UNCHANGED <<part, accessVars, assetsVars, eventsVars>>
  \/ part = "access" /\ D!Next /\ UNCHANGED <<part, vars, assetsVars, eventsVars>>
  \/ part = "assets" /\ A!Next /\ UNCHANGED <<part, vars, accessVars, eventsVars>>
  \/ part = "events" /\ E!Next /\ UNCHANGED <<part, vars, accessVars, assetsVars>>

ServicesSpec == ServicesInit /\ [][ServicesNext]_<<part, vars, accessVars, assetsVars, eventsVars>>

Symmetric == Permutations({j1, j2}) \cup Permutations({u1, u2})
===============================================================================
