--------------------------- MODULE MCEventIntake ---------------------------
(* TLC instances of EventIntake. *)
EXTENDS EventIntake, TLC

CONSTANTS q1, q2, e1, e2, e3, core, access, Ingests, Operations, Closes, Crashes

(* A core switch and an access switch below it, which both kinds of source watch. *)
MCDeviceOf == (e1 :> core) @@ (e2 :> access) @@ (e3 :> access)
MCSourceOf == (e1 :> "ZABBIX") @@ (e2 :> "ZABBIX") @@ (e3 :> "ELK")
MCLevelsOf == (e1 :> {4}) @@ (e2 :> {1, 4}) @@ (e3 :> {2})
MCTier     == (core :> 0) @@ (access :> 2)
MCLinks    == {<<core, access>>, <<access, core>>}
MCMaxEnv   == [ingest |-> Ingests, operator |-> Operations, close |-> Closes, crash |-> Crashes]
MCModes    == {[auto |-> TRUE, external |-> TRUE], [auto |-> FALSE, external |-> FALSE]}
=============================================================================
