---------------------------- MODULE MCLogSampling ----------------------------
(* Two overlapping runs over a core switch and an access switch below it. *)
EXTENDS LogSampling

MCRuns    == 1 .. 2
MCDevices == {"core", "access"}
MCHops    == [d \in MCDevices |-> [p \in MCDevices |-> IF d = "access" /\ p = "core" THEN 1 ELSE 0]]

Logs(d, fp, kinds, error, urgent, time) ==
  [device |-> d, fp |-> fp, kinds |-> kinds, error |-> error, urgent |-> urgent, time |-> time]

(* Errors below the core, one of them repeated at once, enough of them for a raw
   anomaly that commits before the core's sample, which asks for nothing, is written.
   An urgent line of the core and a routing error below it, which are too few. *)
MCBatches ==
  { << Logs("access", 1, {}, TRUE, FALSE, 0), Logs("access", 1, {}, TRUE, FALSE, 1),
       Logs("core", 3, {"neighbor"}, FALSE, FALSE, 1), Logs("access", 2, {}, TRUE, FALSE, 2),
       Logs("access", 4, {}, TRUE, FALSE, 3) >>,
    << Logs("core", 3, {"flap"}, FALSE, TRUE, 0), Logs("access", 1, {"routing"}, TRUE, FALSE, 0) >> }
MCImmediate == [f \in {"critical", "hardware", "auth"} |-> IF f = "auth" THEN 2 ELSE 1]
MCPeriodic  == << [field |-> "interface", threshold |-> 2, risk |-> "medium"],
                  [field |-> "error", threshold |-> 2, risk |-> "medium"] >>
MCKnown   == [d \in MCDevices |-> IF d = "access" THEN {TRUE} ELSE BOOLEAN]
MCMaxEnv  == [k \in EnvKinds |-> 1]
=============================================================================
