--------------------------- MODULE MCLogIngestion ---------------------------
(* TLC instances of LogIngestion. *)
EXTENDS LogIngestion

CONSTANTS w1, w2, s1, s2, Crashes, Stalls, Faults

(* Three warnings of one window in the first scope, one critical in the second. *)
MCDocs       == 1 .. 4
MCScopeOf    == [d \in MCDocs |-> IF d = 3 THEN s2 ELSE s1]
MCBucketOf   == [d \in MCDocs |-> IF d = 3 THEN 2 ELSE 1]
MCSeverityOf == [d \in MCDocs |-> IF d = 3 THEN "critical" ELSE "warning"]
MCScopeOrder == <<s1, s2>>
MCMaxEnv     == [crash |-> Crashes, stall |-> Stalls, fault |-> Faults]
=============================================================================
