------------------------------ MODULE MCAccess ------------------------------
(* An administrator, and a user only the directory knows at first. *)
EXTENDS Access

MCUsers    == {"ann", "bob"}
MCRoles    == {"admin"}
MCMappings == SUBSET MCRoles
MCStart ==
  [u \in MCUsers |-> [exists |-> u = "ann", active |-> TRUE, mapped |-> {},
                      manual |-> IF u = "ann" THEN {"admin"} ELSE {}]]
=============================================================================
