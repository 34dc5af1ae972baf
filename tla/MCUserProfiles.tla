---------------------------- MODULE MCUserProfiles ----------------------------
(* Values for the constants of UserProfiles. *)
EXTENDS UserProfiles
CONSTANTS e1

MCEmailOf == [u \in Registered |-> e1]
=============================================================================
