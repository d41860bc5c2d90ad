------------------------------ MODULE MCRoster ------------------------------
(* Six players, shards of one or two: chains of up to six shards. *)
EXTENDS Roster

MCCapacities == {0, 1, 2}
=============================================================================
