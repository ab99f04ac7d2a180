---------------------------- MODULE MCSpawnChild ----------------------------
(* Instances of SpawnChild for TLC. *)
EXTENDS SpawnChild
=============================================================================
