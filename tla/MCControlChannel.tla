-------------------------- MODULE MCControlChannel --------------------------
(* Instances of ControlChannel for TLC. *)
EXTENDS ControlChannel
=============================================================================
