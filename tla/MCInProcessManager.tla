-------------------------- MODULE MCInProcessManager --------------------------
(* Instances of InProcessManager for TLC. *)
EXTENDS InProcessManager
=============================================================================
