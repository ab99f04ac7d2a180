-------------------------- MODULE MCIsolatedManager --------------------------
(* Instances of IsolatedManager for TLC. *)
EXTENDS IsolatedManager, TLC

\* Workers run any job and are never told apart by a property.
WorkerSymmetry == Permutations(Workers)
=============================================================================
