---------------------------- MODULE SpawnContract ----------------------------
(***************************************************************************)
(* What a worker may rely on when it spawns a component, with none of the  *)
(* pipes, signals, memory and system calls that bring it about             *)
(* (clone_isolated_component_manager.cpp:657-1035):                        *)
(*   - a spawn is ready only when its component was constructed;           *)
(*   - a spawn that failed has left no process behind;                     *)
(*   - with the container go all the components that were constructed, and *)
(*     none is constructed afterwards.                                     *)
(***************************************************************************)
CONSTANT Spawns         \* the spawns of one container process

VARIABLES alive,        \* the container's process is
          outcome,      \* per spawn: what its worker knows
          process,      \* per spawn: what has become of its process
          constructed   \* the spawns whose component was constructed

cvars == <<alive, outcome, process, constructed>>

Init == /\ alive = TRUE /\ constructed = {}
        /\ outcome = [s \in Spawns |-> "waiting"]
        /\ process = [s \in Spawns |-> "none"]

Knows(s, what) == outcome' = [outcome EXCEPT ![s] = what]

Fork(s) == /\ alive /\ outcome[s] = "waiting"
           /\ Knows(s, "spawning")
           /\ process' = [process EXCEPT ![s] = "run"]
           /\ UNCHANGED <<alive, constructed>>

\* pipe() or fork() fails, or the worker has given the spawn up before that.
NoFork(s) == /\ alive /\ outcome[s] = "waiting"
             /\ Knows(s, "failed")
             /\ UNCHANGED <<alive, process, constructed>>

Construct(s) == /\ alive /\ process[s] = "run"
                /\ constructed' = constructed \cup {s}
                /\ UNCHANGED <<alive, outcome, process>>

\* The component may have died since: that is for the monitor to find out.
Succeed(s) == /\ alive /\ outcome[s] = "spawning" /\ s \in constructed
              /\ Knows(s, "ready")
              /\ UNCHANGED <<alive, process, constructed>>

\* The process has ended, or is ended now.
Fail(s) == /\ alive /\ outcome[s] = "spawning"
           /\ Knows(s, "failed")
           /\ process' = [process EXCEPT ![s] = "ended"]
           /\ UNCHANGED <<alive, constructed>>

Ends(gone) == /\ gone \subseteq {s \in Spawns : process[s] = "run"}
              /\ process' = [s \in Spawns |-> IF s \in gone THEN "ended"
                                              ELSE process[s]]

\* Processes end on their own, by a signal, or with the thread that forked them.
End == /\ \E gone \in SUBSET Spawns : Ends(gone)
       /\ UNCHANGED <<alive, outcome, constructed>>

\* The container dies and takes with it at least what was constructed.
Perish == /\ alive /\ alive' = FALSE
          /\ \E gone \in SUBSET Spawns :
               /\ Ends(gone)
               /\ \A s \in constructed : process[s] = "run" => s \in gone
          /\ UNCHANGED <<outcome, constructed>>

Next == \/ \E s \in Spawns : \/ Fork(s) \/ NoFork(s) \/ Construct(s)
                             \/ Succeed(s) \/ Fail(s)
        \/ End \/ Perish

Spec == Init /\ [][Next]_cvars
=============================================================================
