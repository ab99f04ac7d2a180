------------------------------ MODULE SpawnChild ------------------------------
(***************************************************************************)
(* spawn_child_process and the gate before it, system call by system call, *)
(* for several workers at once (clone_isolated_component_manager.cpp,      *)
(* "cim"), and component_node.cpp at the other end of the ready pipe.  It  *)
(* is what IsolatedManager's PassGate, Fork, ChildReady, GiveUp and        *)
(* ChildGone abstract: here free memory, the holders of each pipe's write  *)
(* end, and the death of the container are state.                          *)
(***************************************************************************)
EXTENDS Integers, FiniteSets

CONSTANTS Spawns,      \* the spawns under way, each in a worker of its own
          Container,   \* the container's process, beside its children
          Total,       \* MemAvailable with no child; a component needs 1
          MaxPolls,    \* kMaxWaitMs / kPollMs
          Floors,      \* what spawn_floor_kb() may be; 0 disables the gate
          Deadlines,   \* whether PLAY_LAUNCH_COMPONENT_READY_TIMEOUT_MS is set
          Reapings     \* whether the container was started with SIGCHLD ignored

ASSUME SpawnsAssumption == IsFiniteSet(Spawns)
ASSUME ContainerAssumption == Container \notin Spawns
ASSUME MemoryAssumption == Total \in Nat /\ Floors \subseteq 0 .. Total
ASSUME PollsAssumption == MaxPolls \in Nat
ASSUME SettingsAssumption ==
  Deadlines \subseteq BOOLEAN /\ Reapings \subseteq BOOLEAN

VARIABLES
  env,     \* the environment the container was started with
  at,      \* per spawn: where its worker is
  admit,   \* the holder of spawn_admit_mutex_
  polls,   \* per spawn: waited_ms / kPollMs in the gate
  avail,   \* MemAvailable
  parent,  \* the container's process is alive
  child,   \* per spawn: its process
  armed,   \* children whose PR_SET_PDEATHSIG will fire
  said,    \* per spawn: the line in the ready pipe
  writers  \* per spawn: the processes that hold its pipe's write end open

gate == <<admit, polls, env>>
family == <<child, armed, said>>
vars == <<at, gate, avail, parent, family, writers>>

InGate == {"start", "measure", "settle"}
BeforeFork == {"pipe", "fork"}
Stages == InGate \cup BeforeFork \cup {"close", "wait", "ready", "failed"}
Small == {"forked", "checked", "loading"}     \* alive, no memory taken yet
Alive == Small \cup {"big"}
Corpse == IF env.autoReap THEN "reaped" ELSE "zombie"
Dead == {"zombie", "reaped"}

Environments == [floor : Floors, deadline : Deadlines, autoReap : Reapings]

TypeOK ==
  /\ env \in Environments
  /\ at \in [Spawns -> Stages]
  /\ admit \subseteq Spawns /\ Cardinality(admit) <= 1
  /\ polls \in [Spawns -> 0 .. MaxPolls]
  /\ avail \in 0 .. Total
  /\ parent \in BOOLEAN
  /\ child \in [Spawns -> {"none"} \cup Dead \cup Alive]
  /\ armed \subseteq Spawns
  /\ said \in [Spawns -> {"nothing", "OK", "ERR"}]
  /\ writers \in [Spawns -> SUBSET (Spawns \cup {Container})]

Init ==
  /\ env \in Environments
  /\ at = [s \in Spawns |-> "start"]
  /\ admit = {} /\ polls = [s \in Spawns |-> 0]
  /\ avail = Total /\ parent = TRUE
  /\ child = [s \in Spawns |-> "none"] /\ armed = {}
  /\ said = [s \in Spawns |-> "nothing"]
  /\ writers = [s \in Spawns |-> {}]

GoTo(s, stage) == at' = [at EXCEPT ![s] = stage]
Become(s, state) == child' = [child EXCEPT ![s] = state]
\* The kernel closes what the processes in P had open.
CloseAll(P) == writers' = [s \in Spawns |-> writers[s] \ P]
\* The memory the processes in P give back.
Freed(P) == Cardinality({s \in P : child[s] = "big"})

-----------------------------------------------------------------------------
(* await_spawn_capacity.                                                   *)

GateDisabled(s) ==
  /\ at[s] = "start" /\ env.floor = 0
  /\ GoTo(s, "pipe")
  /\ UNCHANGED <<gate, avail, parent, family, writers>>

EnterGate(s) ==
  /\ at[s] = "start" /\ env.floor > 0 /\ admit = {}
  /\ admit' = {s} /\ GoTo(s, "measure")
  /\ UNCHANGED <<env, polls, avail, parent, family, writers>>

\* (mutant of KeepWaiting: >= kMaxWaitMs became >)
KeepWaitingOnceMore(s) ==
  /\ at[s] = "measure" /\ avail < env.floor /\ polls[s] <= MaxPolls
  /\ polls' = [polls EXCEPT ![s] = @ + 1]
  /\ UNCHANGED <<env, at, admit, avail, parent, family, writers>>

\* Too little memory: sleep, with the mutex held, and measure again.
KeepWaiting(s) ==
  /\ at[s] = "measure" /\ avail < env.floor /\ polls[s] < MaxPolls
  /\ polls' = [polls EXCEPT ![s] = @ + 1]
  /\ UNCHANGED <<env, at, admit, avail, parent, family, writers>>

\* (mutant of StopWaiting: there is no longest wait)
StopWaitingWithRoom(s) ==
  /\ at[s] = "measure" /\ avail >= env.floor
  /\ IF polls[s] > 0 THEN GoTo(s, "settle") /\ UNCHANGED admit
                     ELSE GoTo(s, "pipe") /\ admit' = {}
  /\ UNCHANGED <<env, polls, avail, parent, family, writers>>

\* There is room, or the wait was long enough.  A spawn that had to wait
\* sleeps once more before it lets the next one measure.
StopWaiting(s) ==
  /\ at[s] = "measure" /\ (avail >= env.floor \/ polls[s] = MaxPolls)
  /\ IF polls[s] > 0 \/ avail < env.floor
     THEN GoTo(s, "settle") /\ UNCHANGED admit
     ELSE GoTo(s, "pipe") /\ admit' = {}
  /\ UNCHANGED <<env, polls, avail, parent, family, writers>>

\* /proc/meminfo has no MemAvailable: "do not pretend to govern".
CannotMeasure(s) ==
  /\ parent /\ at[s] = "measure"
  /\ GoTo(s, "pipe") /\ admit' = {}
  /\ UNCHANGED <<env, polls, avail, parent, family, writers>>

Settle(s) ==
  /\ at[s] = "settle"
  /\ GoTo(s, "pipe") /\ admit' = {}
  /\ UNCHANGED <<env, polls, avail, parent, family, writers>>

-----------------------------------------------------------------------------
(* spawn_child_process in the container.                                   *)

\* pipe(); its ends are not close-on-exec.
MakePipe(s) ==
  /\ at[s] = "pipe"
  /\ writers' = [writers EXCEPT ![s] = {Container}]
  /\ GoTo(s, "fork")
  /\ UNCHANGED <<gate, avail, parent, family>>

\* fork(): the child inherits every descriptor the container has open, those
\* of pipes other workers are between pipe() and close() with included.
Fork(s) ==
  /\ at[s] = "fork"
  /\ Become(s, "forked")
  /\ writers' = [p \in Spawns |->
       IF Container \in writers[p] THEN writers[p] \cup {s} ELSE writers[p]]
  /\ GoTo(s, "close")
  /\ UNCHANGED <<gate, avail, parent, armed, said>>

\* pipe() or fork() fails, and it throws.
SpawnFails(s) ==
  /\ at[s] \in {"pipe", "fork"}
  /\ writers' = [writers EXCEPT ![s] = {}]
  /\ GoTo(s, "failed")
  /\ UNCHANGED <<gate, avail, parent, family>>

\* The container closes its write end: from here on an end of file is possible.
CloseWriteEnd(s) ==
  /\ at[s] = "close"
  /\ writers' = [writers EXCEPT ![s] = @ \ {Container}]
  /\ GoTo(s, "wait")
  /\ UNCHANGED <<gate, avail, parent, family>>

ReadOk(s) ==
  /\ at[s] = "wait" /\ said[s] = "OK"
  /\ GoTo(s, "ready")
  /\ UNCHANGED <<gate, avail, parent, family, writers>>

\* SIGKILL and waitpid.
KillAndReap(s) ==
  /\ Become(s, "reaped") /\ armed' = armed \ {s}
  /\ avail' = avail + Freed({s}) /\ CloseAll({s})
  /\ GoTo(s, "failed")
  /\ UNCHANGED <<gate, parent, said>>

ReadErr(s) == at[s] = "wait" /\ said[s] = "ERR" /\ KillAndReap(s)

Deadline(s) ==
  at[s] = "wait" /\ said[s] = "nothing" /\ env.deadline /\ KillAndReap(s)

\* read() returns 0: no process holds the write end.  The child is taken for
\* gone, and not waited for.
ReadEof(s) ==
  /\ at[s] = "wait" /\ said[s] = "nothing" /\ writers[s] = {}
  /\ GoTo(s, "failed")
  /\ UNCHANGED <<gate, avail, parent, family, writers>>

\* (mutant of PollFindsNobody: waitpid() in place of kill(pid, 0), its ECHILD
\* not told from "still running")
PollFindsZombie(s) ==
  /\ at[s] = "wait" /\ said[s] = "nothing" /\ child[s] = "zombie"
  /\ GoTo(s, "failed")
  /\ UNCHANGED <<gate, avail, parent, family, writers>>

\* poll() times out and kill(pid, 0) finds no such process, not even a zombie.
PollFindsNobody(s) ==
  /\ at[s] = "wait" /\ said[s] = "nothing" /\ child[s] = "reaped"
  /\ GoTo(s, "failed")
  /\ UNCHANGED <<gate, avail, parent, family, writers>>

-----------------------------------------------------------------------------
(* The child: before exec, then component_node.                            *)

\* (mutant of Arm: getppid() is compared before prctl())
ArmAfterCheck(s) ==
  /\ child[s] = "forked" /\ parent
  /\ Become(s, "checked")
  /\ UNCHANGED <<at, gate, avail, parent, armed, said, writers>>

\* prctl(PR_SET_PDEATHSIG, SIGKILL), which a parent already dead cannot fire.
Arm(s) ==
  /\ child[s] = "forked"
  /\ Become(s, "checked")
  /\ armed' = IF parent THEN armed \cup {s} ELSE armed
  /\ UNCHANGED <<at, gate, avail, parent, said, writers>>

\* (mutant of Exec: the ready pipe is close-on-exec)
ExecClosing(s) ==
  /\ child[s] = "checked" /\ parent
  /\ Become(s, "loading") /\ CloseAll({s})
  /\ UNCHANGED <<at, gate, avail, parent, armed, said>>

\* (mutant of Exec: no look at getppid())
ExecUnchecked(s) ==
  /\ child[s] = "checked"
  /\ Become(s, "loading")
  /\ UNCHANGED <<at, gate, avail, parent, armed, said, writers>>

\* getppid() is still the container: execvp.
Exec(s) ==
  /\ child[s] = "checked" /\ parent
  /\ Become(s, "loading")
  /\ UNCHANGED <<at, gate, avail, parent, armed, said, writers>>

\* The library and the node take their memory.
Allocate(s) ==
  /\ child[s] = "loading" /\ avail > 0
  /\ avail' = avail - 1 /\ Become(s, "big")
  /\ UNCHANGED <<at, gate, parent, armed, said, writers>>

\* write_ready: one line, OK or ERR, and the write end it was given is closed.
\* Those it merely inherited stay open.  Errors found early need no memory.
WriteReady(s) ==
  /\ child[s] \in {"loading", "big"} /\ said[s] = "nothing"
  /\ \E line \in {"OK", "ERR"} :
       /\ line = "OK" => child[s] = "big"
       /\ said' = [said EXCEPT ![s] = line]
  /\ writers' = [writers EXCEPT ![s] = @ \ {s}]
  /\ UNCHANGED <<at, gate, avail, parent, child, armed>>

\* The child dies: by itself at any time, or because getppid() has changed.
Die(s) ==
  /\ child[s] \in Alive
  /\ Become(s, Corpse) /\ armed' = armed \ {s}
  /\ avail' = avail + Freed({s}) /\ CloseAll({s})
  /\ UNCHANGED <<at, gate, parent, said>>

\* execvp fails: the child says so on the pipe, and exits.
ExecFails(s) ==
  /\ child[s] = "checked" /\ parent
  /\ said' = [said EXCEPT ![s] = "ERR"]
  /\ Become(s, Corpse) /\ armed' = armed \ {s} /\ CloseAll({s})
  /\ UNCHANGED <<at, gate, avail, parent>>

\* The container dies of anything, SIGKILL included: the kernel signals the
\* armed children, and play_launch, the subreaper, reaps them.
ContainerDies ==
  /\ parent /\ parent' = FALSE
  /\ child' = [s \in Spawns |-> IF s \in armed THEN "reaped" ELSE child[s]]
  /\ armed' = {}
  /\ avail' = avail + Freed(armed) /\ CloseAll(armed \cup {Container})
  /\ UNCHANGED <<at, gate, said>>

-----------------------------------------------------------------------------
(* Specification. *)

GateStep(s) == GateDisabled(s) \/ EnterGate(s) \/ KeepWaiting(s)
               \/ StopWaiting(s) \/ Settle(s)
SpawnStep(s) == \/ MakePipe(s) \/ Fork(s) \/ SpawnFails(s) \/ CloseWriteEnd(s)
                \/ ReadOk(s) \/ ReadErr(s) \/ ReadEof(s) \/ PollFindsNobody(s)
WorkerStep(s) == parent /\ (GateStep(s) \/ SpawnStep(s) \/ Deadline(s))
ChildStep(s) == \/ Arm(s) \/ Exec(s) \/ ExecFails(s) \/ Allocate(s)
                \/ WriteReady(s)
\* getppid() has changed: _exit(1).
OrphanExits(s) == child[s] = "checked" /\ ~parent /\ Die(s)

\* Every spawn is over, or the container is: what is left may just go on.
Finished == /\ ~parent \/ \A s \in Spawns : at[s] \in {"ready", "failed"}
            /\ UNCHANGED vars

Next == \/ \E s \in Spawns : WorkerStep(s) \/ CannotMeasure(s)
                             \/ ChildStep(s) \/ Die(s)
        \/ ContainerDies
        \/ Finished

\* Workers run; a child gets as far as exec or its exit.  Nothing obliges a
\* component to return from its constructor, or anyone to die.
Fairness == \A s \in Spawns : /\ WF_vars(WorkerStep(s))
                              /\ WF_vars(Arm(s)) /\ WF_vars(OrphanExits(s))

Spec == Init /\ [][Next]_vars /\ Fairness

-----------------------------------------------------------------------------
(* Properties. *)

\* No component outlives the container, whenever the container dies: a child
\* that has not yet asked for the death signal notices by its parent's pid.
NoOrphan == ~parent => \A s \in Spawns : child[s] \notin {"loading", "big"}

\* ... and what is left of its children then goes away by itself.
OrphansExit ==
  ~parent ~> \A s \in Spawns : child[s] \in Dead \cup {"none"}

\* "EOF: every write end is closed, which for a child that never reported
\* means it is gone" (cim:939-943): the worker, which neither kills nor reaps
\* such a child, never takes one that is alive for gone.
EofMeansDead ==
  \A s \in Spawns :
    at[s] = "wait" /\ said[s] = "nothing" /\ writers[s] = {} =>
      child[s] \in Dead

\* "Never blocks forever" (cim:404-407): every spawn passes the gate, although
\* one that waits for memory makes all the others wait behind the mutex.
GateIsPassed ==
  \A s \in Spawns : at[s] \in InGate ~> (at[s] \notin InGate \/ ~parent)

\* A worker does not wait for ever for a child that has died.
NoticesDeaths ==
  \A s \in Spawns : (at[s] = "wait" /\ child[s] \in Dead) ~>
                      (at[s] # "wait" \/ ~parent)

\* With a deadline, or where dead children leave no zombie, it does not,
\* although a sibling may hold back the pipe's end of file.
DeathIsNoticed == env.deadline \/ env.autoReap => NoticesDeaths

\* What a worker knows of its spawn, and what has become of the process.
Outcome(s) == CASE at[s] \in InGate \cup BeforeFork -> "waiting"
                [] at[s] \in {"close", "wait"} -> "spawning"
                [] OTHER -> at[s]
Process(s) == CASE child[s] \in Alive -> "run"
                [] child[s] \in Dead -> "ended"
                [] OTHER -> "none"

Contract == INSTANCE SpawnContract WITH
              alive <- parent,
              outcome <- [s \in Spawns |-> Outcome(s)],
              process <- [s \in Spawns |-> Process(s)],
              constructed <- {s \in Spawns : said[s] = "OK"}

\* Pipe, signal and poll give a worker what SpawnContract says of a spawn: one
\* that was taken for failed, killed or found dead, has left no process, and
\* with the container go all its components (cim:801-1035).
ImplementsContract == Contract!Spec

-----------------------------------------------------------------------------
(* What comments in the code say and the code does not keep.               *)

\* "the wait is bounded by LIVENESS instead of by time -- see the poll loop,
\* which gives up the moment the child dies" (cim:199-201): with no deadline
\* set, a worker leaves the wait for a child that has died.
GivesUpOnTheDead == ~env.deadline => NoticesDeaths

=============================================================================
