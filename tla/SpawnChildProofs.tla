--------------------------- MODULE SpawnChildProofs ---------------------------
(***************************************************************************)
(* What SpawnChild's run checks for two spawns, proved for any number of   *)
(* them: no component outlives the container, an end of file on a ready    *)
(* pipe is always a death, the gate measures memory that is there, and a   *)
(* spawn keeps what SpawnContract promises the worker.                     *)
(***************************************************************************)
EXTENDS SpawnChild, FiniteSetTheorems, TLAPS

\* A child past getppid() has its death signal armed as long as there is a
\* parent whose death could fire it, and none gets past it without one.
ArmedInv ==
  /\ armed \subseteq Spawns /\ parent \in BOOLEAN
  /\ DOMAIN child = Spawns
  /\ \A s \in Spawns :
       /\ parent /\ child[s] \in {"checked", "loading", "big"} => s \in armed
       /\ ~parent => child[s] \notin {"loading", "big"}

\* A child that has said nothing holds its own pipe open while it lives, and a
\* worker waits only for a child that was forked.
PipeInv ==
  /\ DOMAIN child = Spawns /\ DOMAIN writers = Spawns
  /\ DOMAIN at = Spawns /\ DOMAIN said = Spawns
  /\ \A s \in Spawns :
       /\ child[s] \in {"none"} \cup Dead \cup Alive
       /\ child[s] \in Alive /\ said[s] = "nothing" => s \in writers[s]
       /\ at[s] \in InGate \cup BeforeFork => child[s] = "none"
       /\ at[s] \in {"close", "wait"} => child[s] # "none"
       /\ s \in armed => child[s] \in Alive
       /\ parent /\ at[s] = "fork" => Container \in writers[s]

-----------------------------------------------------------------------------
\* ArmedInv holds of a container that has spawned nothing yet.
LEMMA ArmedInit == Init => ArmedInv
BY DEF Init, ArmedInv

\* Every step keeps ArmedInv; the delicate ones are Arm, Exec and the death of
\* the container.
LEMMA ArmedStep == ArmedInv /\ [Next]_vars => ArmedInv'
<1> SUFFICES ASSUME ArmedInv, [Next]_vars PROVE ArmedInv'
  OBVIOUS
<1> USE DEF ArmedInv, GoTo, Become, Corpse, gate, family, vars
<1>1. ASSUME NEW s \in Spawns, WorkerStep(s) PROVE ArmedInv'
  <2>1. CASE GateStep(s)
    BY <2>1
       DEF GateStep, GateDisabled, EnterGate, KeepWaiting, StopWaiting, Settle
  <2>2. CASE MakePipe(s) \/ SpawnFails(s) \/ CloseWriteEnd(s) \/ ReadOk(s)
             \/ ReadEof(s) \/ PollFindsNobody(s)
    BY <2>2
       DEF MakePipe, SpawnFails, CloseWriteEnd, ReadOk, ReadEof,
           PollFindsNobody
  <2>3. CASE Fork(s)
    BY <2>3 DEF Fork
  <2>4. CASE ReadErr(s) \/ Deadline(s)
    BY <2>4 DEF ReadErr, Deadline, KillAndReap
  <2> QED BY <1>1, <2>1, <2>2, <2>3, <2>4 DEF WorkerStep, SpawnStep
<1>2. ASSUME NEW s \in Spawns, ChildStep(s) PROVE ArmedInv'
  <2>1. CASE Arm(s)
    BY <2>1 DEF Arm
  <2>2. CASE Exec(s)
    BY <2>2 DEF Exec
  <2>3. CASE ExecFails(s)
    BY <2>3 DEF ExecFails
  <2>4. CASE Allocate(s)
    BY <2>4 DEF Allocate
  <2>5. CASE WriteReady(s)
    BY <2>5 DEF WriteReady
  <2> QED BY <1>2, <2>1, <2>2, <2>3, <2>4, <2>5 DEF ChildStep
<1>3. ASSUME NEW s \in Spawns, Die(s) \/ CannotMeasure(s) PROVE ArmedInv'
  BY <1>3 DEF Die, CannotMeasure
<1>4. CASE ContainerDies
  BY <1>4 DEF ContainerDies
<1>5. CASE Finished \/ UNCHANGED vars
  BY <1>5 DEF Finished
<1> QED BY <1>1, <1>2, <1>3, <1>4, <1>5 DEF Next

\* For any number of spawns: no component runs in a child once the container
\* is dead, wherever between fork and exec its death finds that child.
THEOREM NoOrphans == Spec => []NoOrphan
<1>1. ArmedInv => NoOrphan
  BY DEF ArmedInv, NoOrphan
<1> QED BY <1>1, ArmedInit, ArmedStep, PTL DEF Spec

-----------------------------------------------------------------------------
\* PipeInv holds before the first spawn.
LEMMA PipeInit == Init => PipeInv
BY DEF Init, PipeInv, InGate, BeforeFork, Dead, Alive, Small

\* Every step keeps PipeInv: descriptors are closed by the dead, and by a child
\* that has said its line.
LEMMA PipeStep == PipeInv /\ [Next]_vars => PipeInv'
<1> SUFFICES ASSUME PipeInv, [Next]_vars PROVE PipeInv'
  OBVIOUS
<1> USE DEF PipeInv, GoTo, Become, Corpse, CloseAll, gate, family, vars,
            InGate, BeforeFork, Dead, Alive, Small
<1>1. ASSUME NEW s \in Spawns, WorkerStep(s) PROVE PipeInv'
  <2>1. CASE GateStep(s)
    BY <2>1
       DEF GateStep, GateDisabled, EnterGate, KeepWaiting, StopWaiting, Settle
  <2>2. CASE MakePipe(s) \/ SpawnFails(s)
    BY <2>2 DEF MakePipe, SpawnFails
  <2>3. CASE CloseWriteEnd(s)
    BY <2>3, ContainerAssumption DEF CloseWriteEnd
  <2>4. CASE ReadOk(s) \/ ReadEof(s) \/ PollFindsNobody(s)
    BY <2>4 DEF ReadOk, ReadEof, PollFindsNobody
  <2>5. CASE Fork(s)
    BY <1>1, <2>5, ContainerAssumption DEF Fork, WorkerStep
  <2>6. CASE ReadErr(s) \/ Deadline(s)
    BY <2>6, ContainerAssumption DEF ReadErr, Deadline, KillAndReap
  <2> QED BY <1>1, <2>1, <2>2, <2>3, <2>4, <2>5, <2>6 DEF WorkerStep, SpawnStep
<1>2. ASSUME NEW s \in Spawns, ChildStep(s) PROVE PipeInv'
  <2>1. CASE Arm(s) \/ Exec(s) \/ Allocate(s)
    BY <2>1 DEF Arm, Exec, Allocate
  <2>2. CASE ExecFails(s)
    BY <2>2, ContainerAssumption DEF ExecFails
  <2>3. CASE WriteReady(s)
    BY <2>3, ContainerAssumption DEF WriteReady
  <2> QED BY <1>2, <2>1, <2>2, <2>3 DEF ChildStep
<1>3. ASSUME NEW s \in Spawns, Die(s) \/ CannotMeasure(s) PROVE PipeInv'
  BY <1>3, ContainerAssumption DEF Die, CannotMeasure
<1>4. CASE ContainerDies
  BY <1>4, ContainerAssumption DEF ContainerDies
<1>5. CASE Finished \/ UNCHANGED vars
  BY <1>5 DEF Finished
<1> QED BY <1>1, <1>2, <1>3, <1>4, <1>5 DEF Next

\* For any number of spawns: a worker that reads an end of file, and then
\* neither kills nor reaps its child, is right that the child is dead.
THEOREM EofIsDeath == Spec => []EofMeansDead
<1>1. PipeInv => EofMeansDead
  BY DEF PipeInv, EofMeansDead, Alive, Small, Dead
<1> QED BY <1>1, PipeInit, PipeStep, PTL DEF Spec

-----------------------------------------------------------------------------
\* TypeOK, but for the memory.
KindsInv ==
  /\ env \in Environments
  /\ at \in [Spawns -> Stages]
  /\ polls \in [Spawns -> 0 .. MaxPolls]
  /\ parent \in BOOLEAN
  /\ child \in [Spawns -> {"none"} \cup Dead \cup Alive]
  /\ armed \subseteq Spawns
  /\ said \in [Spawns -> {"nothing", "OK", "ERR"}]
  /\ writers \in [Spawns -> SUBSET (Spawns \cup {Container})]

\* At most one spawn is in the gate behind spawn_admit_mutex_.
AdmitInv == admit = {} \/ \E s \in Spawns : admit = {s}

Big == {s \in Spawns : child[s] = "big"}

\* What the children have taken is what is missing.
MemoryInv == avail \in Nat /\ avail + Cardinality(Big) = Total

\* The three hold before the first spawn.
LEMMA KindsInit == Init => KindsInv /\ AdmitInv /\ MemoryInv
<1> SUFFICES ASSUME Init PROVE KindsInv /\ AdmitInv /\ MemoryInv
  OBVIOUS
<1>1. Big = {}
  BY DEF Init, Big
<1>2. MemoryInv
  BY <1>1, FS_EmptySet, MemoryAssumption DEF Init, MemoryInv
<1>3. KindsInv
  BY PollsAssumption
     DEF Init, KindsInv, Stages, InGate, BeforeFork, Dead, Alive, Small
<1> QED BY <1>2, <1>3 DEF Init, AdmitInv

\* Every step keeps KindsInv.
LEMMA KindsStep == KindsInv /\ [Next]_vars => KindsInv'
<1> SUFFICES ASSUME KindsInv, [Next]_vars PROVE KindsInv'
  OBVIOUS
<1> USE DEF KindsInv, GoTo, Become, Corpse, CloseAll, gate, family, vars,
            Stages, InGate, BeforeFork, Dead, Alive, Small
<1>1. ASSUME NEW s \in Spawns, WorkerStep(s) PROVE KindsInv'
  <2>1. CASE GateStep(s)
    BY <2>1, PollsAssumption
       DEF GateStep, GateDisabled, EnterGate, KeepWaiting, StopWaiting, Settle
  <2>2. CASE MakePipe(s) \/ SpawnFails(s) \/ CloseWriteEnd(s)
    BY <2>2 DEF MakePipe, SpawnFails, CloseWriteEnd
  <2>3. CASE ReadOk(s) \/ ReadEof(s) \/ PollFindsNobody(s)
    BY <2>3 DEF ReadOk, ReadEof, PollFindsNobody
  <2>4. CASE Fork(s)
    BY <2>4 DEF Fork
  <2>5. CASE ReadErr(s) \/ Deadline(s)
    BY <2>5 DEF ReadErr, Deadline, KillAndReap
  <2> QED BY <1>1, <2>1, <2>2, <2>3, <2>4, <2>5 DEF WorkerStep, SpawnStep
<1>2. ASSUME NEW s \in Spawns, ChildStep(s) PROVE KindsInv'
  <2>1. CASE Arm(s) \/ Exec(s) \/ Allocate(s)
    BY <2>1 DEF Arm, Exec, Allocate
  <2>2. CASE ExecFails(s)
    BY <2>2 DEF ExecFails
  <2>3. CASE WriteReady(s)
    BY <2>3 DEF WriteReady
  <2> QED BY <1>2, <2>1, <2>2, <2>3 DEF ChildStep
<1>3. ASSUME NEW s \in Spawns, Die(s) \/ CannotMeasure(s) PROVE KindsInv'
  BY <1>3 DEF Die, CannotMeasure
<1>4. CASE ContainerDies
  BY <1>4 DEF ContainerDies
<1>5. CASE Finished \/ UNCHANGED vars
  BY <1>5 DEF Finished
<1> QED BY <1>1, <1>2, <1>3, <1>4, <1>5 DEF Next

\* Every step keeps AdmitInv.
LEMMA AdmitStep == AdmitInv /\ [Next]_vars => AdmitInv'
<1> SUFFICES ASSUME AdmitInv, [Next]_vars PROVE AdmitInv'
  OBVIOUS
<1> USE DEF AdmitInv, gate, vars
<1>1. ASSUME NEW s \in Spawns, WorkerStep(s) PROVE AdmitInv'
  <2>1. CASE GateStep(s)
    BY <2>1
       DEF GateStep, GateDisabled, EnterGate, KeepWaiting, StopWaiting, Settle
  <2>2. CASE SpawnStep(s) \/ Deadline(s)
    BY <2>2
       DEF SpawnStep, MakePipe, Fork, SpawnFails, CloseWriteEnd, ReadOk,
           ReadErr, ReadEof, PollFindsNobody, Deadline, KillAndReap
  <2> QED BY <1>1, <2>1, <2>2 DEF WorkerStep
<1>2. ASSUME NEW s \in Spawns, ChildStep(s) PROVE AdmitInv'
  BY <1>2 DEF ChildStep, Arm, Exec, ExecFails, Allocate, WriteReady
<1>3. ASSUME NEW s \in Spawns, Die(s) \/ CannotMeasure(s) PROVE AdmitInv'
  BY <1>3 DEF Die, CannotMeasure
<1>4. CASE ContainerDies \/ Finished \/ UNCHANGED vars
  BY <1>4 DEF ContainerDies, Finished
<1> QED BY <1>1, <1>2, <1>3, <1>4 DEF Next

\* What the processes in P give back when they die is what they had taken.
LEMMA DeathsFree ==
  ASSUME MemoryInv, NEW P \in SUBSET Spawns, Big' = Big \ P,
         avail' = avail + Freed(P)
  PROVE  MemoryInv'
<1>1. IsFiniteSet(Big)
  BY SpawnsAssumption, FS_Subset DEF Big
<1>2. Freed(P) = Cardinality(Big \cap P)
  <2>1. {s \in P : child[s] = "big"} = Big \cap P
    BY DEF Big
  <2> QED BY <2>1 DEF Freed
<1>3. /\ Cardinality(Big) \in Nat /\ Cardinality(Big \cap P) \in Nat
      /\ Cardinality(Big \ P) = Cardinality(Big) - Cardinality(Big \cap P)
  BY <1>1, FS_Difference, FS_Intersection, FS_CardinalityType
<1> QED BY <1>2, <1>3 DEF MemoryInv

\* Every step keeps MemoryInv: memory is taken by an allocation and given back
\* by the deaths.
LEMMA MemoryStep ==
  KindsInv /\ PipeInv /\ MemoryInv /\ [Next]_vars => MemoryInv'
<1> SUFFICES ASSUME KindsInv, PipeInv, MemoryInv, [Next]_vars PROVE MemoryInv'
  OBVIOUS
<1> USE DEF GoTo, Become, gate, family, vars
<1>1. ASSUME Big' = Big, avail' = avail PROVE MemoryInv'
  BY <1>1 DEF MemoryInv
<1>2. ASSUME NEW s \in Spawns, WorkerStep(s) PROVE MemoryInv'
  <2>1. CASE GateStep(s)
    BY <1>1, <2>1
       DEF GateStep, GateDisabled, EnterGate, KeepWaiting, StopWaiting, Settle,
           Big
  <2>2. CASE MakePipe(s) \/ SpawnFails(s) \/ CloseWriteEnd(s) \/ ReadOk(s)
             \/ ReadEof(s) \/ PollFindsNobody(s)
    BY <1>1, <2>2
       DEF MakePipe, SpawnFails, CloseWriteEnd, ReadOk, ReadEof,
           PollFindsNobody, Big
  <2>3. CASE Fork(s)
    <3>1. child[s] # "big"
      BY <2>3 DEF Fork, PipeInv, BeforeFork
    <3> QED BY <1>1, <2>3, <3>1 DEF Fork, Big, KindsInv
  <2>4. CASE ReadErr(s) \/ Deadline(s)
    <3>1. Big' = Big \ {s} /\ avail' = avail + Freed({s})
      BY <2>4 DEF ReadErr, Deadline, KillAndReap, Big, KindsInv
    <3> QED BY <3>1, DeathsFree
  <2> QED BY <1>2, <2>1, <2>2, <2>3, <2>4 DEF WorkerStep, SpawnStep
<1>3. ASSUME NEW s \in Spawns, ChildStep(s) PROVE MemoryInv'
  <2>1. CASE Arm(s) \/ Exec(s) \/ ExecFails(s) \/ WriteReady(s)
    <3>1. Big' = Big /\ avail' = avail
      BY <2>1 DEF Arm, Exec, ExecFails, WriteReady, Big, KindsInv, Corpse
    <3> QED BY <1>1, <3>1
  <2>2. CASE Allocate(s)
    <3>1. /\ Big' = Big \cup {s} /\ s \notin Big
          /\ avail' = avail - 1 /\ avail > 0
      BY <2>2 DEF Allocate, Big, KindsInv
    <3>2. IsFiniteSet(Big)
      BY SpawnsAssumption, FS_Subset DEF Big
    <3>3. /\ Cardinality(Big) \in Nat
          /\ Cardinality(Big \cup {s}) = Cardinality(Big) + 1
      BY <3>1, <3>2, FS_AddElement, FS_CardinalityType
    <3> QED BY <3>1, <3>3 DEF MemoryInv
  <2> QED BY <1>3, <2>1, <2>2 DEF ChildStep
<1>4. ASSUME NEW s \in Spawns, Die(s) PROVE MemoryInv'
  <2>1. Big' = Big \ {s} /\ avail' = avail + Freed({s})
    BY <1>4 DEF Die, Big, KindsInv, Corpse
  <2> QED BY <2>1, DeathsFree
<1>5. ASSUME NEW s \in Spawns, CannotMeasure(s) PROVE MemoryInv'
  BY <1>1, <1>5 DEF CannotMeasure, Big
<1>6. CASE ContainerDies
  <2>1. /\ Big' = Big \ armed /\ avail' = avail + Freed(armed)
        /\ armed \in SUBSET Spawns
    BY <1>6 DEF ContainerDies, Big, KindsInv
  <2> QED BY <2>1, DeathsFree
<1>7. CASE Finished \/ UNCHANGED vars
  BY <1>1, <1>7 DEF Finished, Big
<1> QED BY <1>2, <1>3, <1>4, <1>5, <1>6, <1>7 DEF Next

\* For any finite number of spawns: every variable keeps its type; free memory
\* never exceeds what there was, and at most one spawn holds the gate.
THEOREM TypeCorrect == Spec => []TypeOK
<1> DEFINE IInv == KindsInv /\ PipeInv /\ AdmitInv /\ MemoryInv
<1>1. IInv => TypeOK
  <2> SUFFICES ASSUME KindsInv, AdmitInv, MemoryInv PROVE TypeOK
    OBVIOUS
  <2>1. admit \subseteq Spawns /\ Cardinality(admit) <= 1
    BY FS_EmptySet, FS_Singleton DEF AdmitInv
  <2>2. Cardinality(Big) \in Nat
    BY SpawnsAssumption, FS_Subset, FS_CardinalityType DEF Big
  <2>3. avail \in 0 .. Total
    BY <2>2, MemoryAssumption DEF MemoryInv
  <2> QED BY <2>1, <2>3 DEF TypeOK, KindsInv
<1>2. IInv /\ [Next]_vars => IInv'
  BY KindsStep, PipeStep, AdmitStep, MemoryStep
<1>3. Init => IInv
  BY KindsInit, PipeInit
<1> QED BY <1>1, <1>2, <1>3, PTL DEF Spec
-----------------------------------------------------------------------------
\* Nothing is in the ready pipe before the child is past execvp.
SaidInv == \A s \in Spawns :
             child[s] \in {"none", "forked", "checked"} => said[s] = "nothing"

\* SaidInv holds before the first spawn.
LEMMA SaidInit == Init => SaidInv
BY DEF Init, SaidInv

\* Every step keeps SaidInv: who writes the line has run execvp or dies of its
\* failure, and a new child is forked where nothing has been said.
LEMMA SaidStep == KindsInv /\ PipeInv /\ SaidInv /\ [Next]_vars => SaidInv'
<1> SUFFICES ASSUME KindsInv, PipeInv, SaidInv, [Next]_vars PROVE SaidInv'
  OBVIOUS
<1> USE DEF KindsInv, SaidInv, GoTo, Become, Corpse, gate, family, vars
<1>1. ASSUME NEW s \in Spawns, WorkerStep(s) PROVE SaidInv'
  <2>1. CASE GateStep(s)
    BY <2>1
       DEF GateStep, GateDisabled, EnterGate, KeepWaiting, StopWaiting, Settle
  <2>2. CASE MakePipe(s) \/ SpawnFails(s) \/ CloseWriteEnd(s) \/ ReadOk(s)
             \/ ReadEof(s) \/ PollFindsNobody(s)
    BY <2>2
       DEF MakePipe, SpawnFails, CloseWriteEnd, ReadOk, ReadEof,
           PollFindsNobody
  <2>3. CASE Fork(s)
    BY <2>3 DEF Fork, PipeInv, BeforeFork
  <2>4. CASE ReadErr(s) \/ Deadline(s)
    BY <2>4 DEF ReadErr, Deadline, KillAndReap
  <2> QED BY <1>1, <2>1, <2>2, <2>3, <2>4 DEF WorkerStep, SpawnStep
<1>2. ASSUME NEW s \in Spawns, ChildStep(s) PROVE SaidInv'
  BY <1>2 DEF ChildStep, Arm, Exec, ExecFails, Allocate, WriteReady
<1>3. ASSUME NEW s \in Spawns, Die(s) \/ CannotMeasure(s) PROVE SaidInv'
  BY <1>3 DEF Die, CannotMeasure
<1>4. CASE ContainerDies
  BY <1>4 DEF ContainerDies
<1>5. CASE Finished \/ UNCHANGED vars
  BY <1>5 DEF Finished
<1> QED BY <1>1, <1>2, <1>3, <1>4, <1>5 DEF Next

\* What the contract's proof knows of every state.
ContractInv == KindsInv /\ PipeInv /\ ArmedInv /\ SaidInv

\* The contract's variables, as SpawnChild maps them.
outcomes == [s \in Spawns |-> Outcome(s)]
processes == [s \in Spawns |-> Process(s)]
constructed == {s \in Spawns : said[s] = "OK"}

\* A step that changes none of them is no step of the contract.
LEMMA Stutters ==
  ASSUME parent' = parent,
         \A s \in Spawns : Outcome(s)' = Outcome(s) /\ Process(s)' = Process(s),
         \A s \in Spawns : said'[s] = "OK" <=> said[s] = "OK"
  PROVE  UNCHANGED <<parent, outcomes, processes, constructed>>
BY DEF outcomes, processes, constructed

\* A child that ends and has not said OK in the same step ends in the contract.
LEMMA ChildEnds ==
  ASSUME KindsInv, NEW s \in Spawns, NEW state \in Dead, child[s] \in Alive,
         child' = [child EXCEPT ![s] = state], UNCHANGED <<parent, at>>,
         \A p \in Spawns : said'[p] = "OK" <=> said[p] = "OK"
  PROVE  Contract!End
<1>1. /\ \A p \in Spawns : Outcome(p)' = Outcome(p)
      /\ \A p \in Spawns \ {s} : Process(p)' = Process(p)
  BY DEF KindsInv, Outcome, Process
<1>2. Process(s) = "run" /\ Process(s)' = "ended"
  BY DEF KindsInv, Process, Alive, Small, Dead
<1> QED BY <1>1, <1>2 DEF Contract!End, Contract!Ends

\* Before the first spawn the contract's variables have their initial values.
LEMMA ContractInit == Init => Contract!Init
BY DEF Init, Contract!Init, Outcome, Process, InGate, BeforeFork, Alive, Small,
       Dead

\* A worker's step is one step of the contract or none: it learns how the spawn
\* came out only when the contract lets it.
LEMMA WorkerKeepsContract ==
  ASSUME ContractInv, NEW s \in Spawns, WorkerStep(s)
  PROVE  [Contract!Next]_(Contract!cvars)
<1> USE DEF ContractInv, KindsInv, GoTo, Become, gate, family
<1> USE DEF Outcome, Process, InGate, BeforeFork, Alive, Small, Dead
<1>1. parent
  BY DEF WorkerStep
<1>2. ASSUME UNCHANGED <<parent, outcomes, processes, constructed>>
      PROVE  [Contract!Next]_(Contract!cvars)
  BY <1>2 DEF Contract!cvars, outcomes, processes, constructed
<1>3. CASE GateStep(s)
  <2>1. UNCHANGED <<parent, outcomes, processes, constructed>>
    BY <1>3, Stutters
       DEF GateStep, GateDisabled, EnterGate, KeepWaiting, StopWaiting, Settle
  <2> QED BY <1>2, <2>1
<1>4. CASE MakePipe(s) \/ CloseWriteEnd(s)
  <2>1. UNCHANGED <<parent, outcomes, processes, constructed>>
    BY <1>4, Stutters DEF MakePipe, CloseWriteEnd
  <2> QED BY <1>2, <2>1
<1>5. CASE Fork(s)
  <2>1. Contract!Fork(s)
    BY <1>1, <1>5 DEF Fork, Contract!Fork, Contract!Knows
  <2> QED BY <2>1 DEF Contract!Next
<1>6. CASE SpawnFails(s)
  <2>1. Contract!NoFork(s)
    BY <1>1, <1>6 DEF SpawnFails, Contract!NoFork, Contract!Knows
  <2> QED BY <2>1 DEF Contract!Next
<1>7. CASE ReadOk(s)
  <2>1. Contract!Succeed(s)
    BY <1>1, <1>7 DEF ReadOk, Contract!Succeed, Contract!Knows
  <2> QED BY <2>1 DEF Contract!Next
<1>8. CASE ReadErr(s) \/ Deadline(s)
  <2>1. Contract!Fail(s)
    BY <1>1, <1>8
       DEF ReadErr, Deadline, KillAndReap, Contract!Fail, Contract!Knows
  <2> QED BY <2>1 DEF Contract!Next
<1>9. CASE ReadEof(s) \/ PollFindsNobody(s)
  <2>1. child[s] \in Dead
    BY <1>9 DEF ReadEof, PollFindsNobody, PipeInv
  <2>2. Contract!Fail(s)
    BY <1>1, <1>9, <2>1
       DEF ReadEof, PollFindsNobody, Contract!Fail, Contract!Knows
  <2> QED BY <2>2 DEF Contract!Next
<1> QED BY <1>3, <1>4, <1>5, <1>6, <1>7, <1>8, <1>9 DEF WorkerStep, SpawnStep

\* So is a child's: its line is the contract's construction, and comes while
\* the container lives.
LEMMA ChildKeepsContract ==
  ASSUME ContractInv, NEW s \in Spawns, ChildStep(s)
  PROVE  [Contract!Next]_(Contract!cvars)
<1> USE DEF ContractInv, KindsInv, GoTo, Become, gate, family
<1> USE DEF Outcome, Process, Alive, Small, Dead, Corpse
<1>1. ASSUME UNCHANGED <<parent, outcomes, processes, constructed>>
      PROVE  [Contract!Next]_(Contract!cvars)
  BY <1>1 DEF Contract!cvars, outcomes, processes, constructed
<1>2. CASE Arm(s) \/ Exec(s) \/ Allocate(s)
  <2>1. UNCHANGED <<parent, outcomes, processes, constructed>>
    BY <1>2, Stutters DEF Arm, Exec, Allocate
  <2> QED BY <1>1, <2>1
<1>3. CASE ExecFails(s)
  <2>1. said[s] = "nothing" /\ child[s] = "checked" /\ Corpse \in Dead
    BY <1>3 DEF ExecFails, SaidInv
  <2>2. Contract!End
    BY <1>3, <2>1, ChildEnds DEF ExecFails
  <2> QED BY <2>2 DEF Contract!Next
<1>4. CASE WriteReady(s)
  <2>1. PICK line \in {"OK", "ERR"} :
          /\ line = "OK" => child[s] = "big"
          /\ said' = [said EXCEPT ![s] = line]
    BY <1>4 DEF WriteReady
  <2>2. CASE line = "OK"
    <3>1. parent /\ child[s] = "big"
      BY <2>1, <2>2 DEF ArmedInv
    <3>2. Contract!Construct(s)
      BY <1>4, <2>1, <2>2, <3>1 DEF WriteReady, Contract!Construct
    <3> QED BY <3>2 DEF Contract!Next
  <2>3. CASE line = "ERR"
    <3>1. UNCHANGED <<parent, outcomes, processes, constructed>>
      BY <1>4, <2>1, <2>3, Stutters DEF WriteReady
    <3> QED BY <1>1, <3>1
  <2> QED BY <2>2, <2>3
<1> QED BY <1>2, <1>3, <1>4 DEF ChildStep

\* The death of the container ends every component that was constructed: each
\* runs in a child whose death signal is armed.
LEMMA DeathKeepsContract ==
  ASSUME ContractInv, ContainerDies
  PROVE  Contract!Perish
<1> USE DEF ContractInv, KindsInv, Outcome, Process, Alive, Small, Dead
<1>1. \A s \in armed : Process(s) = "run" /\ s \in Spawns
  BY DEF PipeInv
<1>2. \A s \in Spawns : said[s] = "OK" /\ Process(s) = "run" => s \in armed
  BY DEF ContainerDies, ArmedInv, SaidInv
<1>3. \A s \in Spawns :
        /\ Outcome(s)' = Outcome(s)
        /\ Process(s)' = IF s \in armed THEN "ended" ELSE Process(s)
  BY DEF ContainerDies, gate
<1>4. processes' = [s \in Spawns |-> IF s \in armed THEN "ended" ELSE processes[s]]
  BY <1>3 DEF processes
<1>5. outcomes' = outcomes /\ constructed' = constructed
  BY <1>3 DEF ContainerDies, outcomes, constructed
<1>6. /\ armed \in SUBSET {s \in Spawns : processes[s] = "run"}
      /\ {s \in constructed : processes[s] = "run"} \subseteq armed
  BY <1>1, <1>2 DEF processes, constructed
<1> HIDE DEF Outcome, Process
<1>7. parent /\ parent' = FALSE
  BY DEF ContainerDies
<1> QED BY <1>4, <1>5, <1>6, <1>7
        DEF Contract!Perish, Contract!Ends, outcomes, processes, constructed

\* For any number of spawns: pipe, signal and poll implement SpawnContract.
THEOREM KeepsContract == Spec => ImplementsContract
<1>1. Init => ContractInv /\ Contract!Init
  BY KindsInit, PipeInit, ArmedInit, SaidInit, ContractInit DEF ContractInv
<1>2. ContractInv /\ [Next]_vars => ContractInv'
  BY KindsStep, PipeStep, ArmedStep, SaidStep DEF ContractInv
<1>3. ContractInv /\ [Next]_vars => [Contract!Next]_(Contract!cvars)
  <2> SUFFICES ASSUME ContractInv, [Next]_vars
               PROVE  [Contract!Next]_(Contract!cvars)
    OBVIOUS
  <2>1. ASSUME NEW s \in Spawns, WorkerStep(s) \/ ChildStep(s)
        PROVE  [Contract!Next]_(Contract!cvars)
    BY <2>1, WorkerKeepsContract, ChildKeepsContract
  <2>2. ASSUME NEW s \in Spawns, Die(s)
        PROVE  [Contract!Next]_(Contract!cvars)
    <3>1. Contract!End
      BY <2>2, ChildEnds DEF Die, Become, Corpse, Dead, ContractInv
    <3> QED BY <3>1 DEF Contract!Next
  <2>3. ASSUME NEW s \in Spawns, CannotMeasure(s)
        PROVE  [Contract!Next]_(Contract!cvars)
    <3>1. UNCHANGED <<parent, outcomes, processes, constructed>>
      BY <2>3, Stutters
         DEF CannotMeasure, GoTo, family, Outcome, Process, InGate, BeforeFork,
             ContractInv, KindsInv
    <3> QED BY <3>1 DEF Contract!cvars, outcomes, processes, constructed
  <2>4. CASE ContainerDies
    BY <2>4, DeathKeepsContract DEF Contract!Next
  <2>5. CASE Finished \/ UNCHANGED vars
    <3>1. UNCHANGED <<parent, at, child, said>>
      BY <2>5 DEF Finished, vars, family
    <3>2. UNCHANGED <<parent, outcomes, processes, constructed>>
      BY <3>1, Stutters DEF Outcome, Process
    <3> QED BY <3>2 DEF Contract!cvars, outcomes, processes, constructed
  <2> QED BY <2>1, <2>2, <2>3, <2>4, <2>5 DEF Next
<1> QED BY <1>1, <1>2, <1>3, PTL DEF Spec, ImplementsContract, Contract!Spec
=============================================================================
