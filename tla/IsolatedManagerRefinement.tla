---------------------- MODULE IsolatedManagerRefinement ----------------------
(***************************************************************************)
(* IsolatedManager implements LoadContract and SpawnContract, for any      *)
(* number of loads and workers: seen through StatusOf, and through         *)
(* SpawnOutcome and ProcessOf, every step of every thread is a step of the *)
(* contract or none.                                                       *)
(***************************************************************************)
EXTENDS IsolatedManagerOutcomes

Status == [i \in Ids |-> StatusOf(i)]

\* What StatusOf says, case by case.
LEMMA StatusCases ==
  ASSUME NEW i \in Ids, uniqueId \in Int
  PROVE  /\ phase[i] # "absent" => StatusOf(i) = "pending"
         /\ phase[i] = "absent" /\ i \in children \cup doomed =>
              StatusOf(i) = "running"
         /\ phase[i] = "absent" /\ i \notin children \cup doomed =>
              StatusOf(i) = IF i < uniqueId THEN "over" ELSE "none"
BY DEF StatusOf, Pending, Given, Ids

\* The same of the next state.
LEMMA StatusCasesNext ==
  ASSUME NEW i \in Ids, uniqueId' \in Int
  PROVE  /\ phase'[i] # "absent" => StatusOf(i)' = "pending"
         /\ phase'[i] = "absent" /\ i \in children' \cup doomed' =>
              StatusOf(i)' = "running"
         /\ phase'[i] = "absent" /\ i \notin children' \cup doomed' =>
              StatusOf(i)' = IF i < uniqueId' THEN "over" ELSE "none"
BY DEF StatusOf, Pending, Given, Ids

\* A load whose entry, owner and id nobody touches keeps its status.
LEMMA StatusKept ==
  ASSUME NEW i \in Ids, uniqueId \in Int, uniqueId' \in Int,
         phase'[i] = phase[i],
         i \in children' \cup doomed' <=> i \in children \cup doomed,
         i < uniqueId' <=> i < uniqueId
  PROVE  StatusOf(i)' = StatusOf(i)
BY StatusCases, StatusCasesNext

\* A step that touches the status of one load only, and gives no leave to
\* resend, is one of the contract's if that load's change is.
LEMMA OneLoadMoves ==
  ASSUME NEW i \in Ids, UNCHANGED resendOk,
         \A j \in Ids \ {i} : StatusOf(j)' = StatusOf(j),
         \/ StatusOf(i)' = StatusOf(i)
         \/ StatusOf(i) = "none" /\ StatusOf(i)' = "pending"
         \/ StatusOf(i) = "pending" /\ StatusOf(i)' = "running"
         \/ StatusOf(i) \in {"pending", "running"} /\ StatusOf(i)' = "over"
  PROVE  [Contract!Next]_(Contract!cvars)
<1>1. Status' = [Status EXCEPT ![i] = StatusOf(i)']
  BY DEF Status
<1>2. Status[i] = StatusOf(i)
  BY DEF Status
<1>3. CASE StatusOf(i)' = StatusOf(i)
  BY <1>1, <1>2, <1>3 DEF Status, Contract!cvars
<1>4. CASE StatusOf(i) = "none" /\ StatusOf(i)' = "pending"
  BY <1>1, <1>2, <1>4 DEF Status, Contract!Next, Contract!Accept
<1>5. CASE StatusOf(i) = "pending" /\ StatusOf(i)' = "running"
  BY <1>1, <1>2, <1>5 DEF Status, Contract!Next, Contract!Start
<1>6. CASE StatusOf(i) \in {"pending", "running"} /\ StatusOf(i)' = "over"
  BY <1>1, <1>2, <1>6 DEF Status, Contract!Next, Contract!End
<1> QED BY <1>3, <1>4, <1>5, <1>6

\* A step that moves no load is a stutter, or leave to resend a load that is
\* over.
LEMMA NoLoadMoves ==
  ASSUME TypeOK, TypeOK', UNCHANGED <<uniqueId, phase>>,
         children' \cup doomed' = children \cup doomed,
         \/ UNCHANGED resendOk
         \/ \E i \in Ids : resendOk' = resendOk \cup {i} /\ StatusOf(i) = "over"
  PROVE  [Contract!Next]_(Contract!cvars)
<1>1. uniqueId \in Int /\ uniqueId' \in Int
  BY DEF TypeOK
<1>2. \A i \in Ids : StatusOf(i)' = StatusOf(i)
  BY <1>1, StatusKept
<1>3. Status' = Status
  BY <1>2 DEF Status
<1>4. CASE UNCHANGED resendOk
  BY <1>3, <1>4 DEF Status, Contract!cvars
<1>5. CASE \E i \in Ids : resendOk' = resendOk \cup {i} /\ StatusOf(i) = "over"
  BY <1>3, <1>5 DEF Status, Contract!Next, Contract!AllowResend
<1> QED BY <1>4, <1>5

-----------------------------------------------------------------------------
\* The manager starts where the contract does: no load given out.
LEMMA RefinesInit == Init => Contract!Init
<1> SUFFICES ASSUME Init PROVE Contract!Init
  OBVIOUS
<1>1. ASSUME NEW i \in Ids PROVE StatusOf(i) = "none"
  BY <1>1, StatusCases DEF Init, Ids
<1> QED BY <1>1 DEF Init, Contract!Init

\* Every step of a job: the load passes from the pending to the children or to
\* its end, and its cancellation is confirmed only afterwards.
LEMMA JobRefines ==
  ASSUME IInv, IInv', NEW i \in Ids, JobStep(i)
  PROVE  [Contract!Next]_(Contract!cvars)
<1> USE DEF tables, owned, flags, jobs, reader, main, monitor, procs, sent,
            offJob
<1>1. TypeOK /\ TypeOK' /\ JobInv(i) /\ JobInv(i)'
  BY DEF IInv
<1>2. /\ uniqueId \in Int /\ uniqueId' \in Int
      /\ phase \in [Ids -> {"absent", "queued", "constructing"}]
      /\ pc \in [Ids -> Stages]
  BY <1>1 DEF TypeOK
<1>3. CASE PassGate(i) \/ DropPending(i) \/ CatchFailure(i) \/ Untrack(i)
  <2>1. /\ pc[i] \in {"gate", "drop", "catch", "untrack"}
        /\ phase' = phase \/ phase' = [phase EXCEPT ![i] = "absent"]
        /\ UNCHANGED <<uniqueId, children, doomed, resendOk>>
    BY <1>3 DEF PassGate, DropPending, CatchFailure, Untrack, Forget
  <2>2. phase[i] # "absent" /\ i < uniqueId
    BY <1>1, <1>2, <2>1 DEF JobInv, Ids
  <2>3. StatusOf(i) = "pending"
    BY <1>2, <2>2, StatusCases
  <2>4. StatusOf(i)' \in {"pending", "running", "over"}
    BY <1>2, <2>1, <2>2, StatusCasesNext
  <2>5. \A j \in Ids \ {i} : StatusOf(j)' = StatusOf(j)
    BY <1>2, <2>1, StatusKept
  <2> QED BY <2>1, <2>3, <2>4, <2>5, OneLoadMoves
<1>4. CASE NoteConstructing(i) \/ Register(i)
  <2>1. /\ phase[i] # "absent" /\ phase'[i] # "absent"
        /\ phase' = phase \/ phase' = [phase EXCEPT ![i] = "constructing"]
        /\ children' \in {children, children \cup {i}}
        /\ UNCHANGED <<uniqueId, doomed, resendOk>>
    BY <1>1, <1>2, <1>4 DEF NoteConstructing, Register, JobInv
  <2>2. StatusOf(i)' = StatusOf(i)
    BY <1>2, <2>1, StatusCases, StatusCasesNext
  <2>3. \A j \in Ids \ {i} : StatusOf(j)' = StatusOf(j)
    BY <1>2, <2>1, StatusKept
  <2> QED BY <2>1, <2>2, <2>3, OneLoadMoves
<1>5. CASE \/ Fork(i) \/ ForkFails(i) \/ ChildReady(i) \/ GiveUp(i)
           \/ ChildGone(i) \/ RecheckOk(i) \/ CleanupSpawn(i) \/ ReportLoaded(i)
  <2>1. UNCHANGED <<uniqueId, phase, children, doomed, resendOk>>
    BY <1>5
       DEF Fork, ForkFails, ChildReady, GiveUp, ChildGone, RecheckOk,
           CleanupSpawn, ReportLoaded
  <2> QED BY <1>1, <2>1, NoLoadMoves
<1>6. CASE ReportPreCancel(i) \/ ReportFailure(i)
  <2>1. /\ pc[i] \in {"precancel", "failed", "cancelled"}
        /\ UNCHANGED <<uniqueId, phase, children, doomed>>
        /\ resendOk' \in {resendOk, resendOk \cup {i}}
    BY <1>6 DEF ReportPreCancel, ReportFailure, AllowResend
  <2>2. phase[i] = "absent" /\ i \notin children \cup doomed /\ i < uniqueId
    BY <1>1, <1>2, <2>1 DEF JobInv, Owned, Ids
  <2>3. StatusOf(i) = "over"
    BY <1>2, <2>2, StatusCases
  <2> QED BY <1>1, <2>1, <2>3, NoLoadMoves
<1> QED BY <1>3, <1>4, <1>5, <1>6 DEF JobStep, PromptStep

\* A child leaves its map: a running load is over, and one whose worker has not
\* yet taken it out of the pending stays pending.
LEMMA ChildLeaves ==
  ASSUME IInv, IInv', NEW i \in Ids, i \in children \cup doomed,
         UNCHANGED <<uniqueId, phase, resendOk>>,
         children' \cup doomed' = (children \cup doomed) \ {i}
  PROVE  [Contract!Next]_(Contract!cvars)
<1>1. /\ uniqueId \in Int /\ uniqueId' \in Int /\ JobInv(i)
      /\ pc \in [Ids -> Stages]
  BY DEF IInv, TypeOK
<1>2. i < uniqueId
  BY <1>1 DEF JobInv, Owned, Ids
<1>3. \A j \in Ids \ {i} : StatusOf(j)' = StatusOf(j)
  BY <1>1, StatusKept
<1>4. \/ StatusOf(i)' = StatusOf(i)
      \/ StatusOf(i) = "running" /\ StatusOf(i)' = "over"
  BY <1>1, <1>2, StatusCases, StatusCasesNext
<1> QED BY <1>3, <1>4, OneLoadMoves

\* A load is given out: from none to pending.
LEMMA LoadArrives ==
  ASSUME IInv, IInv', NEW stage \in Stages, Reserve(stage),
         UNCHANGED <<children, doomed, resendOk>>
  PROVE  [Contract!Next]_(Contract!cvars)
<1>1. PICK i \in Ids : i = uniqueId
  BY ReserveTyped DEF IInv
<1>2. /\ uniqueId \in Int /\ uniqueId' = i + 1
      /\ phase' = [phase EXCEPT ![i] = "queued"]
      /\ phase \in [Ids -> {"absent", "queued", "constructing"}]
      /\ pc \in [Ids -> Stages]
  BY <1>1 DEF IInv, TypeOK, Reserve
<1>3. JobInv(i)
  BY DEF IInv
<1>4. phase[i] = "absent" /\ i \notin children \cup doomed
  BY <1>1, <1>2, <1>3 DEF JobInv, Owned
<1>5. StatusOf(i) = "none" /\ StatusOf(i)' = "pending"
  BY <1>1, <1>2, <1>4, StatusCases, StatusCasesNext
<1>6. ASSUME NEW j \in Ids \ {i} PROVE StatusOf(j)' = StatusOf(j)
  BY <1>1, <1>2, <1>6, StatusKept DEF Ids
<1> QED BY <1>5, <1>6, OneLoadMoves

\* Every step of the manager is a step of the contract, or none.
LEMMA RefinesStep ==
  IInv /\ IInv' /\ [Next]_vars => [Contract!Next]_(Contract!cvars)
<1> SUFFICES ASSUME IInv, IInv', [Next]_vars
             PROVE  [Contract!Next]_(Contract!cvars)
  OBVIOUS
<1> USE DEF tables, owned, flags, jobs, reader, main, monitor, procs, sent,
            offJob, offReader, offMain, offSystem
<1>1. TypeOK /\ TypeOK' /\ ThreadInv
  BY DEF IInv
<1>2. CASE UNCHANGED loads
  BY <1>1, <1>2, NoLoadMoves DEF loads
<1>3. ASSUME NEW s \in Seqs, LoadFrame(s) PROVE [Contract!Next]_(Contract!cvars)
  BY <1>3, LoadArrives, StagesAndKinds DEF LoadFrame
<1>4. CASE OnLoadNode
  BY <1>4, LoadArrives, StagesAndKinds DEF OnLoadNode
<1>5. CASE \/ SubmitSpawn \/ KillVictim
           \/ \E i \in Ids : ChildDies(i)
           \/ \E w \in Workers : TakeWork(w) \/ WorkerExit(w)
  <2>1. UNCHANGED <<uniqueId, phase, children, doomed, resendOk>>
    BY <1>5 DEF SubmitSpawn, KillVictim, ChildDies, TakeWork, WorkerExit
  <2> QED BY <1>1, <2>1, NoLoadMoves
<1>6. CASE SwapChildren
  <2>1. doomed = {}
    BY <1>1, <1>6 DEF SwapChildren, ThreadInv
  <2> QED BY <1>1, <1>6, <2>1, NoLoadMoves DEF SwapChildren
<1>7. CASE AnswerUnknown
  <2>1. /\ rpc = "unknown" /\ rid \in Ids
        /\ UNCHANGED <<uniqueId, phase, children, doomed>>
        /\ resendOk' \in {resendOk, resendOk \cup {rid}}
    BY <1>1, <1>7 DEF AnswerUnknown, AllowResend, TypeOK
  <2>2. phase[rid] = "absent" /\ rid \notin children /\ rid < uniqueId
    BY <1>1, <2>1 DEF ThreadInv, Given, TypeOK, Ids
  <2>3. rid \notin doomed
    BY <1>1, <2>1 DEF ThreadInv
  <2>4. StatusOf(rid) = "over"
    BY <1>1, <2>1, <2>2, <2>3, StatusCases DEF TypeOK
  <2> QED BY <1>1, <2>1, <2>4, NoLoadMoves
<1>8. ASSUME NEW i \in Ids, JobStep(i) PROVE [Contract!Next]_(Contract!cvars)
  BY <1>8, JobRefines
<1>9. ASSUME NEW i \in Ids, HandleDeath(i)
      PROVE  [Contract!Next]_(Contract!cvars)
  <2>1. UNCHANGED <<uniqueId, phase, doomed, resendOk>>
    BY <1>9 DEF HandleDeath
  <2>2. CASE i \in children
    <3>1. children' = children \ {i} /\ i \notin doomed
      BY <1>1, <1>9, <2>2 DEF HandleDeath, ThreadInv
    <3> QED BY <2>1, <2>2, <3>1, ChildLeaves
  <2>3. CASE i \notin children
    BY <1>1, <1>9, <2>1, <2>3, NoLoadMoves DEF HandleDeath
  <2> QED BY <2>2, <2>3
<1>10. CASE UnloadChild
  <2>1. mid \in Ids /\ UNCHANGED <<uniqueId, phase, doomed, resendOk>>
    BY <1>1, <1>10 DEF UnloadChild, TypeOK
  <2>2. CASE children' = children
    BY <1>1, <2>1, <2>2, NoLoadMoves
  <2>3. CASE mid \in children /\ children' = children \ {mid}
    <3>1. mid \notin doomed
      BY <1>1, <2>3 DEF ThreadInv
    <3> QED BY <2>1, <2>3, <3>1, ChildLeaves
  <2> QED BY <1>10, <2>2, <2>3 DEF UnloadChild
<1>11. ASSUME NEW i \in Ids, ReapDoomed(i) \/ SweepChild(i)
       PROVE  [Contract!Next]_(Contract!cvars)
  <2>1. /\ UNCHANGED <<uniqueId, phase, resendOk>>
        /\ i \in children \cup doomed
        /\ children' \cup doomed' = (children \cup doomed) \ {i}
    BY <1>1, <1>11 DEF ReapDoomed, SweepChild, ThreadInv
  <2> QED BY <2>1, ChildLeaves
<1> QED
  BY StepCases, <1>2, <1>3, <1>4, <1>5, <1>6, <1>7, <1>8, <1>9, <1>10, <1>11

-----------------------------------------------------------------------------
(* Spawns: what a child has said, against its process and its job.         *)

\* A line comes from a process, and once the worker has left the wait for it
\* only the children that said OK still run.
SaidInv(i) == /\ proc[i] = "none" => said[i] = "nothing"
              /\ proc[i] = "run" /\ pc[i] \notin {"note", "wait"} =>
                   said[i] = "OK"

SpawnInv == IInv /\ ExitInv /\ \A i \in Ids : SaidInv(i)

Outlives == (mpc # "end")' = (mpc # "end")

\* A child speaks in its constructor's step only, and the destructor ends in
\* one.
LEMMA SpeechAndEnd ==
  ASSUME [Next]_vars
  PROVE  \/ \E i \in Ids : ConstructorEnds(i)
         \/ EndDestructor
         \/ UNCHANGED said /\ Outlives
<1> USE
    DEF tables, owned, flags, jobs, reader, main, monitor, procs, sent,
        offJob, offReader, offMain, offSystem, Outlives
<1>1. CASE UNCHANGED vars
  BY <1>1 DEF vars
<1>2. ASSUME NEW s \in Seqs, LoadFrame(s) PROVE UNCHANGED said /\ Outlives
  BY <1>2 DEF LoadFrame
<1>3. ASSUME NEW i \in Ids, JobStep(i) PROVE UNCHANGED said /\ Outlives
  BY <1>3
     DEF JobStep, PromptStep, PassGate, ReportPreCancel, Fork, ForkFails,
         NoteConstructing, ChildReady, GiveUp, ChildGone, RecheckOk,
         CleanupSpawn, DropPending, Register, Untrack, ReportLoaded,
         CatchFailure, ReportFailure
<1>4. ASSUME NEW i \in Ids,
             \/ QueryFrame(i) \/ CancelFrame(i) \/ UnloadRequest(i)
             \/ ChildDies(i) \/ HandleDeath(i) \/ SignalTarget(i)
             \/ ReapDoomed(i) \/ SweepChild(i)
      PROVE  UNCHANGED said /\ Outlives
  BY <1>4
     DEF QueryFrame, CancelFrame, UnloadRequest, ChildDies, HandleDeath,
         SignalTarget, ReapDoomed, SweepChild
<1>5. ASSUME NEW w \in Workers, TakeWork(w) \/ WorkerExit(w)
      PROVE  UNCHANGED said /\ Outlives
  BY <1>5 DEF TakeWork, WorkerExit
<1>6. CASE OnLoadNode \/ ReaderStep \/ ReaderExit \/ MonitorWakes \/ MonitorExit
  BY <1>6
     DEF OnLoadNode, ReaderStep, SendAccepted, SubmitSpawn, QueryChildren,
         AnswerUnknown, KillVictim, ConfirmCancel, ReaderExit, MonitorWakes,
         MonitorExit
<1>7. CASE \/ UnloadChild \/ ReportUnloaded \/ Sigterm \/ StopControl
           \/ StopMonitor \/ JoinMonitor \/ SwapChildren \/ CollectTargets
           \/ AllSignalled \/ StopWorkers \/ JoinWorkers
  BY <1>7
     DEF UnloadChild, ReportUnloaded, Sigterm, StopControl, StopMonitor,
         JoinMonitor, SwapChildren, CollectTargets, AllSignalled, StopWorkers,
         JoinWorkers
<1> QED
  BY <1>1, <1>2, <1>3, <1>4, <1>5, <1>6, <1>7
     DEF Next, DestructorStep, Terminated

\* Every step keeps what was said in line with what became of the process.
LEMMA SaidStep ==
  ASSUME IInv, [Next]_vars, NEW j \in Ids, SaidInv(j)
  PROVE  SaidInv(j)'
<1>1. /\ pc \in [Ids -> Stages] /\ said \in [Ids -> {"nothing", "OK", "ERR"}]
      /\ proc \in [Ids -> {"none", "run", "zombie", "reaped"}]
      /\ ThreadInv /\ QueueInv /\ \A i \in Ids : JobInv(i)
  BY DEF IInv, TypeOK
<1> USE <1>1
    DEF SaidInv, tables, owned, flags, jobs, reader, main, monitor, procs, sent,
        offJob, offReader, offMain, offSystem
<1>2. ASSUME NEW i \in Ids, ConstructorEnds(i) PROVE SaidInv(j)'
  BY <1>2 DEF ConstructorEnds
<1>3. CASE EndDestructor
  BY <1>3 DEF EndDestructor
<1>4. CASE UNCHANGED said
  <2> USE <1>4
  <2>1. CASE UNCHANGED loads
    BY <2>1 DEF loads
  <2>2. ASSUME NEW stage \in {"reserved", "queued"}, Reserve(stage),
               UNCHANGED proc
        PROVE  SaidInv(j)'
    BY <2>2, FreshId, StagesAndKinds DEF Reserve, GoTo, JobInv, Unstarted
  <2>3. ASSUME NEW i \in Ids, JobStep(i) PROVE SaidInv(j)'
    <3>1. CASE PassGate(i) \/ ReportPreCancel(i) \/ ForkFails(i)
      BY <3>1 DEF PassGate, ReportPreCancel, ForkFails, GoTo, JobInv
    <3>2. CASE Fork(i) \/ NoteConstructing(i)
      BY <3>2 DEF Fork, NoteConstructing, GoTo, JobInv
    <3>3. CASE ChildReady(i) \/ GiveUp(i) \/ ChildGone(i) \/ CleanupSpawn(i)
      BY <3>3
         DEF ChildReady, GiveUp, ChildGone, CleanupSpawn, GoTo, Reap, Dead,
             JobInv
    <3>4. CASE \/ RecheckOk(i) \/ DropPending(i) \/ Register(i) \/ Untrack(i)
               \/ ReportLoaded(i) \/ CatchFailure(i) \/ ReportFailure(i)
      BY <3>4
         DEF RecheckOk, DropPending, Register, Untrack, ReportLoaded,
             CatchFailure, ReportFailure, GoTo
    <3> QED BY <2>3, <3>1, <3>2, <3>3, <3>4 DEF JobStep, PromptStep
  <2>4. CASE SubmitSpawn \/ AnswerUnknown \/ KillVictim
    BY <2>4 DEF SubmitSpawn, AnswerUnknown, KillVictim, GoTo, ThreadInv, JobInv,
                Unstarted
  <2>5. ASSUME NEW w \in Workers, TakeWork(w) PROVE SaidInv(j)'
    BY <2>5, HeadIsQueued DEF TakeWork, GoTo, JobInv, Unstarted
  <2>6. ASSUME NEW w \in Workers, WorkerExit(w) PROVE SaidInv(j)'
    BY <2>6 DEF WorkerExit
  <2>7. ASSUME NEW i \in Ids,
               ChildDies(i) \/ HandleDeath(i) \/ ReapDoomed(i) \/ SweepChild(i)
        PROVE  SaidInv(j)'
    BY <2>7 DEF ChildDies, HandleDeath, ReapDoomed, SweepChild, Reap, Release,
                JobInv, Owned
  <2>8. CASE UnloadChild \/ SwapChildren
    BY <2>8 DEF UnloadChild, SwapChildren, Reap, Release, JobInv, Owned
  <2> QED
    BY StepCases, <2>1, <2>2, <2>3, <2>4, <2>5, <2>6, <2>7, <2>8
       DEF LoadFrame, OnLoadNode
<1> QED BY SpeechAndEnd, <1>2, <1>3, <1>4

\* Together with what the manager owns and leaves behind it is an invariant.
LEMMA SpawnInvariance == Spec => []SpawnInv
<1>1. Init => \A i \in Ids : SaidInv(i)
  BY DEF Init, SaidInv
<1>2. /\ IInv /\ (\A i \in Ids : SaidInv(i)) /\ [Next]_vars
      => (\A i \in Ids : SaidInv(i))'
  BY SaidStep
<1>3. Spec => [](IInv /\ ExitInv)
  BY ExitInvariance
<1> QED BY <1>1, <1>2, <1>3, PTL DEF Spec, SpawnInv

-----------------------------------------------------------------------------
(* The spawns' contract.                                                   *)

SpawnOutcomes == [i \in Ids |-> SpawnOutcome(i)]
Processes == [i \in Ids |-> ProcessOf(i)]
Constructed == {i \in Ids : said[i] = "OK"}

\* Processes may end in any step that teaches no worker anything.
LEMMA ProcessesEnd ==
  ASSUME UNCHANGED said, Outlives,
         \A i \in Ids : SpawnOutcome(i)' = SpawnOutcome(i),
         \A i \in Ids : \/ ProcessOf(i)' = ProcessOf(i)
                        \/ ProcessOf(i) = "run" /\ ProcessOf(i)' = "ended"
  PROVE  [Spawning!Next]_(Spawning!cvars)
<1> DEFINE gone == {i \in Ids : ProcessOf(i)' # ProcessOf(i)}
<1>1. SpawnOutcomes' = SpawnOutcomes /\ Constructed' = Constructed
  BY DEF SpawnOutcomes, Constructed
<1>2. Processes' = [i \in Ids |-> IF i \in gone THEN "ended" ELSE Processes[i]]
  BY DEF Processes
<1>3. gone \in SUBSET Ids /\ gone \subseteq {i \in Ids : Processes[i] = "run"}
  BY DEF Processes
<1>4. Spawning!End
  BY <1>1, <1>2, <1>3
     DEF Spawning!End, Spawning!Ends, Outlives, SpawnOutcomes, Processes,
         Constructed
<1> QED BY <1>4 DEF Spawning!Next

\* Where a job and what a child said stay as they are, a process may die and a
\* dead one be reaped.
LEMMA DeathsOnly ==
  ASSUME TypeOK, UNCHANGED <<pc, said>>, Outlives,
         \A i \in Ids : \/ proc'[i] = proc[i]
                        \/ proc[i] \in {"run", "zombie"}
                           /\ proc'[i] \in {"zombie", "reaped"}
  PROVE  [Spawning!Next]_(Spawning!cvars)
<1>1. \A i \in Ids : SpawnOutcome(i)' = SpawnOutcome(i)
  BY DEF SpawnOutcome, Untried
<1>2. \A i \in Ids : \/ ProcessOf(i)' = ProcessOf(i)
                     \/ ProcessOf(i) = "run" /\ ProcessOf(i)' = "ended"
  BY DEF ProcessOf, Dead
<1> QED BY <1>1, <1>2, ProcessesEnd

\* A worker that goes on with one spawn learns of it what the contract lets it.
LEMMA OneSpawnMoves ==
  ASSUME mpc # "end", UNCHANGED <<said, mpc>>, NEW i \in Ids,
         \A j \in Ids \ {i} : /\ SpawnOutcome(j)' = SpawnOutcome(j)
                              /\ ProcessOf(j)' = ProcessOf(j),
         \/ /\ SpawnOutcome(i) = "waiting" /\ SpawnOutcome(i)' = "spawning"
            /\ ProcessOf(i)' = "run"
         \/ /\ SpawnOutcome(i) = "waiting" /\ SpawnOutcome(i)' = "failed"
            /\ ProcessOf(i)' = ProcessOf(i)
         \/ /\ SpawnOutcome(i) = "spawning" /\ SpawnOutcome(i)' = "ready"
            /\ said[i] = "OK" /\ ProcessOf(i)' = ProcessOf(i)
         \/ /\ SpawnOutcome(i) = "spawning" /\ SpawnOutcome(i)' = "failed"
            /\ ProcessOf(i)' = "ended"
  PROVE  [Spawning!Next]_(Spawning!cvars)
<1>1. SpawnOutcomes' = [SpawnOutcomes EXCEPT ![i] = SpawnOutcome(i)']
  BY DEF SpawnOutcomes
<1>2. Processes' = [Processes EXCEPT ![i] = ProcessOf(i)']
  BY DEF Processes
<1>3. /\ SpawnOutcomes[i] = SpawnOutcome(i) /\ Processes[i] = ProcessOf(i)
      /\ Processes = [Processes EXCEPT ![i] = ProcessOf(i)]
      /\ Constructed' = Constructed /\ Outlives
  BY DEF SpawnOutcomes, Processes, Constructed, Outlives
<1> USE <1>1, <1>2, <1>3
    DEF Spawning!Knows, SpawnOutcomes, Processes, Constructed, Outlives
<1> HIDE DEF SpawnOutcome, ProcessOf
<1>4. CASE /\ SpawnOutcome(i) = "waiting" /\ SpawnOutcome(i)' = "spawning"
           /\ ProcessOf(i)' = "run"
  <2>1. Spawning!Fork(i)
    BY <1>4 DEF Spawning!Fork
  <2> QED BY <2>1 DEF Spawning!Next
<1>5. CASE /\ SpawnOutcome(i) = "waiting" /\ SpawnOutcome(i)' = "failed"
           /\ ProcessOf(i)' = ProcessOf(i)
  <2>1. Spawning!NoFork(i)
    BY <1>5 DEF Spawning!NoFork
  <2> QED BY <2>1 DEF Spawning!Next
<1>6. CASE /\ SpawnOutcome(i) = "spawning" /\ SpawnOutcome(i)' = "ready"
           /\ said[i] = "OK" /\ ProcessOf(i)' = ProcessOf(i)
  <2>1. Spawning!Succeed(i)
    BY <1>6 DEF Spawning!Succeed
  <2> QED BY <2>1 DEF Spawning!Next
<1>7. CASE /\ SpawnOutcome(i) = "spawning" /\ SpawnOutcome(i)' = "failed"
           /\ ProcessOf(i)' = "ended"
  <2>1. Spawning!Fail(i)
    BY <1>7 DEF Spawning!Fail
  <2> QED BY <2>1 DEF Spawning!Next
<1> QED BY <1>4, <1>5, <1>6, <1>7

\* No load is given out and no child forked yet: every spawn waits.
LEMMA SpawnsInit == Init => Spawning!Init
BY DEF Init, Spawning!Init, SpawnOutcome, ProcessOf, Untried, Unstarted, Dead

\* Every step of a job is a step of its spawn, or none.  It is a worker's, so
\* the container still lives.
LEMMA JobSpawns ==
  ASSUME SpawnInv, NEW i \in Ids, JobStep(i), UNCHANGED said, Outlives
  PROVE  [Spawning!Next]_(Spawning!cvars)
<1> USE DEF tables, owned, flags, jobs, reader, main, monitor, procs, sent,
            offJob
<1>1. /\ pc \in [Ids -> Stages] /\ said \in [Ids -> {"nothing", "OK", "ERR"}]
      /\ proc \in [Ids -> {"none", "run", "zombie", "reaped"}]
      /\ JobInv(i) /\ SaidInv(i) /\ WorkerInv(i) /\ LeavingInv
  BY DEF SpawnInv, ExitInv, IInv, TypeOK
<1>2. UNCHANGED mpc
  BY DEF JobStep, PromptStep, PassGate, ReportPreCancel, Fork, ForkFails,
         NoteConstructing, ChildReady, GiveUp, ChildGone, RecheckOk,
         CleanupSpawn, DropPending, Register, Untrack, ReportLoaded,
         CatchFailure, ReportFailure
<1>3. mpc # "end"
  <2>1. pc[i] \in Running
    BY DEF JobStep, PromptStep, PassGate, ReportPreCancel, Fork, ForkFails,
           NoteConstructing, ChildReady, GiveUp, ChildGone, RecheckOk,
           CleanupSpawn, DropPending, Register, Untrack, ReportLoaded,
           CatchFailure, ReportFailure, Running
  <2> QED BY <1>1, <2>1 DEF WorkerInv, LeavingInv
<1>4. \A j \in Ids \ {i} : pc'[j] = pc[j] /\ proc'[j] = proc[j]
  BY <1>1
     DEF JobStep, PromptStep, PassGate, ReportPreCancel, Fork, ForkFails,
         NoteConstructing, ChildReady, GiveUp, ChildGone, RecheckOk,
         CleanupSpawn, DropPending, Register, Untrack, ReportLoaded,
         CatchFailure, ReportFailure, GoTo, Reap
<1>5. \A j \in Ids \ {i} : /\ SpawnOutcome(j)' = SpawnOutcome(j)
                           /\ ProcessOf(j)' = ProcessOf(j)
  BY <1>4 DEF SpawnOutcome, Untried, ProcessOf, Dead
<1>6. ASSUME SpawnOutcome(i)' = SpawnOutcome(i),
             \/ ProcessOf(i)' = ProcessOf(i)
             \/ ProcessOf(i) = "run" /\ ProcessOf(i)' = "ended"
      PROVE  [Spawning!Next]_(Spawning!cvars)
  BY <1>5, <1>6, ProcessesEnd
<1> USE DEF SpawnOutcome, Untried, ProcessOf, Dead, Unstarted, GoTo
<1>7. CASE \/ PassGate(i) \/ NoteConstructing(i) \/ RecheckOk(i)
           \/ CleanupSpawn(i) \/ Register(i) \/ Untrack(i) \/ ReportLoaded(i)
           \/ CatchFailure(i) \/ ReportFailure(i)
  <2>1. /\ SpawnOutcome(i)' = SpawnOutcome(i)
        /\ \/ ProcessOf(i)' = ProcessOf(i)
           \/ ProcessOf(i) = "run" /\ ProcessOf(i)' = "ended"
    BY <1>1, <1>7
       DEF PassGate, NoteConstructing, RecheckOk, CleanupSpawn, Register,
           Untrack, ReportLoaded, CatchFailure, ReportFailure, Reap, JobInv
  <2> QED BY <1>6, <2>1
<1>8. CASE Fork(i)
  <2>1. /\ SpawnOutcome(i) = "waiting" /\ SpawnOutcome(i)' = "spawning"
        /\ ProcessOf(i)' = "run"
    BY <1>1, <1>8 DEF Fork
  <2> QED BY <1>2, <1>3, <1>5, <2>1, OneSpawnMoves
<1>9. CASE ReportPreCancel(i) \/ ForkFails(i)
  <2>1. /\ SpawnOutcome(i) = "waiting" /\ SpawnOutcome(i)' = "failed"
        /\ ProcessOf(i)' = ProcessOf(i)
    BY <1>1, <1>9 DEF ReportPreCancel, ForkFails, JobInv, SaidInv
  <2> QED BY <1>2, <1>3, <1>5, <2>1, OneSpawnMoves
<1>10. CASE DropPending(i)
  <2>1. CASE proc[i] = "none"
    <3>1. /\ SpawnOutcome(i) = "waiting" /\ SpawnOutcome(i)' = "failed"
          /\ ProcessOf(i)' = ProcessOf(i)
      BY <1>1, <1>10, <2>1 DEF DropPending, SaidInv
    <3> QED BY <1>2, <1>3, <1>5, <3>1, OneSpawnMoves
  <2>2. CASE proc[i] # "none"
    <3>1. /\ SpawnOutcome(i)' = SpawnOutcome(i)
          /\ ProcessOf(i)' = ProcessOf(i)
      BY <1>1, <1>10, <2>2 DEF DropPending
    <3> QED BY <1>6, <3>1
  <2> QED BY <2>1, <2>2
<1>11. CASE ChildReady(i)
  <2>1. /\ SpawnOutcome(i) = "spawning" /\ SpawnOutcome(i)' = "ready"
        /\ said[i] = "OK" /\ ProcessOf(i)' = ProcessOf(i)
    BY <1>1, <1>11 DEF ChildReady
  <2> QED BY <1>2, <1>3, <1>5, <2>1, OneSpawnMoves
<1>12. CASE GiveUp(i) \/ ChildGone(i)
  <2>1. /\ SpawnOutcome(i) = "spawning" /\ SpawnOutcome(i)' = "failed"
        /\ ProcessOf(i)' = "ended"
    BY <1>1, <1>12 DEF GiveUp, ChildGone, Reap
  <2> QED BY <1>2, <1>3, <1>5, <2>1, OneSpawnMoves
<1> QED BY <1>7, <1>8, <1>9, <1>10, <1>11, <1>12 DEF JobStep, PromptStep

\* A child whose constructor returned is constructed: the container lives, for
\* nothing runs once it has ended, and the worker still waits for the line.
LEMMA SpeechSpawns ==
  ASSUME SpawnInv, NEW i \in Ids, ConstructorEnds(i)
  PROVE  [Spawning!Next]_(Spawning!cvars)
<1>1. /\ said \in [Ids -> {"nothing", "OK", "ERR"}] /\ SaidInv(i)
      /\ proc[i] = "run" /\ said[i] = "nothing" /\ UNCHANGED <<pc, proc, mpc>>
  BY DEF SpawnInv, IInv, TypeOK, ConstructorEnds, offSystem, jobs, main
<1>2. mpc # "end"
  BY <1>1, ExitCleans DEF SpawnInv, CleanExit
<1>3. pc[i] \in {"note", "wait"}
  BY <1>1 DEF SaidInv
<1>4. PICK line \in {"OK", "ERR"} : said' = [said EXCEPT ![i] = line]
  BY DEF ConstructorEnds
<1>5. /\ SpawnOutcomes' = SpawnOutcomes /\ Processes' = Processes
      /\ Processes[i] = "run"
  BY <1>1, <1>3, <1>4
     DEF SpawnOutcomes, SpawnOutcome, Untried, Unstarted, Processes, ProcessOf,
         Dead
<1> USE <1>1, <1>2, <1>5 DEF SpawnOutcomes, Processes
<1> HIDE DEF SpawnOutcome, ProcessOf
<1>6. CASE line = "OK"
  <2>1. Constructed' = Constructed \cup {i}
    BY <1>4, <1>6 DEF Constructed
  <2>2. Spawning!Construct(i)
    BY <2>1 DEF Spawning!Construct, Constructed
  <2> QED BY <2>2 DEF Spawning!Next
<1>7. CASE line = "ERR"
  <2>1. Constructed' = Constructed
    BY <1>4, <1>7 DEF Constructed
  <2> QED BY <2>1 DEF Spawning!cvars, Constructed
<1> QED BY <1>6, <1>7

\* The container ends with no component left to take with it.
LEMMA EndSpawns ==
  ASSUME IInv', ExitInv', EndDestructor
  PROVE  Spawning!Perish
<1>1. /\ mpc = "sweep" /\ mpc' = "end" /\ UNCHANGED <<pc, proc, said>>
  BY DEF EndDestructor, offMain, jobs, procs
<1>2. \A i \in Ids : proc[i] # "run"
  <2>1. CleanExit'
    BY ExitCleans, PTL
  <2> QED BY <1>1, <2>1 DEF CleanExit
<1>3. \A i \in Ids : ProcessOf(i) # "run"
  BY <1>2 DEF ProcessOf, Dead
<1>4. /\ SpawnOutcomes' = SpawnOutcomes /\ Processes' = Processes
      /\ Constructed' = Constructed
      /\ Processes = [i \in Ids |-> IF i \in {} THEN "ended" ELSE Processes[i]]
  BY <1>1
     DEF SpawnOutcomes, SpawnOutcome, Untried, Processes, ProcessOf, Dead,
         Constructed
<1> HIDE DEF SpawnOutcome, ProcessOf
<1>5. {} \in SUBSET Ids /\ \A i \in Ids : Processes[i] # "run"
  BY <1>3 DEF Processes
<1> QED BY <1>1, <1>4, <1>5
        DEF Spawning!Perish, Spawning!Ends, SpawnOutcomes, Processes,
            Constructed

\* Every step of the manager is a step of its spawns' contract, or none.
LEMMA SpawnsStep ==
  SpawnInv /\ SpawnInv' /\ [Next]_vars => [Spawning!Next]_(Spawning!cvars)
<1> SUFFICES ASSUME SpawnInv, SpawnInv', [Next]_vars
             PROVE  [Spawning!Next]_(Spawning!cvars)
  OBVIOUS
<1> USE DEF tables, owned, flags, jobs, reader, main, monitor, procs, sent,
            offJob, offReader, offMain, offSystem
<1>1. /\ TypeOK /\ IInv /\ \A i \in Ids : JobInv(i)
      /\ pc \in [Ids -> Stages]
      /\ proc \in [Ids -> {"none", "run", "zombie", "reaped"}]
  BY DEF SpawnInv, IInv, TypeOK
<1>2. ASSUME NEW i \in Ids, ConstructorEnds(i)
      PROVE  [Spawning!Next]_(Spawning!cvars)
  BY <1>2, SpeechSpawns
<1>3. CASE EndDestructor
  BY <1>3, EndSpawns DEF SpawnInv, Spawning!Next
<1>4. CASE UNCHANGED said /\ Outlives
  <2> USE <1>4
  <2>1. CASE UNCHANGED loads
    <3>1. UNCHANGED <<pc, proc>>
      BY <2>1 DEF loads
    <3> QED BY <1>1, <3>1, DeathsOnly
  <2>2. ASSUME NEW stage \in {"reserved", "queued"}, Reserve(stage),
               UNCHANGED proc
        PROVE  [Spawning!Next]_(Spawning!cvars)
    <3>1. uniqueId \in Ids /\ pc[uniqueId] = "none"
      BY <1>1, <2>2, FreshId, StagesAndKinds
    <3>2. \A i \in Ids : /\ SpawnOutcome(i)' = SpawnOutcome(i)
                         /\ ProcessOf(i)' = ProcessOf(i)
      BY <1>1, <2>2, <3>1
         DEF Reserve, GoTo, SpawnOutcome, Untried, Unstarted, ProcessOf, Dead
    <3> QED BY <3>2, ProcessesEnd
  <2>3. ASSUME NEW i \in Ids, JobStep(i)
        PROVE  [Spawning!Next]_(Spawning!cvars)
    BY <2>3, JobSpawns
  <2>4. CASE SubmitSpawn
    <3>1. rid \in Ids /\ pc[rid] = "reserved"
      BY <1>1, <2>4 DEF SubmitSpawn, IInv, TypeOK, ThreadInv
    <3>2. \A i \in Ids : /\ SpawnOutcome(i)' = SpawnOutcome(i)
                         /\ ProcessOf(i)' = ProcessOf(i)
      BY <1>1, <2>4, <3>1
         DEF SubmitSpawn, GoTo, SpawnOutcome, Untried, Unstarted, ProcessOf,
             Dead
    <3> QED BY <3>2, ProcessesEnd
  <2>5. ASSUME NEW w \in Workers, TakeWork(w)
        PROVE  [Spawning!Next]_(Spawning!cvars)
    <3>1. PICK i \in Ids : i = Head(queue) /\ pc[i] = "queued"
      BY <1>1, <2>5, HeadIsQueued DEF TakeWork
    <3>2. proc[i] = "none" /\ UNCHANGED proc
      BY <1>1, <2>5, <3>1 DEF TakeWork, JobInv, Unstarted
    <3>3. \E stage \in {"gate", "drop"} : pc' = [pc EXCEPT ![i] = stage]
      BY <2>5, <3>1 DEF TakeWork, GoTo
    <3>4. \A j \in Ids : /\ SpawnOutcome(j)' = SpawnOutcome(j)
                         /\ ProcessOf(j)' = ProcessOf(j)
      BY <1>1, <3>1, <3>2, <3>3
         DEF SpawnOutcome, Untried, Unstarted, ProcessOf, Dead
    <3> QED BY <3>4, ProcessesEnd
  <2>6. CASE \/ AnswerUnknown \/ KillVictim \/ UnloadChild \/ SwapChildren
             \/ \E w \in Workers : WorkerExit(w)
             \/ \E i \in Ids : \/ ChildDies(i) \/ HandleDeath(i)
                               \/ ReapDoomed(i) \/ SweepChild(i)
    <3>1. UNCHANGED pc
      BY <2>6
         DEF AnswerUnknown, KillVictim, UnloadChild, SwapChildren, WorkerExit,
             ChildDies, HandleDeath, ReapDoomed, SweepChild
    <3>2. \A j \in Ids : \/ proc'[j] = proc[j]
                         \/ proc[j] \in {"run", "zombie"}
                            /\ proc'[j] \in {"zombie", "reaped"}
      BY <1>1, <2>6
         DEF AnswerUnknown, KillVictim, UnloadChild, SwapChildren, WorkerExit,
             ChildDies, HandleDeath, ReapDoomed, SweepChild, Reap, Release,
             JobInv, Owned
    <3> QED BY <1>1, <3>1, <3>2, DeathsOnly
  <2> QED
    BY StepCases, <2>1, <2>2, <2>3, <2>4, <2>5, <2>6 DEF LoadFrame, OnLoadNode
<1> QED BY SpeechAndEnd, <1>2, <1>3, <1>4

-----------------------------------------------------------------------------
\* The manager, for any number of loads and workers, keeps both contracts.  A
\* load is accepted once, runs at most once, never comes back once over, and
\* may be resent only then.  A job registers only a child whose component was
\* constructed, fails only with its process gone, and the container ends with
\* every component it constructed.
THEOREM KeepsContract == Spec => ImplementsContract
<1>1. Spec => []SpawnInv
  BY SpawnInvariance
<1>2. Spec => Init /\ [][Next]_vars
  BY DEF Spec
<1>3. SpawnInv => IInv
  BY DEF SpawnInv
<1>4. Spec => Contract!Spec
  BY <1>1, <1>2, <1>3, RefinesInit, RefinesStep, PTL DEF Contract!Spec
<1>5. Spec => Spawning!Spec
  BY <1>1, <1>2, SpawnsInit, SpawnsStep, PTL DEF Spawning!Spec
<1> QED BY <1>4, <1>5 DEF ImplementsContract
=============================================================================
