----------------------- MODULE IsolatedManagerOutcomes -----------------------
(***************************************************************************)
(* What comes of a load in IsolatedManager, for any number of loads and    *)
(* workers.                                                                *)
(*                                                                         *)
(* First what is left behind: a parameter file or a pidfd always has an    *)
(* owner that will give it back, and nothing is left, no process either,   *)
(* when the destructor is through (NoLeak, CleanExit).                     *)
(*                                                                         *)
(* Then what the supervisor is told: one consistent story on the channel,  *)
(* and the same one on the ComponentEvent topic (OneStory).  Four threads  *)
(* tell it: the reader accepts, a worker reports the outcome, the monitor  *)
(* a crash and main an unload.  What keeps them from telling two stories   *)
(* is who owns the load at the time: a load is registered only by the      *)
(* worker that will report it loaded, and whoever reports its end has      *)
(* taken it out of the map.                                                *)
(***************************************************************************)
EXTENDS IsolatedManagerProofs, FiniteSetTheorems

\* Where a worker holds the parameter file of the child it forked, and where it
\* holds the child's pidfd as well.
HasParams == {"note", "wait", "ready", "register", "cleanup"}
HasPidfd == {"ready", "register", "cleanup"}

\* What a load has, some map's child or its worker will release.
OwnerInv(i) == /\ i \in params => Owned(i) \/ pc[i] \in HasParams
               /\ i \in pidfds => Owned(i) \/ pc[i] \in HasPidfd

\* A job that has begun is in the hands of a worker that will not exit before
\* it is done, whichever order the destructor stops the threads in.
WorkerInv(i) == pc[i] \in Running => runner[i] \in Workers \ exited

\* How far the destructor has come, and what it has established.
LeavingInv == /\ mpc \in {"sweep", "end"} => exited = Workers
              /\ mpc = "end" => children = {}

ExitInv == LeavingInv /\ \A i \in Ids : OwnerInv(i) /\ WorkerInv(i)

-----------------------------------------------------------------------------
(* Each part is preserved.                                                 *)

\* Whoever takes a child's file and pidfd over has them before its last owner
\* lets go.
LEMMA OwnersStep ==
  ASSUME IInv, ExitInv, [Next]_vars, NEW j \in Ids
  PROVE  OwnerInv(j)'
<1>1. /\ TypeOK /\ QueueInv /\ ThreadInv /\ JobInv(j) /\ OwnerInv(j)
      /\ pc \in [Ids -> Stages]
  BY DEF IInv, ExitInv, TypeOK
<1> USE <1>1
    DEF OwnerInv, Owned, HasParams, HasPidfd, tables, owned, flags, jobs,
        reader, main, monitor, procs, sent, offJob, offReader, offMain,
        offSystem
<1>2. CASE UNCHANGED loads
  BY <1>2 DEF loads
\* A load that is given out or queued has neither.
<1>3. ASSUME NEW i \in Ids, pc[i] \in Unstarted, NEW stage \in Unstarted \cup Running,
             pc' = [pc EXCEPT ![i] = stage], UNCHANGED owned
      PROVE  OwnerInv(j)'
  BY <1>3 DEF Unstarted, JobInv
<1>4. ASSUME NEW s \in Seqs, LoadFrame(s) PROVE OwnerInv(j)'
  <2>1. uniqueId \in Ids /\ pc[uniqueId] = "none"
    BY <1>4, FreshId, StagesAndKinds DEF LoadFrame
  <2> QED BY <1>3, <1>4, <2>1 DEF LoadFrame, Reserve, GoTo, Unstarted
<1>5. CASE OnLoadNode
  <2>1. uniqueId \in Ids /\ pc[uniqueId] = "none"
    BY <1>5, FreshId DEF OnLoadNode, Stages, Unstarted
  <2> QED BY <1>3, <1>5, <2>1 DEF OnLoadNode, Reserve, GoTo, Unstarted
<1>6. CASE SubmitSpawn
  <2>1. rid \in Ids /\ pc[rid] = "reserved"
    BY <1>6 DEF SubmitSpawn, ThreadInv, TypeOK
  <2> QED BY <1>3, <1>6, <2>1 DEF SubmitSpawn, GoTo, Unstarted
<1>7. ASSUME NEW w \in Workers, TakeWork(w) PROVE OwnerInv(j)'
  <2>1. Head(queue) \in Ids /\ pc[Head(queue)] = "queued"
    BY <1>7, HeadIsQueued DEF TakeWork
  <2> QED BY <1>3, <1>7, <2>1 DEF TakeWork, GoTo, Unstarted, Running
<1>8. ASSUME NEW i \in Ids, JobStep(i) PROVE OwnerInv(j)'
  <2>1. CASE PassGate(i) \/ ReportPreCancel(i) \/ ForkFails(i)
             \/ DropPending(i) \/ Untrack(i) \/ ReportLoaded(i)
             \/ CatchFailure(i) \/ ReportFailure(i)
    <3>1. /\ pc[i] \notin HasParams /\ \A k \in Ids \ {i} : pc'[k] = pc[k]
          /\ UNCHANGED owned
      BY <2>1
         DEF PassGate, ReportPreCancel, ForkFails, DropPending, Untrack,
             ReportLoaded, CatchFailure, ReportFailure, GoTo
    <3> QED BY <3>1
  <2>2. CASE Fork(i) \/ NoteConstructing(i)
    BY <2>2 DEF Fork, NoteConstructing, GoTo
  <2>3. CASE ChildReady(i) \/ RecheckOk(i) \/ Register(i)
    BY <2>3 DEF ChildReady, RecheckOk, Register, GoTo
  <2>4. CASE GiveUp(i) \/ ChildGone(i)
    BY <2>4 DEF GiveUp, ChildGone, GoTo
  <2>5. CASE CleanupSpawn(i)
    BY <2>5 DEF CleanupSpawn, Release, GoTo
  <2> QED BY <1>8, <2>1, <2>2, <2>3, <2>4, <2>5 DEF JobStep, PromptStep
<1>9. ASSUME NEW i \in Ids, HandleDeath(i) PROVE OwnerInv(j)'
  BY <1>9 DEF HandleDeath, Release
<1>10. CASE UnloadChild
  BY <1>10 DEF UnloadChild, Release
<1>11. CASE SwapChildren
  BY <1>11 DEF SwapChildren, ThreadInv
<1>12. ASSUME NEW i \in Ids, ReapDoomed(i) \/ SweepChild(i) PROVE OwnerInv(j)'
  BY <1>12 DEF ReapDoomed, SweepChild, Release
<1>13. CASE \/ AnswerUnknown \/ KillVictim
            \/ \E i \in Ids : ChildDies(i)
            \/ \E w \in Workers : WorkerExit(w)
  BY <1>13 DEF AnswerUnknown, KillVictim, ChildDies, WorkerExit
<1> QED
  BY StepCases, <1>2, <1>4, <1>5, <1>6, <1>7, <1>8, <1>9, <1>10, <1>11, <1>12,
     <1>13

\* A worker takes a job before it exits, and does not exit before it is done.
LEMMA WorkersStep ==
  ASSUME IInv, ExitInv, [Next]_vars, NEW j \in Ids
  PROVE  WorkerInv(j)'
<1>1. /\ TypeOK /\ QueueInv /\ ThreadInv /\ WorkerInv(j)
      /\ pc \in [Ids -> Stages] /\ runner \in [Ids -> Workers \cup {NoWorker}]
  BY DEF IInv, ExitInv, TypeOK
<1> USE <1>1
    DEF WorkerInv, tables, owned, flags, jobs, reader, main, monitor, procs,
        sent, offJob, offReader, offMain, offSystem
<1>2. CASE UNCHANGED loads
  BY <1>2 DEF loads
<1>3. ASSUME NEW i \in Ids, NEW stage \in Unstarted,
             pc' = [pc EXCEPT ![i] = stage], UNCHANGED <<runner, exited>>
      PROVE  WorkerInv(j)'
  BY <1>3 DEF Unstarted, Running
<1>4. ASSUME NEW s \in Seqs, LoadFrame(s) PROVE WorkerInv(j)'
  <2>1. uniqueId \in Ids
    BY <1>4, ReserveTyped, StagesAndKinds DEF LoadFrame
  <2> QED BY <1>3, <1>4, <2>1 DEF LoadFrame, Reserve, GoTo, Unstarted
<1>5. CASE OnLoadNode
  <2>1. uniqueId \in Ids
    BY <1>5, ReserveTyped, StagesAndKinds DEF OnLoadNode
  <2> QED BY <1>3, <1>5, <2>1 DEF OnLoadNode, Reserve, GoTo, Unstarted
<1>6. CASE SubmitSpawn
  <2>1. rid \in Ids
    BY <1>6 DEF SubmitSpawn, TypeOK
  <2> QED BY <1>3, <1>6, <2>1 DEF SubmitSpawn, GoTo, Unstarted
<1>7. ASSUME NEW w \in Workers, TakeWork(w) PROVE WorkerInv(j)'
  <2>1. Head(queue) \in Ids
    BY <1>7 DEF TakeWork, TypeOK
  <2> QED BY <1>7, <2>1 DEF TakeWork, GoTo
<1>8. ASSUME NEW w \in Workers, WorkerExit(w) PROVE WorkerInv(j)'
  BY <1>8 DEF WorkerExit, Busy
<1>9. ASSUME NEW i \in Ids, JobStep(i) PROVE WorkerInv(j)'
  <2>1. /\ pc[i] \in Running /\ \A k \in Ids \ {i} : pc'[k] = pc[k]
        /\ UNCHANGED <<runner, exited>>
    BY <1>9
       DEF JobStep, PromptStep, PassGate, ReportPreCancel, Fork, ForkFails,
           NoteConstructing, ChildReady, GiveUp, ChildGone, RecheckOk,
           CleanupSpawn, DropPending, Register, Untrack, ReportLoaded,
           CatchFailure, ReportFailure, GoTo, Running
  <2> QED BY <2>1
<1>10. CASE \/ AnswerUnknown \/ KillVictim \/ UnloadChild \/ SwapChildren
            \/ \E i \in Ids : ChildDies(i) \/ HandleDeath(i) \/ ReapDoomed(i)
                              \/ SweepChild(i)
  BY <1>10
     DEF AnswerUnknown, KillVictim, UnloadChild, SwapChildren, ChildDies,
         HandleDeath, ReapDoomed, SweepChild
<1> QED
  BY StepCases, <1>2, <1>4, <1>5, <1>6, <1>7, <1>8, <1>9, <1>10

\* The destructor sweeps when all workers have exited, and then nobody is left
\* to register another child.
LEMMA LeavingStep ==
  ASSUME IInv, ExitInv, [Next]_vars
  PROVE  LeavingInv'
<1> USE DEF LeavingInv, tables, owned, flags, jobs, reader, main, monitor,
            procs, sent, offJob, offReader, offMain, offSystem
<1>1. LeavingInv /\ exited \subseteq Workers /\ \A i \in Ids : WorkerInv(i)
  BY DEF ExitInv, IInv, TypeOK
<1>2. exited \subseteq exited' /\ exited' \subseteq Workers
  <2>1. ASSUME NEW w \in Workers, WorkerExit(w) PROVE exited \subseteq exited'
    BY <2>1 DEF WorkerExit
  <2>2. (\E w \in Workers : WorkerExit(w)) \/ UNCHANGED exited
    BY StepCases
       DEF loads, LoadFrame, OnLoadNode, SubmitSpawn, AnswerUnknown, KillVictim,
           JobStep, PromptStep, PassGate, ReportPreCancel, Fork, ForkFails,
           NoteConstructing, ChildReady, GiveUp, ChildGone, RecheckOk,
           CleanupSpawn, DropPending, Register, Untrack, ReportLoaded,
           CatchFailure, ReportFailure, ChildDies, HandleDeath, TakeWork,
           UnloadChild, SwapChildren, ReapDoomed, SweepChild
  <2>3. TypeOK'
    BY TypeStep DEF IInv
  <2> QED BY <2>1, <2>2, <2>3 DEF TypeOK
\* The three steps that let main go on ...
<1>3. CASE JoinWorkers
  BY <1>1, <1>2, <1>3 DEF JoinWorkers
<1>4. CASE EndDestructor
  BY <1>1, <1>4 DEF EndDestructor
\* ... the one that would add a child ...
<1>5. ASSUME NEW i \in Ids, Register(i) PROVE LeavingInv'
  <2>1. runner[i] \in Workers \ exited
    BY <1>1, <1>5 DEF Register, WorkerInv, Running
  <2> QED BY <1>1, <1>2, <1>5, <2>1 DEF Register
\* ... and all the others.
<1>6. ASSUME mpc' \notin {"sweep", "end"} PROVE LeavingInv'
  BY <1>6
<1>7. ASSUME mpc' = mpc, children' \subseteq children PROVE LeavingInv'
  BY <1>1, <1>2, <1>7
<1>8. \/ JoinWorkers \/ EndDestructor \/ \E i \in Ids : Register(i)
      \/ mpc' \notin {"sweep", "end"}
      \/ mpc' = mpc /\ children' \subseteq children
  <2>1. CASE UNCHANGED vars
    BY <2>1 DEF vars
  <2>2. CASE (\E s \in Seqs : LoadFrame(s)) \/ OnLoadNode \/ ReaderExit
             \/ (\E i \in Ids : QueryFrame(i) \/ CancelFrame(i)) \/ ReaderStep
    BY <2>2
       DEF LoadFrame, OnLoadNode, ReaderExit, QueryFrame, CancelFrame,
           ReaderStep, SendAccepted, SubmitSpawn, QueryChildren, AnswerUnknown,
           KillVictim, ConfirmCancel
  <2>3. ASSUME NEW i \in Ids, JobStep(i)
        PROVE  Register(i) \/ UNCHANGED <<mpc, children>>
    BY <2>3
       DEF JobStep, PromptStep, PassGate, ReportPreCancel, Fork, ForkFails,
           NoteConstructing, ChildReady, GiveUp, ChildGone, RecheckOk,
           CleanupSpawn, DropPending, Untrack, ReportLoaded, CatchFailure,
           ReportFailure
  <2>4. CASE \E w \in Workers : TakeWork(w) \/ WorkerExit(w)
    BY <2>4 DEF TakeWork, WorkerExit
  <2>5. CASE \/ MonitorWakes \/ MonitorExit \/ Sigterm
             \/ \E i \in Ids : ConstructorEnds(i) \/ ChildDies(i)
    BY <2>5 DEF MonitorWakes, MonitorExit, Sigterm, ConstructorEnds, ChildDies
  <2>6. CASE \E i \in Ids : HandleDeath(i) \/ ReapDoomed(i) \/ SweepChild(i)
                            \/ SignalTarget(i)
    BY <2>6 DEF HandleDeath, ReapDoomed, SweepChild, SignalTarget
  <2>7. CASE UnloadChild \/ ReportUnloaded \/ \E i \in Ids : UnloadRequest(i)
    BY <2>7 DEF UnloadChild, ReportUnloaded, UnloadRequest
  <2>8. CASE \/ StopControl \/ StopMonitor \/ JoinMonitor \/ SwapChildren
             \/ CollectTargets \/ AllSignalled \/ StopWorkers
    BY <2>8 DEF StopControl, StopMonitor, JoinMonitor, SwapChildren,
                CollectTargets, AllSignalled, StopWorkers
  <2> QED
    BY <2>1, <2>2, <2>3, <2>4, <2>5, <2>6, <2>7, <2>8
       DEF Next, DestructorStep, Terminated
<1> QED BY <1>3, <1>4, <1>5, <1>6, <1>7, <1>8

-----------------------------------------------------------------------------
(* The theorems.                                                           *)

\* Every reachable state has its owners, its workers and its destructor in
\* order.
LEMMA ExitInvariance == Spec => [](IInv /\ ExitInv)
<1>1. Init => ExitInv
  BY DEF Init, ExitInv, OwnerInv, WorkerInv, LeavingInv, Running
<1>2. IInv /\ ExitInv /\ [Next]_vars => ExitInv'
  <2> SUFFICES ASSUME IInv, ExitInv, [Next]_vars PROVE ExitInv'
    OBVIOUS
  <2> QED BY OwnersStep, WorkersStep, LeavingStep DEF ExitInv, Ids
<1> QED BY <1>1, <1>2, InitInv, StepInv, PTL DEF Spec

\* However loads, deaths, unloads and shutdown interleave, a parameter file or a
\* pidfd belongs to a registered child or to the worker that is spawning one.
THEOREM NothingLeaks == Spec => []NoLeak
<1>1. IInv /\ ExitInv => NoLeak
  <2> SUFFICES ASSUME IInv, ExitInv, NEW i \in params \cup pidfds
               PROVE  \/ i \in children \cup doomed
                      \/ pc[i] \in {"note", "wait", "ready", "register",
                                    "cleanup"}
    BY DEF NoLeak
  <2>1. i \in Ids
    BY DEF IInv, TypeOK
  <2> QED BY <2>1 DEF ExitInv, OwnerInv, Owned, HasParams, HasPidfd
<1> QED BY <1>1, ExitInvariance, PTL

\* A container that has ended, with its owners, workers and destructor in order,
\* has left nothing behind.
LEMMA ExitCleans == IInv /\ ExitInv => CleanExit
<1> SUFFICES ASSUME IInv, ExitInv, mpc = "end"
             PROVE  /\ \A i \in Ids : proc[i] # "run"
                    /\ children = {} /\ doomed = {}
                    /\ params = {} /\ pidfds = {}
  BY DEF CleanExit
<1>1. children = {} /\ exited = Workers
  BY DEF ExitInv, LeavingInv
<1>2. doomed = {}
  BY DEF IInv, ThreadInv
<1>3. ASSUME NEW i \in Ids PROVE pc[i] \in Unstarted \cup {"done"}
  BY <1>1 DEF ExitInv, WorkerInv, IInv, TypeOK, Stages
<1>4. ASSUME NEW i \in Ids PROVE proc[i] # "run"
  BY <1>1, <1>2, <1>3 DEF IInv, JobInv, Owned, Unstarted
<1>5. params \cup pidfds = {}
  BY <1>1, <1>2, <1>3
     DEF ExitInv, OwnerInv, Owned, HasParams, HasPidfd, IInv, TypeOK, Unstarted
<1> QED BY <1>1, <1>2, <1>4, <1>5

\* When ~CloneIsolatedComponentManager returns there is no component process, no
\* child in a map, no parameter file and no pidfd: also for a child that was
\* registered behind terminate_children's back.
THEOREM ExitIsClean == Spec => []CleanExit
BY ExitCleans, ExitInvariance, PTL

-----------------------------------------------------------------------------
(* What the supervisor is told.                                            *)

Failures == {"failed", "cancelled"}
Outcomes == {"loaded"} \cup Failures
Endings == {"crashed", "unloaded"}

\* The stages from registration on.
Registered == {"untrack", "notify", "done"}

\* One of these kinds was sent, and sent once.
Told(i, kinds) == \E k \in DOMAIN reports[i] : reports[i][k] \in kinds
Once(i, kinds) ==
  \A k, l \in DOMAIN reports[i] :
    reports[i][k] \in kinds /\ reports[i][l] \in kinds => k = l

\* A failure and an ending were told, be it on the channel or on the topic.
FailureTold(i) == Told(i, Failures) \/ "LOAD_FAILED" \in events[i]
EndingTold(i) == Told(i, Endings) \/ events[i] \cap {"CRASHED", "UNLOADED"} # {}

\* main has unloaded i and is about to say so.
Unloading(i) == mpc = "unloaded" /\ mid = i

\* What each message was sent for, and who may still send another.
StoryInv(i) ==
  /\ \A k \in DOMAIN reports[i] : reports[i][k] = "accepted" => k = 1
  /\ pc[i] = "none" \/ (rpc = "accept" /\ rid = i) => reports[i] = <<>>
  /\ Once(i, Outcomes) /\ Once(i, Endings)
  /\ Told(i, Outcomes) \/ "LOADED" \in events[i] \/ FailureTold(i) =>
       pc[i] = "done"
  /\ EndingTold(i) \/ Unloading(i) => pc[i] \in Registered /\ ~Owned(i)
  /\ FailureTold(i) => ~(Owned(i) \/ Unloading(i) \/ EndingTold(i))
  /\ Owned(i) \/ Unloading(i) => ~EndingTold(i)
  /\ ~({"CRASHED", "UNLOADED"} \subseteq events[i])
  /\ "LOAD_FAILED" \in events[i] => events[i] = {"LOAD_FAILED"}

-----------------------------------------------------------------------------
(* What one message changes.                                               *)

\* Nothing is told of a load of which nothing is sent or published.
LEMMA SilenceTellsNothing ==
  ASSUME NEW i \in Ids, reports'[i] = reports[i], events'[i] = events[i]
  PROVE  /\ \A kinds : /\ Told(i, kinds)' <=> Told(i, kinds)
                       /\ Once(i, kinds)' <=> Once(i, kinds)
         /\ FailureTold(i)' <=> FailureTold(i)
         /\ EndingTold(i)' <=> EndingTold(i)
BY DEF Told, Once, FailureTold, EndingTold

\* A message adds its own kind and no other, to one load's reports.
LEMMA SendTells ==
  ASSUME TypeOK, NEW i \in Ids, NEW what, Send(i, what)
  PROVE  /\ \A j \in Ids \ {i} : reports'[j] = reports[j]
         /\ \A kinds : Told(i, kinds)' => Told(i, kinds) \/ what \in kinds
         /\ \A kinds : Once(i, kinds) /\ (what \in kinds => ~Told(i, kinds))
                         => Once(i, kinds)'
         /\ /\ what # "accepted" \/ reports[i] = <<>>
            /\ \A k \in DOMAIN reports[i] : reports[i][k] = "accepted" => k = 1
            => \A k \in DOMAIN reports'[i] : reports'[i][k] = "accepted" => k = 1
<1>1. reports \in [Ids -> Seq(Kinds)] /\ reports[i] \in Seq(Kinds)
  BY DEF TypeOK
<1>2. \A j \in Ids \ {i} : reports'[j] = reports[j]
  BY <1>1 DEF Send
<1>3. CASE reports'[i] = reports[i]
  BY <1>2, <1>3 DEF Told, Once
<1>4. CASE reports'[i] = Append(reports[i], what)
  <2> DEFINE n == Len(reports[i])
  <2>1. /\ n \in Nat /\ DOMAIN reports[i] = 1 .. n
        /\ DOMAIN reports'[i] = 1 .. (n + 1)
        /\ reports'[i][n + 1] = what
        /\ \A k \in 1 .. n : reports'[i][k] = reports[i][k]
        /\ reports[i] = <<>> => n = 0
    BY <1>1, <1>4
  <2> HIDE DEF n
  <2>2. ASSUME NEW kinds, Told(i, kinds)'
        PROVE  Told(i, kinds) \/ what \in kinds
    BY <2>1, <2>2 DEF Told
  <2>3. ASSUME NEW kinds, Once(i, kinds), what \in kinds => ~Told(i, kinds)
        PROVE  Once(i, kinds)'
    BY <2>1, <2>3 DEF Once, Told
  <2>4. ASSUME what # "accepted" \/ reports[i] = <<>>,
               \A k \in DOMAIN reports[i] : reports[i][k] = "accepted" => k = 1,
               NEW k \in DOMAIN reports'[i], reports'[i][k] = "accepted"
        PROVE  k = 1
    BY <2>1, <2>4
  <2> QED BY <1>2, <2>2, <2>3, <2>4
<1> QED BY <1>1, <1>3, <1>4 DEF Send

\* A step that tells nothing of a load keeps its story if the load goes on: it
\* does not become new again, its job does not turn back, and it gets an owner
\* only from the worker that registers it.
LEMMA SilentStep ==
  ASSUME NEW j \in Ids, StoryInv(j), reports'[j] = reports[j],
         events'[j] = events[j],
         pc'[j] = "none" \/ (rpc' = "accept" /\ rid' = j) =>
           pc[j] = "none" \/ (rpc = "accept" /\ rid = j),
         pc[j] = "done" => pc'[j] = "done",
         pc[j] \in Registered => pc'[j] \in Registered,
         Owned(j)' => Owned(j) \/ pc[j] = "register",
         Unloading(j)' => Unloading(j) \/ (Owned(j) /\ ~Owned(j)'
                                            /\ pc[j] \in Registered)
  PROVE  StoryInv(j)'
<1>1. /\ \A kinds : /\ Told(j, kinds)' <=> Told(j, kinds)
                    /\ Once(j, kinds)' <=> Once(j, kinds)
      /\ FailureTold(j)' <=> FailureTold(j)
      /\ EndingTold(j)' <=> EndingTold(j)
  BY SilenceTellsNothing
<1> QED BY <1>1 DEF StoryInv, Registered

-----------------------------------------------------------------------------
(* The steps that tell something.                                          *)

\* What is known of a load before a step that may be about it.
Before(i) == TypeOK /\ ThreadInv /\ JobInv(i) /\ StoryInv(i)

\* The reader accepts a load it has told nothing of.
LEMMA AcceptTells ==
  ASSUME NEW i \in Ids, Before(i), SendAccepted, rid = i
  PROVE  StoryInv(i)'
<1>1. Send(i, "accepted") /\ reports[i] = <<>>
  BY DEF SendAccepted, Before, StoryInv
<1>2. \A kinds : ~Told(i, kinds)
  BY <1>1 DEF Told
<1>3. /\ \A kinds : "accepted" \notin kinds => ~Told(i, kinds)'
      /\ Once(i, Outcomes)' /\ Once(i, Endings)'
      /\ \A k \in DOMAIN reports'[i] : reports'[i][k] = "accepted" => k = 1
  <2>1. Once(i, Outcomes) /\ Once(i, Endings)
    BY DEF Before, StoryInv
  <2> QED BY <1>1, <1>2, <2>1, SendTells DEF Before, Outcomes, Failures, Endings
<1>4. /\ events' = events /\ rpc' = "submit" /\ rid' = rid
      /\ UNCHANGED <<pc, children, doomed, mpc, mid>>
      /\ pc[i] = "reserved"
  BY DEF SendAccepted, Before, ThreadInv, offReader, owned, jobs, main
<1> QED
  BY <1>2, <1>3, <1>4
     DEF Before, StoryInv, FailureTold, EndingTold, Unloading, Owned, Outcomes,
         Failures, Endings, Registered

\* A worker reports the outcome of the load whose job it ends.
LEMMA OutcomeTells ==
  ASSUME NEW i \in Ids, Before(i),
         ReportPreCancel(i) \/ ReportLoaded(i) \/ ReportFailure(i)
  PROVE  StoryInv(i)'
<1>1. /\ pc[i] \in {"precancel", "notify", "failed", "cancelled"}
      /\ pc' = [pc EXCEPT ![i] = "done"] /\ pc \in [Ids -> Stages]
      /\ events \in [Ids -> SUBSET Topics]
      /\ UNCHANGED <<children, doomed, rpc, rid, mpc, mid>>
  BY DEF ReportPreCancel, ReportLoaded, ReportFailure, GoTo, Before, TypeOK,
         offJob, owned, reader, main
<1>2. /\ ~Told(i, Outcomes) /\ ~FailureTold(i) /\ ~Told(i, Failures)
      /\ pc[i] # "notify" => /\ ~EndingTold(i) /\ ~Told(i, Endings)
                             /\ ~Unloading(i) /\ ~Owned(i)
      /\ rpc = "accept" => rid # i
      /\ "LOADED" \notin events[i]
  BY <1>1
     DEF Before, StoryInv, FailureTold, EndingTold, Registered, JobInv, Owned,
         ThreadInv
\* Shutdown may cut the report short.
<1>3. CASE UNCHANGED <<reports, events>>
  <2>1. StoryInv(i) /\ pc[i] \notin {"register", "done"} /\ pc'[i] = "done"
    BY <1>1 DEF Before
  <2> QED
    BY <1>1, <1>3, <2>1, SilentStep DEF Owned, Unloading, Registered
<1>4. CASE ReportLoaded(i)
  <2>1. Send(i, "loaded") /\ pc[i] = "notify"
    BY <1>4 DEF ReportLoaded
  <2>2. /\ Once(i, Outcomes)' /\ Once(i, Endings)'
        /\ ~Told(i, Failures)' /\ (Told(i, Endings)' => Told(i, Endings))
        /\ \A k \in DOMAIN reports'[i] : reports'[i][k] = "accepted" => k = 1
    BY <1>2, <2>1, SendTells
       DEF Before, StoryInv, Outcomes, Failures, Endings
  <2>3. events'[i] = events[i] \/ events'[i] = events[i] \cup {"LOADED"}
    BY <1>1, <1>4 DEF ReportLoaded, Publish
  <2> QED
    BY <1>1, <1>2, <2>1, <2>2, <2>3
       DEF Before, StoryInv, FailureTold, EndingTold, Unloading, Owned,
           Registered
<1>5. ASSUME NEW what \in Failures, Send(i, what), pc[i] # "notify",
             \/ events'[i] = events[i]
             \/ events'[i] = events[i] \cup {"LOAD_FAILED"}
      PROVE  StoryInv(i)'
  <2>1. /\ Once(i, Outcomes)' /\ Once(i, Endings)' /\ ~Told(i, Endings)'
        /\ \A k \in DOMAIN reports'[i] : reports'[i][k] = "accepted" => k = 1
    BY <1>2, <1>5, SendTells
       DEF Before, StoryInv, Outcomes, Failures, Endings
  <2>2. /\ events[i] = {} /\ ~Owned(i) /\ ~Unloading(i)
        /\ Owned(i)' = Owned(i) /\ Unloading(i)' = Unloading(i)
    BY <1>1, <1>2, <1>5
       DEF EndingTold, FailureTold, Topics, Owned, Unloading
  <2> QED
    BY <1>1, <1>2, <1>5, <2>1, <2>2
       DEF Before, StoryInv, FailureTold, EndingTold, Registered
<1> QED
  BY <1>1, <1>3, <1>4, <1>5
     DEF ReportPreCancel, ReportFailure, Publish, Failures, sent

\* Whoever takes a child out of its map, and nobody else, reports its end.
LEMMA EndTells ==
  ASSUME NEW i \in Ids, Before(i), NEW what \in Endings, Send(i, what),
         NEW topic \in {"CRASHED", "UNLOADED"},
         events'[i] \in {events[i], events[i] \cup {topic}},
         UNCHANGED <<pc, rpc, rid>>,
         Owned(i) \/ Unloading(i), ~Owned(i)', ~Unloading(i)'
  PROVE  StoryInv(i)'
<1>1. /\ pc[i] \in Registered /\ ~EndingTold(i) /\ ~FailureTold(i)
      /\ ~Told(i, Endings) /\ ~Told(i, Failures)
      /\ rpc = "accept" => rid # i
  BY DEF Before, StoryInv, JobInv, Registered, EndingTold, FailureTold,
         ThreadInv
<1>2. /\ Once(i, Outcomes)' /\ Once(i, Endings)' /\ ~Told(i, Failures)'
      /\ Told(i, Outcomes)' => Told(i, Outcomes)
      /\ \A k \in DOMAIN reports'[i] : reports'[i][k] = "accepted" => k = 1
  BY <1>1, SendTells DEF Before, StoryInv, Outcomes, Failures, Endings
<1> QED
  BY <1>1, <1>2
     DEF Before, StoryInv, FailureTold, EndingTold, Registered

-----------------------------------------------------------------------------
(* Every step keeps every load's story.                                    *)

\* No step of any of the four threads makes the story of a load inconsistent.
LEMMA StoryStep ==
  ASSUME IInv, [Next]_vars, NEW j \in Ids, StoryInv(j)
  PROVE  StoryInv(j)'
<1>1. /\ Before(j) /\ JobInv(j) /\ JobInv(j)' /\ ThreadInv' /\ QueueInv
      /\ pc \in [Ids -> Stages] /\ events \in [Ids -> SUBSET Topics]
      /\ children \cap doomed = {}
  BY JobsKeepInv, ThreadsKeepInv DEF Before, IInv, TypeOK, ThreadInv
<1> USE DEF tables, owned, flags, jobs, reader, main, monitor, procs, sent,
            offJob, offReader, offMain, offSystem
\* Steps that tell nothing: of jobs ...
<1>2. ASSUME UNCHANGED <<reports, events, children, doomed, mpc, mid>>,
             NEW i \in Ids, NEW stage, pc' = [pc EXCEPT ![i] = stage],
             stage # "none",
             pc[i] = "done" => stage = "done",
             pc[i] \in Registered => stage \in Registered,
             \/ UNCHANGED <<rpc, rid>>
             \/ rpc' # "accept"
             \/ rid' = i /\ pc[i] = "none"
      PROVE  StoryInv(j)'
  <2>1. /\ pc'[j] = "none" => pc[j] = "none"
        /\ pc[j] = "done" => pc'[j] = "done"
        /\ pc[j] \in Registered => pc'[j] \in Registered
        /\ rpc' = "accept" /\ rid' = j => pc[j] = "none" \/ (rpc = "accept" /\ rid = j)
    BY <1>1, <1>2
  <2>2. StoryInv(j)
    OBVIOUS
  <2> QED BY <1>2, <2>1, <2>2, SilentStep DEF Owned, Unloading
\* ... of the reader ...
<1>3. ASSUME UNCHANGED <<reports, events, children, doomed, mpc, mid, pc>>,
             rpc' # "accept" \/ UNCHANGED <<rpc, rid>>
      PROVE  StoryInv(j)'
  BY <1>3, SilentStep DEF Owned, Unloading
\* ... and of whoever moves or takes out children, or main.
<1>4. ASSUME UNCHANGED <<reports, events, pc, rpc, rid>>,
             children' \cup doomed' \subseteq children \cup doomed,
             \/ ~Unloading(j)'
             \/ UNCHANGED <<mpc, mid>>
             \/ j \in children /\ j \notin children' \cup doomed'
      PROVE  StoryInv(j)'
  <2>1. Owned(j) => pc[j] \in Registered
    BY <1>1 DEF JobInv, Registered
  <2> QED BY <1>4, <2>1, SilentStep DEF Owned, Unloading
<1>5. ASSUME NEW s \in Seqs, LoadFrame(s) PROVE StoryInv(j)'
  <2>1. uniqueId \in Ids /\ pc[uniqueId] = "none"
    BY <1>5, FreshId, StagesAndKinds DEF LoadFrame
  <2> QED BY <1>2, <1>5, <2>1 DEF LoadFrame, Reserve, GoTo, Registered
<1>6. CASE OnLoadNode
  <2>1. uniqueId \in Ids /\ pc[uniqueId] = "none"
    BY <1>6, FreshId DEF OnLoadNode, Stages, Unstarted
  <2> QED BY <1>2, <1>6, <2>1 DEF OnLoadNode, Reserve, GoTo, Registered
<1>7. CASE SendAccepted
  <2>1. rid \in Ids /\ Send(rid, "accepted")
    BY <1>7 DEF SendAccepted, IInv, TypeOK
  <2>2. CASE rid = j
    BY <1>1, <1>7, <2>2, AcceptTells
  <2>3. CASE rid # j
    <3>1. reports'[j] = reports[j]
      BY <2>1, <2>3, SendTells DEF IInv
    <3> QED BY <1>7, <2>3, <3>1, SilentStep DEF SendAccepted, Owned, Unloading
  <2> QED BY <2>2, <2>3
<1>8. CASE SubmitSpawn
  <2>1. rid \in Ids /\ pc[rid] = "reserved"
    BY <1>1, <1>8 DEF SubmitSpawn, Before, ThreadInv, TypeOK
  <2> QED BY <1>2, <1>8, <2>1 DEF SubmitSpawn, GoTo, Registered
<1>9. CASE \/ QueryChildren \/ AnswerUnknown \/ KillVictim \/ ConfirmCancel
           \/ ReaderExit \/ \E i \in Ids : QueryFrame(i) \/ CancelFrame(i)
  BY <1>3, <1>9
     DEF QueryChildren, AnswerUnknown, KillVictim, ConfirmCancel, ReaderExit,
         QueryFrame, CancelFrame
<1>10. ASSUME NEW w \in Workers, TakeWork(w) PROVE StoryInv(j)'
  <2>1. Head(queue) \in Ids /\ pc[Head(queue)] = "queued"
    BY <1>10, HeadIsQueued DEF TakeWork
  <2> QED BY <1>2, <1>10, <2>1 DEF TakeWork, GoTo, Registered
<1>11. CASE \/ MonitorWakes \/ MonitorExit \/ Sigterm
            \/ \E w \in Workers : WorkerExit(w)
            \/ \E i \in Ids : ConstructorEnds(i) \/ ChildDies(i)
  BY <1>3, <1>11
     DEF MonitorWakes, MonitorExit, Sigterm, WorkerExit, ConstructorEnds,
         ChildDies
<1>12. ASSUME NEW i \in Ids, JobStep(i) PROVE StoryInv(j)'
  <2>1. CASE \/ PassGate(i) \/ Fork(i) \/ ForkFails(i) \/ NoteConstructing(i)
             \/ ChildReady(i) \/ GiveUp(i) \/ ChildGone(i) \/ RecheckOk(i)
             \/ CleanupSpawn(i) \/ DropPending(i) \/ Untrack(i)
             \/ CatchFailure(i)
    BY <1>2, <2>1
       DEF PassGate, Fork, ForkFails, NoteConstructing, ChildReady, GiveUp,
           ChildGone, RecheckOk, CleanupSpawn, DropPending, Untrack,
           CatchFailure, GoTo, Registered
  <2>2. CASE Register(i)
    <3>1. /\ UNCHANGED <<reports, events, doomed, mpc, mid, rpc, rid>>
          /\ children' = children \cup {i} /\ pc[i] = "register"
          /\ pc' = [pc EXCEPT ![i] = "untrack"]
      BY <2>2 DEF Register, GoTo
    <3>2. StoryInv(j) /\ (Owned(j)' => Owned(j) \/ pc[j] = "register")
      BY <3>1 DEF Owned
    <3> QED
      BY <1>1, <3>1, <3>2, SilentStep DEF Unloading, Registered
  <2>3. CASE ReportPreCancel(i) \/ ReportLoaded(i) \/ ReportFailure(i)
    <3>1. CASE i = j
      BY <1>1, <2>3, <3>1, OutcomeTells
    <3>2. CASE i # j
      <4>1. /\ \/ \E what : Send(i, what)
               \/ UNCHANGED reports
            /\ \/ \E topic : Publish(i, topic)
               \/ UNCHANGED events
            /\ pc' = [pc EXCEPT ![i] = "done"]
            /\ UNCHANGED <<children, doomed, rpc, rid, mpc, mid>>
        BY <2>3 DEF ReportPreCancel, ReportLoaded, ReportFailure, GoTo
      <4>2. reports'[j] = reports[j] /\ events'[j] = events[j]
        BY <1>1, <3>2, <4>1, SendTells DEF Publish, IInv
      <4> QED
        BY <1>1, <3>2, <4>1, <4>2, SilentStep DEF Owned, Unloading
    <3> QED BY <3>1, <3>2
  <2> QED BY <1>12, <2>1, <2>2, <2>3 DEF JobStep, PromptStep
<1>13. ASSUME NEW i \in Ids, HandleDeath(i) PROVE StoryInv(j)'
  <2>1. CASE i \notin children
    BY <1>3, <1>13, <2>1 DEF HandleDeath
  <2>2. CASE i \in children
    <3>1. /\ Send(i, "crashed") /\ Publish(i, "CRASHED")
          /\ children' = children \ {i} /\ i \notin doomed
          /\ UNCHANGED <<doomed, pc, rpc, rid, mpc, mid>>
      BY <1>1, <1>13, <2>2 DEF HandleDeath
    <3>2. CASE i = j
      <4>1. Owned(i) /\ ~Owned(i)'
        BY <2>2, <3>1 DEF Owned
      <4>2. ~Unloading(i) /\ ~Unloading(i)'
        BY <1>1, <3>1, <3>2, <4>1 DEF Before, StoryInv, Unloading
      <4>3. events'[i] = events[i] \cup {"CRASHED"}
        BY <1>1, <3>1 DEF Publish
      <4>4. "crashed" \in Endings
        BY DEF Endings
      <4> QED BY <1>1, <3>1, <3>2, <4>1, <4>2, <4>3, <4>4, EndTells
    <3>3. CASE i # j
      <4>1. reports'[j] = reports[j] /\ events'[j] = events[j]
        BY <1>1, <3>1, <3>3, SendTells DEF Publish, IInv
      <4> QED BY <3>1, <3>3, <4>1, SilentStep DEF Owned, Unloading
    <3> QED BY <3>2, <3>3
  <2> QED BY <2>1, <2>2
<1>14. CASE \E i \in Ids : UnloadRequest(i)
  BY <1>4, <1>14 DEF UnloadRequest, Unloading
<1>15. CASE UnloadChild
  BY <1>1, <1>4, <1>15 DEF UnloadChild, Unloading
<1>16. CASE ReportUnloaded
  <2>1. /\ mid \in Ids /\ Send(mid, "unloaded") /\ mpc = "unloaded"
        /\ mpc' = "spin"
        /\ \/ Publish(mid, "UNLOADED")
           \/ UNCHANGED events
        /\ UNCHANGED <<children, doomed, pc, rpc, rid>>
    BY <1>16 DEF ReportUnloaded, IInv, TypeOK
  <2>2. CASE mid = j
    <3>1. Unloading(j) /\ ~Unloading(j)'
      BY <2>1, <2>2 DEF Unloading
    <3>2. ~Owned(j) /\ ~Owned(j)'
      BY <1>1, <2>1, <3>1 DEF Before, StoryInv, Owned
    <3>3. events'[j] \in {events[j], events[j] \cup {"UNLOADED"}}
      BY <1>1, <2>1, <2>2 DEF Publish
    <3>4. "unloaded" \in Endings
      BY DEF Endings
    <3>5. Send(j, "unloaded")
      BY <2>1, <2>2
    <3> QED BY <1>1, <2>1, <3>1, <3>2, <3>3, <3>4, <3>5, EndTells
  <2>3. CASE mid # j
    <3>1. reports'[j] = reports[j] /\ events'[j] = events[j]
      BY <1>1, <2>1, <2>3, SendTells DEF Publish, IInv
    <3> QED BY <2>1, <2>3, <3>1, SilentStep DEF Owned, Unloading
  <2> QED BY <2>2, <2>3
<1>17. CASE \/ StopControl \/ StopMonitor \/ JoinMonitor \/ CollectTargets
            \/ AllSignalled \/ StopWorkers \/ JoinWorkers \/ EndDestructor
            \/ \E i \in Ids : SignalTarget(i)
  BY <1>4, <1>17
     DEF StopControl, StopMonitor, JoinMonitor, CollectTargets, AllSignalled,
         StopWorkers, JoinWorkers, EndDestructor, SignalTarget, Unloading
<1>18. CASE SwapChildren \/ \E i \in Ids : ReapDoomed(i) \/ SweepChild(i)
  BY <1>4, <1>18 DEF SwapChildren, ReapDoomed, SweepChild, Unloading
<1>19. CASE UNCHANGED vars
  BY <1>3, <1>19 DEF vars
<1> QED
  BY <1>5, <1>6, <1>7, <1>8, <1>9, <1>10, <1>11, <1>12, <1>13, <1>14, <1>15,
     <1>16, <1>17, <1>18, <1>19
     DEF Next, ReaderStep, DestructorStep, Terminated

-----------------------------------------------------------------------------
(* The theorem.                                                            *)

\* A set of positions that holds no two different ones has at most one member.
LEMMA AtMostOne ==
  ASSUME NEW S, \A k, l \in S : k = l
  PROVE  Cardinality(S) <= 1
<1>1. CASE S = {}
  BY <1>1, FS_EmptySet
<1>2. CASE S # {}
  <2>1. PICK x : x \in S
    BY <1>2
  <2>2. S = {x}
    BY <2>1
  <2> QED BY <2>2, FS_Singleton
<1> QED BY <1>1, <1>2

\* The channel tells one story of each load, and the topic one of the same,
\* for any number of loads and workers and in every order of their threads.
THEOREM StoriesAgree == Spec => []OneStory
<1> DEFINE Inv == IInv /\ \A i \in Ids : StoryInv(i)
<1>1. Init => \A i \in Ids : StoryInv(i)
  BY DEF Init, StoryInv, Once, Told, FailureTold, EndingTold, Unloading,
         Owned, Outcomes, Failures, Endings
<1>2. Inv /\ [Next]_vars => (\A i \in Ids : StoryInv(i))'
  BY StoryStep DEF Ids
<1>3. Inv => OneStory
  <2> SUFFICES ASSUME Inv, NEW i \in Ids
      PROVE
        /\ \/ events[i] \subseteq {"LOADED", "CRASHED"}
           \/ events[i] \subseteq {"LOADED", "UNLOADED"}
           \/ events[i] = {"LOAD_FAILED"}
        /\ \A k \in DOMAIN reports[i] : reports[i][k] = "accepted" => k = 1
        /\ Count(i, {"loaded", "failed", "cancelled"}) <= 1
        /\ Count(i, {"crashed", "unloaded"}) <= 1
        /\ Count(i, {"crashed", "unloaded", "failed", "cancelled"}) <= 1
    BY DEF OneStory
  <2>1. StoryInv(i) /\ events[i] \subseteq Topics
    BY DEF IInv, TypeOK
  <2>2. \/ events[i] \subseteq {"LOADED", "CRASHED"}
        \/ events[i] \subseteq {"LOADED", "UNLOADED"}
        \/ events[i] = {"LOAD_FAILED"}
    BY <2>1 DEF StoryInv, Topics
  <2>3. ASSUME NEW kinds, Once(i, kinds) PROVE Count(i, kinds) <= 1
    BY <2>3, AtMostOne DEF Count, Once
  <2>4. Once(i, {"crashed", "unloaded", "failed", "cancelled"})
    BY <2>1 DEF StoryInv, FailureTold, EndingTold, Told, Once, Outcomes,
                Failures, Endings
  <2>5. /\ Once(i, {"loaded", "failed", "cancelled"})
        /\ Once(i, {"crashed", "unloaded"})
    BY <2>1 DEF StoryInv, Once, Outcomes, Failures, Endings
  <2> QED BY <2>1, <2>2, <2>3, <2>4, <2>5 DEF StoryInv
<1> QED BY <1>1, <1>2, <1>3, InitInv, StepInv, PTL DEF Spec
=============================================================================
