------------------------ MODULE IsolatedManagerProofs ------------------------
(***************************************************************************)
(* Theorems about IsolatedManager, for any number of loads and workers:    *)
(* type correctness, and that the supervisor is never told it may resend a *)
(* load whose component is running (ResendIsSafe, NoUntrackedChild,        *)
(* ChildrenOwnTheirPids).                                                  *)
(***************************************************************************)
EXTENDS IsolatedManager, TLAPS

-----------------------------------------------------------------------------
(* The inductive invariant, in three parts.                                *)

Owned(i) == i \in children \cup doomed

\* Where a load's job is, against its entry in pending_loads_, its process
\* and the two maps that can own the process.
JobInv(i) ==
  /\ pc[i] = "none" <=> i >= uniqueId
  /\ phase[i] = "absent" <=> pc[i] \in {"none", "precancel", "notify", "failed",
                                        "cancelled", "done"}
  /\ pc[i] \in Unstarted \cup {"gate", "precancel", "fork"} => proc[i] = "none"
  /\ pc[i] \in {"note", "wait", "ready", "register", "cleanup"} =>
       proc[i] \in {"run", "zombie"}
  /\ pc[i] \in {"drop", "catch", "failed", "cancelled"} => proc[i] # "run"
  /\ Owned(i) => pc[i] \in {"untrack", "notify", "done"}
  /\ Owned(i) => proc[i] \in {"run", "zombie"}
  /\ pc[i] \in {"untrack", "notify", "done"} /\ proc[i] = "run" => Owned(i)
  /\ i \in resendOk => pc[i] # "none" /\ phase[i] = "absent" /\ ~Owned(i)

\* The queue holds each queued load once.
QueueInv ==
  /\ \A k \in 1 .. Len(queue) : pc[queue[k]] = "queued"
  /\ \A k, l \in 1 .. Len(queue) : queue[k] = queue[l] => k = l

\* What the reader knows between two of its critical sections, and what the
\* destructor may rely on once it has joined the reader.
ThreadInv ==
  /\ rpc \in {"accept", "submit", "children", "unknown", "kill", "confirm"} =>
       rid \in Given
  /\ rpc \in {"accept", "submit"} => pc[rid] = "reserved"
  /\ rpc \in {"children", "unknown"} => phase[rid] = "absent"
  /\ rpc = "unknown" => rid \notin children
  /\ mpc \notin {"spin", "unload", "unloaded", "joinReader"} => rpc = "stopped"
  /\ doomed # {} => mpc \in {"collect", "signal", "reap"}
  /\ children \cap doomed = {}

IInv == TypeOK /\ QueueInv /\ ThreadInv /\ \A i \in Ids : JobInv(i)

-----------------------------------------------------------------------------
(* Type correctness.                                                       *)

\* send_raw appends a kind of message to one load's history.
LEMMA SendTyped ==
  ASSUME TypeOK, NEW i \in Ids, NEW what \in Kinds, Send(i, what)
  PROVE  reports' \in [Ids -> Seq(Kinds)]
<1>1. reports[i] \in Seq(Kinds) /\ reports \in [Ids -> Seq(Kinds)]
  BY DEF TypeOK
<1>2. Append(reports[i], what) \in Seq(Kinds)
  BY <1>1
<1> QED
  BY <1>1, <1>2 DEF Send

\* Leave to resend is given for ids of loads only.
LEMMA AllowResendTyped ==
  ASSUME TypeOK, NEW i \in Ids, AllowResend(i)
  PROVE  resendOk' \subseteq Ids
BY DEF TypeOK, AllowResend

\* Publishing adds a topic to one load's events.
LEMMA PublishTyped ==
  ASSUME TypeOK, NEW i \in Ids, NEW what \in Topics, Publish(i, what)
  PROVE  events' \in [Ids -> SUBSET Topics]
BY DEF TypeOK, Publish

\* submit_work queues an id of a load.
LEMMA EnqueueTyped ==
  ASSUME TypeOK, NEW i \in Ids, Enqueue(i)
  PROVE  queue' \in Seq(Ids)
BY DEF TypeOK, Enqueue

\* A job only goes to stages there are.
LEMMA GoToTyped ==
  ASSUME TypeOK, NEW i \in Ids, NEW stage \in Stages, GoTo(i, stage)
  PROVE  pc' \in [Ids -> Stages]
BY DEF TypeOK, GoTo

\* reserve_node_id gives out an id below the bound and types what it tracks.
LEMMA ReserveTyped ==
  ASSUME TypeOK, NEW stage \in Stages, Reserve(stage)
  PROVE  /\ uniqueId \in Ids
         /\ uniqueId' \in 1 .. (MaxId + 1)
         /\ phase' \in [Ids -> {"absent", "queued", "constructing"}]
         /\ pc' \in [Ids -> Stages]
<1>1. uniqueId \in Ids /\ uniqueId' \in 1 .. (MaxId + 1)
  BY BoundsAssumption DEF TypeOK, Reserve, Ids
<1> QED
  BY <1>1, GoToTyped DEF TypeOK, Reserve

\* The members of the enumerations, for leaves that need no more of them.
LEMMA StagesAndKinds ==
  /\ Running \subseteq Stages /\ {"reserved", "queued", "done"} \subseteq Stages
  /\ Kinds = {"accepted", "loaded", "failed", "cancelled", "crashed", "unloaded"}
  /\ Topics = {"LOADED", "LOAD_FAILED", "CRASHED", "UNLOADED"}
  /\ Ids \subseteq 0 .. MaxId
BY DEF Stages, Unstarted, Running, Kinds, Topics, Ids

\* Every step keeps the types of the variables.
LEMMA TypeStep == TypeOK /\ [Next]_vars => TypeOK'
<1> SUFFICES ASSUME TypeOK, [Next]_vars PROVE TypeOK'
  OBVIOUS
<1> USE
    DEF TypeOK, tables, owned, flags, jobs, reader, main, monitor, procs, sent,
            offJob, offReader, offMain, offSystem
<1>1. ASSUME NEW s \in Seqs, LoadFrame(s) PROVE TypeOK'
  BY <1>1, ReserveTyped, GoToTyped, StagesAndKinds
     DEF LoadFrame, Running, ReaderStages, Ids
<1>2. CASE OnLoadNode
  BY <1>2, ReserveTyped, EnqueueTyped, GoToTyped, StagesAndKinds
     DEF OnLoadNode, Running, Ids
<1>3. ASSUME NEW i \in Ids, QueryFrame(i) PROVE TypeOK'
  BY <1>3, StagesAndKinds DEF QueryFrame, Given, ReaderStages, Ids
<1>4. ASSUME NEW i \in Ids, CancelFrame(i) PROVE TypeOK'
  BY <1>4, StagesAndKinds DEF CancelFrame, Given, ReaderStages, Ids
<1>5. ASSUME NEW i \in Ids, UnloadRequest(i) PROVE TypeOK'
  BY <1>5, StagesAndKinds DEF UnloadRequest, Given, MainStages, Ids
<1>6. CASE SendAccepted
  BY <1>6, SendTyped, StagesAndKinds DEF SendAccepted, ReaderStages
<1>7. CASE SubmitSpawn
  BY <1>7, EnqueueTyped, GoToTyped, StagesAndKinds
     DEF SubmitSpawn, Running, ReaderStages
<1>8. CASE QueryChildren
  BY <1>8, StagesAndKinds DEF QueryChildren, ReaderStages
<1>9. CASE AnswerUnknown
  BY <1>9, AllowResendTyped, StagesAndKinds DEF AnswerUnknown, ReaderStages
<1>10. CASE KillVictim
  BY <1>10, StagesAndKinds DEF KillVictim, ReaderStages
<1>11. CASE ConfirmCancel
  BY <1>11, StagesAndKinds DEF ConfirmCancel, ReaderStages
<1>12. CASE ReaderExit
  BY <1>12, StagesAndKinds DEF ReaderExit, ReaderStages
<1>13. ASSUME NEW i \in Ids, PassGate(i) PROVE TypeOK'
  <2>1. UNCHANGED <<offJob, owned, procs, sent, uniqueId, seqToId>>
    BY <1>13 DEF PassGate, Forget
  <2>2. \E stage \in Stages : GoTo(i, stage)
    BY <1>13 DEF PassGate, Stages, Running
  <2>3. /\ phase' \in [Ids -> {"absent", "queued", "constructing"}]
        /\ cancelled' \subseteq Ids
    BY <1>13 DEF PassGate, Forget
  <2>4. pc' \in [Ids -> Stages]
    BY <2>2, GoToTyped
  <2> QED
    BY <2>1, <2>3, <2>4
<1>14. ASSUME NEW i \in Ids, ReportPreCancel(i) PROVE TypeOK'
  BY <1>14, SendTyped, AllowResendTyped, GoToTyped, StagesAndKinds
     DEF ReportPreCancel, Running
<1>15. ASSUME NEW i \in Ids, Fork(i) PROVE TypeOK'
  BY <1>15, StagesAndKinds DEF Fork, GoTo, Stages, Unstarted, Running
<1>16. ASSUME NEW i \in Ids, ForkFails(i) PROVE TypeOK'
  BY <1>16, StagesAndKinds DEF ForkFails, GoTo, Stages, Unstarted, Running
<1>17. ASSUME NEW i \in Ids, NoteConstructing(i) PROVE TypeOK'
  BY <1>17, StagesAndKinds
     DEF NoteConstructing, GoTo, Stages, Unstarted, Running
<1>18. ASSUME NEW i \in Ids, ChildReady(i) PROVE TypeOK'
  BY <1>18, StagesAndKinds DEF ChildReady, GoTo, Stages, Unstarted, Running
<1>19. ASSUME NEW i \in Ids, GiveUp(i) PROVE TypeOK'
  BY <1>19, StagesAndKinds DEF GiveUp, GoTo, Reap, Stages, Unstarted, Running
<1>20. ASSUME NEW i \in Ids, ChildGone(i) PROVE TypeOK'
  BY <1>20, StagesAndKinds DEF ChildGone, GoTo, Stages, Unstarted, Running
<1>21. ASSUME NEW i \in Ids, RecheckOk(i) PROVE TypeOK'
  BY <1>21, StagesAndKinds DEF RecheckOk, GoTo, Stages, Unstarted, Running
<1>22. ASSUME NEW i \in Ids, CleanupSpawn(i) PROVE TypeOK'
  BY <1>22, StagesAndKinds
     DEF CleanupSpawn, GoTo, Reap, Release, Stages, Unstarted, Running
<1>23. ASSUME NEW i \in Ids, DropPending(i) PROVE TypeOK'
  BY <1>23, StagesAndKinds
     DEF DropPending, GoTo, Forget, Stages, Unstarted, Running
<1>24. ASSUME NEW i \in Ids, Register(i) PROVE TypeOK'
  BY <1>24, StagesAndKinds DEF Register, GoTo, Stages, Unstarted, Running
<1>25. ASSUME NEW i \in Ids, Untrack(i) PROVE TypeOK'
  BY <1>25, StagesAndKinds
     DEF Untrack, GoTo, Forget, Stages, Unstarted, Running
<1>26. ASSUME NEW i \in Ids, ReportLoaded(i) PROVE TypeOK'
  BY <1>26, GoToTyped, SendTyped, PublishTyped, StagesAndKinds
     DEF ReportLoaded, Running
<1>27. ASSUME NEW i \in Ids, CatchFailure(i) PROVE TypeOK'
  BY <1>27, StagesAndKinds
     DEF CatchFailure, GoTo, Forget, Stages, Unstarted, Running
<1>28. ASSUME NEW i \in Ids, ReportFailure(i) PROVE TypeOK'
  BY <1>28, GoToTyped, SendTyped, PublishTyped, AllowResendTyped,
     StagesAndKinds
     DEF ReportFailure, Running
<1>29. ASSUME NEW w \in Workers, TakeWork(w) PROVE TypeOK'
  BY <1>29, StagesAndKinds DEF TakeWork, GoTo, Stages, Unstarted, Running
<1>30. ASSUME NEW w \in Workers, WorkerExit(w) PROVE TypeOK'
  BY <1>30, StagesAndKinds DEF WorkerExit
<1>31. ASSUME NEW i \in Ids, ConstructorEnds(i) PROVE TypeOK'
  BY <1>31, StagesAndKinds DEF ConstructorEnds
<1>32. ASSUME NEW i \in Ids, ChildDies(i) PROVE TypeOK'
  BY <1>32, StagesAndKinds DEF ChildDies
<1>33. CASE MonitorWakes
  BY <1>33, StagesAndKinds DEF MonitorWakes, Readable
<1>34. CASE MonitorExit
  BY <1>34, StagesAndKinds DEF MonitorExit
<1>35. ASSUME NEW i \in Ids, HandleDeath(i) PROVE TypeOK'
  BY <1>35, SendTyped, PublishTyped, StagesAndKinds
     DEF HandleDeath, Reap, Release
<1>36. CASE UnloadChild
  BY <1>36, StagesAndKinds DEF UnloadChild, Reap, Release, MainStages
<1>37. CASE ReportUnloaded
  BY <1>37, SendTyped, PublishTyped, StagesAndKinds
     DEF ReportUnloaded, MainStages
<1>38. CASE Sigterm
  BY <1>38, StagesAndKinds DEF Sigterm
<1>39. CASE StopControl
  BY <1>39, StagesAndKinds DEF StopControl, MainStages
<1>40. CASE StopMonitor
  BY <1>40, StagesAndKinds DEF StopMonitor, MainStages
<1>41. CASE JoinMonitor
  BY <1>41, StagesAndKinds DEF JoinMonitor, MainStages
<1>42. CASE SwapChildren
  BY <1>42, StagesAndKinds DEF SwapChildren, MainStages
<1>43. CASE CollectTargets
  BY <1>43, StagesAndKinds DEF CollectTargets, MainStages
<1>44. CASE AllSignalled
  BY <1>44, StagesAndKinds DEF AllSignalled, MainStages
<1>45. CASE StopWorkers
  BY <1>45, StagesAndKinds DEF StopWorkers, MainStages
<1>46. CASE JoinWorkers
  BY <1>46, StagesAndKinds DEF JoinWorkers, MainStages
<1>47. CASE EndDestructor
  BY <1>47, StagesAndKinds DEF EndDestructor, MainStages
<1>48. ASSUME NEW i \in Ids, SignalTarget(i) PROVE TypeOK'
  BY <1>48, StagesAndKinds DEF SignalTarget
<1>49. ASSUME NEW i \in Ids, ReapDoomed(i) PROVE TypeOK'
  BY <1>49, StagesAndKinds DEF ReapDoomed, Reap, Release
<1>50. ASSUME NEW i \in Ids, SweepChild(i) PROVE TypeOK'
  BY <1>50, StagesAndKinds DEF SweepChild, Reap, Release
<1>51. CASE UNCHANGED vars
  BY <1>51 DEF vars
<1> QED
  BY <1>1, <1>2, <1>3, <1>4, <1>5, <1>6, <1>7, <1>8, <1>9, <1>10, <1>11, <1>12,
     <1>13, <1>14, <1>15, <1>16, <1>17, <1>18, <1>19, <1>20, <1>21, <1>22,
     <1>23, <1>24, <1>25, <1>26, <1>27, <1>28, <1>29, <1>30, <1>31, <1>32,
     <1>33, <1>34, <1>35, <1>36, <1>37, <1>38, <1>39, <1>40, <1>41, <1>42,
     <1>43, <1>44, <1>45, <1>46, <1>47, <1>48, <1>49, <1>50, <1>51
     DEF Next, ReaderStep, JobStep, PromptStep, DestructorStep, Terminated

-----------------------------------------------------------------------------
(* Most steps move no load, no process and nothing that a load owns.       *)

loads == <<uniqueId, phase, proc, resendOk, owned, jobs>>

\* Which steps change any of the variables IInv relates: the rest of Next leaves
\* loads alone.
LEMMA StepCases ==
  ASSUME [Next]_vars
  PROVE  \/ UNCHANGED loads
         \/ \E s \in Seqs : LoadFrame(s)
         \/ OnLoadNode \/ SubmitSpawn \/ AnswerUnknown \/ KillVictim
         \/ \E i \in Ids : JobStep(i) \/ ChildDies(i) \/ HandleDeath(i)
         \/ \E w \in Workers : TakeWork(w) \/ WorkerExit(w)
         \/ UnloadChild \/ SwapChildren
         \/ \E i \in Ids : ReapDoomed(i) \/ SweepChild(i)
<1> USE
    DEF loads, tables, owned, flags, jobs, reader, main, monitor, procs, sent,
            offJob, offReader, offMain, offSystem
<1>1. CASE UNCHANGED vars
  BY <1>1 DEF vars
<1>2. ASSUME NEW i \in Ids,
             \/ QueryFrame(i) \/ CancelFrame(i) \/ UnloadRequest(i)
             \/ ConstructorEnds(i) \/ SignalTarget(i)
      PROVE  UNCHANGED loads
  BY <1>2
     DEF QueryFrame, CancelFrame, UnloadRequest, ConstructorEnds, SignalTarget
<1>3. CASE \/ SendAccepted \/ QueryChildren \/ ConfirmCancel \/ ReaderExit
           \/ MonitorWakes \/ MonitorExit \/ ReportUnloaded \/ Sigterm
  BY <1>3
     DEF SendAccepted, QueryChildren, ConfirmCancel, ReaderExit, MonitorWakes,
         MonitorExit, ReportUnloaded, Sigterm
<1>4. CASE \/ StopControl \/ StopMonitor \/ JoinMonitor \/ CollectTargets
           \/ AllSignalled \/ StopWorkers \/ JoinWorkers \/ EndDestructor
  BY <1>4
     DEF StopControl, StopMonitor, JoinMonitor, CollectTargets, AllSignalled,
         StopWorkers, JoinWorkers, EndDestructor
<1> QED
  BY <1>1, <1>2, <1>3, <1>4 DEF Next, ReaderStep, DestructorStep, Terminated

\* The id that reserve_node_id gives out had no state before.
LEMMA FreshId ==
  ASSUME IInv, NEW stage \in Stages, Reserve(stage)
  PROVE  uniqueId \in Ids /\ pc[uniqueId] = "none"
<1>1. uniqueId \in Ids /\ uniqueId \in Int
  BY ReserveTyped DEF IInv, TypeOK
<1> QED BY <1>1 DEF IInv, JobInv

\* What a worker takes from the queue is a load that waits there.
LEMMA HeadIsQueued ==
  ASSUME IInv, queue # <<>>
  PROVE  Head(queue) \in Ids /\ pc[Head(queue)] = "queued"
<1>1. queue \in Seq(Ids)
  BY DEF IInv, TypeOK
<1> QED BY <1>1 DEF IInv, QueueInv

-----------------------------------------------------------------------------
(* Each part of the invariant is preserved.                                *)

\* Every step keeps a load's job in line with its table entry, its process and
\* its owner, whichever load the step is about.
LEMMA JobsKeepInv ==
  ASSUME IInv, [Next]_vars, NEW j \in Ids
  PROVE  JobInv(j)'
<1>1. /\ uniqueId \in Int /\ rid \in Int /\ queue \in Seq(Ids)
      /\ pc \in [Ids -> Stages]
      /\ phase \in [Ids -> {"absent", "queued", "constructing"}]
      /\ proc \in [Ids -> {"none", "run", "zombie", "reaped"}]
  BY DEF IInv, TypeOK, Ids
<1>2. ThreadInv /\ QueueInv /\ \A i \in Ids : JobInv(i)
  BY DEF IInv
<1>3. Ids \subseteq Int
  BY DEF Ids
<1> USE <1>1, <1>2, <1>3
    DEF JobInv, Owned, ThreadInv, Unstarted, tables, owned, flags, jobs,
        reader, main, monitor, procs, sent, offJob, offReader, offMain,
        offSystem
<1>4. CASE UNCHANGED loads
  BY <1>4 DEF loads
<1>5. ASSUME NEW s \in Seqs, LoadFrame(s) PROVE JobInv(j)'
  BY <1>5 DEF LoadFrame, Reserve, GoTo, Given, Dead
<1>6. CASE OnLoadNode
  BY <1>6 DEF OnLoadNode, Reserve, Enqueue, GoTo, Given, Dead
<1>7. CASE SubmitSpawn
  BY <1>7 DEF SubmitSpawn, Enqueue, GoTo, Given, Dead
<1>8. CASE AnswerUnknown
  BY <1>8 DEF AnswerUnknown, AllowResend, Given, Dead
<1>9. CASE KillVictim
  BY <1>9 DEF KillVictim, Given, Dead
<1>10. ASSUME NEW i \in Ids, PassGate(i) PROVE JobInv(j)'
  BY <1>10 DEF PassGate, Forget, GoTo, Given, Dead
<1>11. ASSUME NEW i \in Ids, ReportPreCancel(i) PROVE JobInv(j)'
  BY <1>11 DEF ReportPreCancel, Send, AllowResend, GoTo, Given, Dead
<1>12. ASSUME NEW i \in Ids, Fork(i) PROVE JobInv(j)'
  BY <1>12 DEF Fork, GoTo, Given, Dead
<1>13. ASSUME NEW i \in Ids, ForkFails(i) PROVE JobInv(j)'
  BY <1>13 DEF ForkFails, GoTo, Given, Dead
<1>14. ASSUME NEW i \in Ids, NoteConstructing(i) PROVE JobInv(j)'
  BY <1>14 DEF NoteConstructing, GoTo, Given, Dead
<1>15. ASSUME NEW i \in Ids, ChildReady(i) PROVE JobInv(j)'
  BY <1>15 DEF ChildReady, GoTo, Given, Dead
<1>16. ASSUME NEW i \in Ids, GiveUp(i) PROVE JobInv(j)'
  BY <1>16 DEF GiveUp, GoTo, Reap, Given, Dead
<1>17. ASSUME NEW i \in Ids, ChildGone(i) PROVE JobInv(j)'
  BY <1>17 DEF ChildGone, GoTo, Given, Dead
<1>18. ASSUME NEW i \in Ids, RecheckOk(i) PROVE JobInv(j)'
  BY <1>18 DEF RecheckOk, GoTo, Given, Dead
<1>19. ASSUME NEW i \in Ids, CleanupSpawn(i) PROVE JobInv(j)'
  BY <1>19 DEF CleanupSpawn, GoTo, Reap, Release, Given, Dead
<1>20. ASSUME NEW i \in Ids, DropPending(i) PROVE JobInv(j)'
  BY <1>20 DEF DropPending, GoTo, Forget, Given, Dead
<1>21. ASSUME NEW i \in Ids, Register(i) PROVE JobInv(j)'
  BY <1>21 DEF Register, GoTo, Given, Dead
<1>22. ASSUME NEW i \in Ids, Untrack(i) PROVE JobInv(j)'
  BY <1>22 DEF Untrack, GoTo, Forget, Given, Dead
<1>23. ASSUME NEW i \in Ids, ReportLoaded(i) PROVE JobInv(j)'
  BY <1>23 DEF ReportLoaded, GoTo, Send, Publish, Given, Dead
<1>24. ASSUME NEW i \in Ids, CatchFailure(i) PROVE JobInv(j)'
  BY <1>24 DEF CatchFailure, GoTo, Forget, Given, Dead
<1>25. ASSUME NEW i \in Ids, ReportFailure(i) PROVE JobInv(j)'
  BY <1>25 DEF ReportFailure, GoTo, Send, Publish, AllowResend, Given, Dead
<1>26. ASSUME NEW w \in Workers, TakeWork(w) PROVE JobInv(j)'
  <2>1. Head(queue) \in Ids /\ pc[Head(queue)] = "queued"
    BY <1>26 DEF TakeWork, QueueInv
  <2> QED
    BY <1>26, <2>1 DEF TakeWork, GoTo
<1>27. ASSUME NEW w \in Workers, WorkerExit(w) PROVE JobInv(j)'
  BY <1>27 DEF WorkerExit, Given, Dead
<1>28. ASSUME NEW i \in Ids, ChildDies(i) PROVE JobInv(j)'
  BY <1>28 DEF ChildDies, Given, Dead
<1>29. ASSUME NEW i \in Ids, HandleDeath(i) PROVE JobInv(j)'
  BY <1>29 DEF HandleDeath, Reap, Release, Send, Publish, Given, Dead
<1>30. CASE UnloadChild
  BY <1>30 DEF UnloadChild, Reap, Release, Given, Dead
<1>31. CASE SwapChildren
  BY <1>31 DEF SwapChildren, Given, Dead
<1>32. ASSUME NEW i \in Ids, ReapDoomed(i) PROVE JobInv(j)'
  BY <1>32 DEF ReapDoomed, Reap, Release, Given, Dead
<1>33. ASSUME NEW i \in Ids, SweepChild(i) PROVE JobInv(j)'
  BY <1>33 DEF SweepChild, Reap, Release, Given, Dead
<1> QED
  BY StepCases, <1>4, <1>5, <1>6, <1>7, <1>8, <1>9, <1>10, <1>11, <1>12, <1>13,
     <1>14, <1>15, <1>16, <1>17, <1>18, <1>19, <1>20, <1>21, <1>22, <1>23,
     <1>24, <1>25, <1>26, <1>27, <1>28, <1>29, <1>30, <1>31, <1>32, <1>33
     DEF JobStep, PromptStep

\* Every step keeps the work queue free of duplicates and of loads that are not
\* queued.
LEMMA QueueKeepsInv ==
  ASSUME IInv, [Next]_vars
  PROVE  QueueInv'
<1>1. /\ uniqueId \in Ids \cup {MaxId + 1} /\ queue \in Seq(Ids)
      /\ pc \in [Ids -> Stages]
  BY BoundsAssumption DEF IInv, TypeOK, Ids
<1>2. ThreadInv /\ QueueInv /\ \A i \in Ids : JobInv(i)
  BY DEF IInv
<1>3. Ids \subseteq Int
  BY DEF Ids
\* Enqueuing a load that is not in the queue, and whose stage becomes queued.
<1>4. ASSUME NEW i \in Ids, pc[i] # "queued", Enqueue(i), GoTo(i, "queued")
      PROVE  QueueInv'
  <2>1. /\ Len(queue') = Len(queue) + 1 /\ queue'[Len(queue) + 1] = i
        /\ \A k \in 1 .. Len(queue) : queue'[k] = queue[k] /\ queue[k] \in Ids
    BY <1>1, <1>4 DEF Enqueue
  <2>2. \A k \in 1 .. Len(queue) : queue[k] # i
    BY <1>2, <1>4 DEF QueueInv
  <2>3. pc' = [pc EXCEPT ![i] = "queued"] /\ Len(queue) \in Nat
    BY <1>1, <1>4 DEF GoTo
  <2> QED
    BY <1>1, <1>2, <2>1, <2>2, <2>3 DEF QueueInv
\* A job that is running, or only reserved, is not in the queue.
<1>5. ASSUME NEW i \in Ids, pc[i] # "queued", UNCHANGED queue,
             NEW stage \in Stages, GoTo(i, stage)
      PROVE  QueueInv'
  BY <1>1, <1>2, <1>5 DEF QueueInv, GoTo
<1> USE
    DEF tables, owned, flags, jobs, reader, main, monitor, procs, sent, offJob,
        offReader, offMain, offSystem
<1>6. CASE UNCHANGED <<queue, pc>>
  BY <1>2, <1>6 DEF QueueInv
<1>7. ASSUME NEW s \in Seqs, LoadFrame(s) PROVE QueueInv'
  <2>1. uniqueId \in Ids /\ pc[uniqueId] = "none"
    BY <1>1, <1>2, <1>3, <1>7, BoundsAssumption
       DEF LoadFrame, Reserve, Ids, JobInv
  <2> QED
    BY <1>5, <1>7, <2>1 DEF LoadFrame, Reserve, Stages, Unstarted
<1>8. CASE OnLoadNode
  <2>1. uniqueId \in Ids /\ pc[uniqueId] = "none"
    BY <1>1, <1>2, <1>3, <1>8, BoundsAssumption
       DEF OnLoadNode, Reserve, Ids, JobInv
  <2> QED
    BY <1>4, <1>8, <2>1 DEF OnLoadNode, Reserve
<1>9. CASE SubmitSpawn
  <2>1. rid \in Ids /\ pc[rid] = "reserved"
    BY <1>2, <1>9 DEF SubmitSpawn, ThreadInv, IInv, TypeOK
  <2> QED
    BY <1>4, <1>9, <2>1 DEF SubmitSpawn
<1>10. ASSUME NEW i \in Ids, JobStep(i) PROVE QueueInv'
  <2>1. pc[i] # "queued" /\ UNCHANGED queue /\ \E stage \in Stages : GoTo(i, stage)
    BY <1>10
       DEF JobStep, PromptStep, PassGate, ReportPreCancel, Fork, ForkFails,
           NoteConstructing, ChildReady, GiveUp, ChildGone, RecheckOk,
           CleanupSpawn, DropPending, Register, Untrack, ReportLoaded,
           CatchFailure, ReportFailure, Stages, Unstarted, Running
  <2> QED
    BY <1>5, <2>1
<1>11. ASSUME NEW w \in Workers, TakeWork(w) PROVE QueueInv'
  BY <1>1, <1>2, <1>11 DEF TakeWork, GoTo, QueueInv
<1>12. CASE \/ AnswerUnknown \/ KillVictim \/ UnloadChild \/ SwapChildren
            \/ \E i \in Ids : ChildDies(i) \/ HandleDeath(i) \/ ReapDoomed(i)
                              \/ SweepChild(i)
            \/ \E w \in Workers : WorkerExit(w)
  BY <1>6, <1>12
     DEF AnswerUnknown, KillVictim, UnloadChild, SwapChildren, ChildDies,
         HandleDeath, ReapDoomed, SweepChild, WorkerExit
<1> QED
  BY StepCases, <1>6, <1>7, <1>8, <1>9, <1>10, <1>11, <1>12 DEF loads

\* What the reader found in one critical section still holds when it acts on it,
\* and the destructor's order is kept.
LEMMA ThreadsKeepInv ==
  ASSUME IInv, [Next]_vars
  PROVE  ThreadInv'
<1>1. /\ uniqueId \in Int /\ rid \in Int /\ queue \in Seq(Ids)
      /\ pc \in [Ids -> Stages]
      /\ phase \in [Ids -> {"absent", "queued", "constructing"}]
  BY DEF IInv, TypeOK, Ids
<1>2. ThreadInv /\ QueueInv /\ \A i \in Ids : JobInv(i)
  BY DEF IInv
<1>3. Ids \subseteq Int
  BY DEF Ids
<1> USE <1>1, <1>2, <1>3
    DEF ThreadInv, JobInv, Owned, Unstarted, Running, tables, owned, flags,
        jobs, reader, main, monitor, procs, sent, offJob, offReader, offMain,
        offSystem
<1>4. ASSUME NEW s \in Seqs, LoadFrame(s) PROVE ThreadInv'
  <2>1. uniqueId \in Ids /\ pc[uniqueId] = "none" /\ phase[uniqueId] = "absent"
    BY <1>4 DEF LoadFrame, Reserve, IInv, TypeOK, Ids
  <2>2. /\ uniqueId' = uniqueId + 1 /\ rid' = uniqueId /\ rpc' = "accept"
        /\ pc'[rid'] = "reserved" /\ rpc = "idle"
        /\ UNCHANGED <<mpc, doomed, children>>
    BY <1>4, <2>1 DEF LoadFrame, Reserve, GoTo
  <2>3. mpc' \in {"spin", "unload", "unloaded", "joinReader"}
    BY <2>2
  <2> QED
    BY <2>1, <2>2, <2>3 DEF Given, IInv, TypeOK, Ids
<1>5. CASE OnLoadNode
  BY <1>5 DEF OnLoadNode, Reserve, Enqueue, GoTo, Given, Pending
<1>6. ASSUME NEW i \in Ids, QueryFrame(i) PROVE ThreadInv'
  BY <1>6 DEF QueryFrame, Given, Given, Pending
<1>7. ASSUME NEW i \in Ids, CancelFrame(i) PROVE ThreadInv'
  BY <1>7 DEF CancelFrame, Given, Given, Pending
<1>8. ASSUME NEW i \in Ids, UnloadRequest(i) PROVE ThreadInv'
  BY <1>8 DEF UnloadRequest, Given, Given, Pending
<1>9. CASE SendAccepted
  BY <1>9 DEF SendAccepted, Send, Given, Pending
<1>10. CASE SubmitSpawn
  BY <1>10 DEF SubmitSpawn, Enqueue, GoTo, Given, Pending
<1>11. CASE QueryChildren
  BY <1>11 DEF QueryChildren, Given, Pending
<1>12. CASE AnswerUnknown
  BY <1>12 DEF AnswerUnknown, AllowResend, Given, Pending
<1>13. CASE KillVictim
  BY <1>13 DEF KillVictim, Given, Pending
<1>14. CASE ConfirmCancel
  BY <1>14 DEF ConfirmCancel, Given, Pending
<1>15. CASE ReaderExit
  BY <1>15 DEF ReaderExit, Given, Pending
<1>16. ASSUME NEW i \in Ids, PassGate(i) PROVE ThreadInv'
  <2>1. UNCHANGED <<rpc, rid, mpc, doomed, children, uniqueId>>
    BY <1>16 DEF PassGate, Forget
  <2>2. /\ pc[i] = "gate" /\ \E stage \in Stages : pc' = [pc EXCEPT ![i] = stage]
        /\ phase' = phase \/ phase' = [phase EXCEPT ![i] = "absent"]
    BY <1>16 DEF PassGate, Forget, GoTo, Stages
  <2>3. rpc \in {"accept", "submit"} => rid # i
    BY <2>2
  <2>4. rid \in Given => rid \in Ids
    BY DEF Given, IInv, TypeOK, Ids
  <2>5. /\ rpc \in {"accept", "submit"} => pc'[rid] = "reserved"
        /\ rpc \in {"children", "unknown"} => phase'[rid] = "absent"
    BY <2>2, <2>3, <2>4
  <2> QED
    BY <2>1, <2>5 DEF Given
<1>17. ASSUME NEW i \in Ids, ReportPreCancel(i) PROVE ThreadInv'
  BY <1>17 DEF ReportPreCancel, Send, AllowResend, GoTo, Given, Pending
<1>18. ASSUME NEW i \in Ids, Fork(i) PROVE ThreadInv'
  BY <1>18 DEF Fork, GoTo, Given, Pending
<1>19. ASSUME NEW i \in Ids, ForkFails(i) PROVE ThreadInv'
  BY <1>19 DEF ForkFails, GoTo, Given, Pending
<1>20. ASSUME NEW i \in Ids, NoteConstructing(i) PROVE ThreadInv'
  BY <1>20 DEF NoteConstructing, GoTo, Given, Pending
<1>21. ASSUME NEW i \in Ids, ChildReady(i) PROVE ThreadInv'
  BY <1>21 DEF ChildReady, GoTo, Given, Pending
<1>22. ASSUME NEW i \in Ids, GiveUp(i) PROVE ThreadInv'
  BY <1>22 DEF GiveUp, GoTo, Reap, Given, Pending
<1>23. ASSUME NEW i \in Ids, ChildGone(i) PROVE ThreadInv'
  BY <1>23 DEF ChildGone, GoTo, Given, Pending
<1>24. ASSUME NEW i \in Ids, RecheckOk(i) PROVE ThreadInv'
  BY <1>24 DEF RecheckOk, GoTo, Given, Pending
<1>25. ASSUME NEW i \in Ids, CleanupSpawn(i) PROVE ThreadInv'
  BY <1>25 DEF CleanupSpawn, GoTo, Reap, Release, Given, Pending
<1>26. ASSUME NEW i \in Ids, DropPending(i) PROVE ThreadInv'
  BY <1>26 DEF DropPending, GoTo, Forget, Given, Pending
<1>27. ASSUME NEW i \in Ids, Register(i) PROVE ThreadInv'
  BY <1>27 DEF Register, GoTo, Given, Pending
<1>28. ASSUME NEW i \in Ids, Untrack(i) PROVE ThreadInv'
  BY <1>28 DEF Untrack, GoTo, Forget, Given, Pending
<1>29. ASSUME NEW i \in Ids, ReportLoaded(i) PROVE ThreadInv'
  BY <1>29 DEF ReportLoaded, GoTo, Send, Publish, Given, Pending
<1>30. ASSUME NEW i \in Ids, CatchFailure(i) PROVE ThreadInv'
  BY <1>30 DEF CatchFailure, GoTo, Forget, Given, Pending
<1>31. ASSUME NEW i \in Ids, ReportFailure(i) PROVE ThreadInv'
  BY <1>31 DEF ReportFailure, GoTo, Send, Publish, AllowResend, Given, Pending
<1>32. ASSUME NEW w \in Workers, TakeWork(w) PROVE ThreadInv'
  <2>1. Head(queue) \in Ids /\ pc[Head(queue)] = "queued"
    BY <1>32 DEF TakeWork, QueueInv
  <2> QED
    BY <1>32, <2>1 DEF TakeWork, GoTo, Given
<1>33. ASSUME NEW w \in Workers, WorkerExit(w) PROVE ThreadInv'
  BY <1>33 DEF WorkerExit, Given, Pending
<1>34. ASSUME NEW i \in Ids, ConstructorEnds(i) PROVE ThreadInv'
  BY <1>34 DEF ConstructorEnds, Given, Pending
<1>35. ASSUME NEW i \in Ids, ChildDies(i) PROVE ThreadInv'
  BY <1>35 DEF ChildDies, Given, Pending
<1>36. CASE MonitorWakes
  BY <1>36 DEF MonitorWakes, Readable, Given, Pending
<1>37. CASE MonitorExit
  BY <1>37 DEF MonitorExit, Given, Pending
<1>38. ASSUME NEW i \in Ids, HandleDeath(i) PROVE ThreadInv'
  BY <1>38 DEF HandleDeath, Reap, Release, Send, Publish, Given, Pending
<1>39. CASE UnloadChild
  BY <1>39 DEF UnloadChild, Reap, Release, Given, Pending
<1>40. CASE ReportUnloaded
  BY <1>40 DEF ReportUnloaded, Send, Publish, Given, Pending
<1>41. CASE Sigterm
  BY <1>41 DEF Sigterm, Given, Pending
<1>42. CASE StopControl
  BY <1>42 DEF StopControl, Given, Pending
<1>43. CASE StopMonitor
  BY <1>43 DEF StopMonitor, Given, Pending
<1>44. CASE JoinMonitor
  BY <1>44 DEF JoinMonitor, Given, Pending
<1>45. CASE SwapChildren
  BY <1>45 DEF SwapChildren, Given, Pending
<1>46. CASE CollectTargets
  BY <1>46 DEF CollectTargets, Given, Pending
<1>47. CASE AllSignalled
  BY <1>47 DEF AllSignalled, Given, Pending
<1>48. CASE StopWorkers
  BY <1>48 DEF StopWorkers, Given, Pending
<1>49. CASE JoinWorkers
  BY <1>49 DEF JoinWorkers, Given, Pending
<1>50. CASE EndDestructor
  BY <1>50 DEF EndDestructor, Given, Pending
<1>51. ASSUME NEW i \in Ids, SignalTarget(i) PROVE ThreadInv'
  BY <1>51 DEF SignalTarget, Given, Pending
<1>52. ASSUME NEW i \in Ids, ReapDoomed(i) PROVE ThreadInv'
  BY <1>52 DEF ReapDoomed, Reap, Release, Given, Pending
<1>53. ASSUME NEW i \in Ids, SweepChild(i) PROVE ThreadInv'
  BY <1>53 DEF SweepChild, Reap, Release, Given, Pending
<1>54. CASE UNCHANGED vars
  BY <1>54 DEF vars, Given
<1> QED
  BY <1>4, <1>5, <1>6, <1>7, <1>8, <1>9, <1>10, <1>11, <1>12, <1>13, <1>14,
     <1>15, <1>16, <1>17, <1>18, <1>19, <1>20, <1>21, <1>22, <1>23, <1>24,
     <1>25, <1>26, <1>27, <1>28, <1>29, <1>30, <1>31, <1>32, <1>33, <1>34,
     <1>35, <1>36, <1>37, <1>38, <1>39, <1>40, <1>41, <1>42, <1>43, <1>44,
     <1>45, <1>46, <1>47, <1>48, <1>49, <1>50, <1>51, <1>52, <1>53, <1>54
     DEF Next, ReaderStep, JobStep, PromptStep, DestructorStep, Terminated

-----------------------------------------------------------------------------
(* The theorems.                                                           *)

\* The invariant holds of a manager that has just been constructed.
LEMMA InitInv == Init => IInv
<1> SUFFICES ASSUME Init PROVE IInv
  OBVIOUS
<1>1. TypeOK
  <2>1. 1 \in 1 .. (MaxId + 1) /\ "none" \in Stages
    BY BoundsAssumption DEF Stages, Unstarted
  <2>2. <<>> \in Seq(Ids) /\ <<>> \in Seq(Kinds)
    OBVIOUS
  <2>3. /\ seqToId \in [Seqs -> 0 .. MaxId]
        /\ phase \in [Ids -> {"absent", "queued", "constructing"}]
        /\ runner \in [Ids -> Workers \cup {NoWorker}]
    BY BoundsAssumption DEF Init
  <2> QED
    BY <2>1, <2>2, <2>3 DEF Init, TypeOK, ReaderStages, MainStages
<1>2. QueueInv /\ ThreadInv
  BY DEF Init, QueueInv, ThreadInv
<1>3. \A i \in Ids : JobInv(i)
  BY DEF Init, JobInv, Owned, Unstarted, Ids
<1> QED
  BY <1>1, <1>2, <1>3 DEF IInv

\* The invariant is inductive.
LEMMA StepInv == IInv /\ [Next]_vars => IInv'
<1> SUFFICES ASSUME IInv, [Next]_vars PROVE IInv'
  OBVIOUS
<1>1. TypeOK'
  BY TypeStep DEF IInv
<1>2. \A j \in Ids : JobInv(j)'
  BY JobsKeepInv
<1> QED
  BY <1>1, <1>2, QueueKeepsInv, ThreadsKeepInv DEF IInv, Ids

\* The inductive invariant holds in every state of every behaviour.
THEOREM Invariance == Spec => []IInv
<1> QED
  BY InitInv, StepInv, PTL DEF Spec

\* Every variable keeps its type, whatever the number of loads and workers.
THEOREM TypeCorrect == Spec => []TypeOK
<1>1. IInv => TypeOK
  BY DEF IInv
<1> QED
  BY <1>1, Invariance, PTL

\* A component's live process is always in pending_loads_ or in a map of
\* children, so the two lookups of handle_control_query cannot both miss it.
THEOREM NoChildEscapes == Spec => []NoUntrackedChild
<1>1. IInv => NoUntrackedChild
  <2> SUFFICES ASSUME IInv, NEW i \in Ids, proc[i] = "run"
               PROVE  Pending(i) \/ i \in children \cup doomed
    BY DEF NoUntrackedChild
  <2>1. JobInv(i) /\ pc[i] \in Stages
    BY DEF IInv, TypeOK
  <2> QED
    BY <2>1 DEF JobInv, Owned, Pending, Unstarted
<1> QED
  BY <1>1, Invariance, PTL

\* Leave to resend is given only for a load that is over: the container never
\* lets the supervisor run one load twice.
THEOREM NoDoubleLoad == Spec => []ResendIsSafe
<1>1. IInv => ResendIsSafe
  <2> SUFFICES ASSUME IInv, NEW i \in resendOk
               PROVE  /\ ~Pending(i) /\ i \notin children \cup doomed
                      /\ proc[i] # "run"
    BY DEF ResendIsSafe
  <2>1. JobInv(i) /\ i \in Ids
    BY DEF IInv, TypeOK
  <2> QED
    BY <2>1 DEF JobInv, Owned, Pending, Unstarted
<1> QED
  BY <1>1, Invariance, PTL

\* The pid of a child that is in children_, or in the map swapped out of it, has
\* not been given back to the system: who looks a child up there and signals or
\* reaps it reaches that child.  The pids that the reader and terminate_children
\* copy from the pending loads are not spoken of.
THEOREM OwnPids == Spec => []ChildrenOwnTheirPids
<1>1. IInv => ChildrenOwnTheirPids
  BY DEF IInv, TypeOK, JobInv, Owned, ChildrenOwnTheirPids
<1> QED
  BY <1>1, Invariance, PTL
=============================================================================
