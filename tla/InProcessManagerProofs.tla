------------------------ MODULE InProcessManagerProofs ------------------------
(***************************************************************************)
(* Proofs about InProcessManager, for any number of components and any     *)
(* grace period: what a clone child runs on stays there while it runs, no   *)
(* handler runs on a destroyed manager, and the supervisor is told of what *)
(* the table holds, in reports and in answers to quiet queries.            *)
(*                                                                         *)
(* The memory of a child is given back at four places (ReapChild, Forget,  *)
(* Erase, and ClearChildren with Destroy).  The invariant carries to each  *)
(* of them what the step before established: that the child main works on  *)
(* has left or was given up, and in the destructor that all have of which  *)
(* todo no longer speaks.                                                  *)
(***************************************************************************)
EXTENDS InProcessManager, TLAPS

\* Nothing frees the executor under this child.
Past(i) == child[i] \notin Running \/ i \in givenUp

Stopping == {"cancel", "wait"}
TearingDown == {"stopControl", "join", "destroy", "end"}

\* What main works on is a component, and one it has inserted before it adds it.
MidIsGiven ==
  /\ mpc \in {"construct", "insert"} \cup Stopping => mid # 0
  /\ mpc = "add" => mid \in wrappers

\* leaving tells which caller stop_child returns to; todo is the destructor's.
LeavingIsShutdown ==
  /\ leaving => mpc \in Stopping \cup {"stopChildren"} \cup TearingDown
  /\ ~leaving => mpc \notin {"stopChildren"} \cup TearingDown /\ todo = {}

ChildrenAreGiven ==
  /\ children \subseteq 1 .. nextId - 1
  /\ mode = "observable" => children = {}

\* A child holds its executor and node through children_ and node_wrappers_.
HeldByTables ==
  \A i \in Ids : Past(i) \/ i \in execs \cap wrappers \cap children

\* The zombie's stack goes only when it is reaped.
StackUntilReaped ==
  \A i \in Ids : child[i] \in Running \cup {"zombie"} => i \in stacks

ForgetsOnlyPast == mpc \in {"forget", "erase"} /\ mid \in Ids => Past(mid)

StoppedInOrder ==
  leaving /\ mpc \in Stopping \cup {"stopChildren"} =>
    \A i \in children \ todo : Past(i) \/ (mpc \in Stopping /\ i = mid)

AllPastBeforeTeardown == mpc \in TearingDown => \A i \in Ids : Past(i)

ReaderIsJoined == mpc \in {"destroy", "end"} => rpc = "stopped"

IInv ==
  /\ TypeOK /\ MidIsGiven /\ LeavingIsShutdown /\ ChildrenAreGiven
  /\ HeldByTables /\ StackUntilReaped /\ ForgetsOnlyPast /\ StoppedInOrder
  /\ AllPastBeforeTeardown /\ ReaderIsJoined

-----------------------------------------------------------------------------
\* The invariant holds of a manager that has loaded nothing.
LEMMA InvInit == Init => IInv
<1> SUFFICES ASSUME Init PROVE IInv
  OBVIOUS
<1> USE DEF Init, Ids
<1>1. TypeOK
  <2>1. /\ mode \in Modes /\ ok \in BOOLEAN /\ alive \in BOOLEAN
        /\ leaving \in BOOLEAN /\ changed \in BOOLEAN
    OBVIOUS
  <2>2. nextId \in 1 .. MaxId + 1 /\ wrappers \subseteq 1 .. nextId - 1
    BY IdsAssumption
  <2>3. /\ mpc \in MainStages /\ mid \in 0 .. nextId - 1
        /\ polls \in 0 .. MaxPolls
    BY GraceAssumption DEF MainStages
  <2>4. /\ todo \subseteq children /\ children \subseteq Ids
        /\ child \in [Ids -> {"none", "zombie", "reaped"} \cup Running]
        /\ spinning \subseteq Ids /\ givenUp \subseteq Ids
        /\ execs \subseteq Ids /\ stacks \subseteq Ids
    OBVIOUS
  <2>5. /\ rpc \in {"read", "stopped"} \cup Handling
        /\ rframe \in IF rpc \in Handling THEN Frames ELSE {NoFrame}
    BY DEF Handling
  <2>6. /\ reports \in [0 .. MaxId -> SUBSET Said]
        /\ events \in [0 .. MaxId -> SUBSET Said]
    OBVIOUS
  <2> QED BY <2>1, <2>2, <2>3, <2>4, <2>5, <2>6 DEF TypeOK
<1>2. MidIsGiven /\ LeavingIsShutdown /\ ChildrenAreGiven
  BY DEF MidIsGiven, LeavingIsShutdown, ChildrenAreGiven, Stopping, TearingDown
<1>3. HeldByTables /\ StackUntilReaped /\ ForgetsOnlyPast
  BY DEF HeldByTables, StackUntilReaped, ForgetsOnlyPast, Past, Running
<1>4. StoppedInOrder /\ AllPastBeforeTeardown /\ ReaderIsJoined
  BY DEF StoppedInOrder, AllPastBeforeTeardown, ReaderIsJoined, Stopping,
         TearingDown
<1> QED BY <1>1, <1>2, <1>3, <1>4 DEF IInv

\* Every step keeps it.  The delicate ones are the steps that free memory:
\* ReapChild, Forget, Erase, ClearChildren and Destroy.
LEMMA InvStep == IInv /\ [Next]_vars => IInv'
<1> SUFFICES ASSUME IInv, [Next]_vars PROVE IInv'
  OBVIOUS
<1> USE IdsAssumption, GraceAssumption, ModesAssumption, NoFrameAssumption
<1> USE DEF IInv, TypeOK, MidIsGiven, LeavingIsShutdown, ChildrenAreGiven,
       HeldByTables, StackUntilReaped, ForgetsOnlyPast, StoppedInOrder,
       AllPastBeforeTeardown, ReaderIsJoined, Past, Ids, Running, Handling,
       MainStages, InFlux, Said, Stopping, TearingDown, MainGoes, table, main,
       memory, kids, reader, sent
<1>1. CASE Insert
  BY <1>1 DEF Insert
<1>2. CASE AddNode
  BY <1>2 DEF AddNode
<1>3. CASE CloneChild
  BY <1>3 DEF CloneChild
<1>4. CASE CloneFails
  BY <1>4 DEF CloneFails
<1>5. CASE ReportLoad
  BY <1>5 DEF ReportLoad, Send, Publish, Active
<1>6. CASE Cancel
  BY <1>6 DEF Cancel
<1>7. CASE ReapChild
  BY <1>7 DEF ReapChild, AfterStop
<1>8. CASE KeepPolling
  BY <1>8 DEF KeepPolling
<1>9. CASE GiveUp
  BY <1>9 DEF GiveUp, AfterStop
<1>10. CASE Forget
  <2>1. mpc = "forget" /\ ~leaving
    BY <1>10 DEF Forget
  <2>2. mid \in Ids => Past(mid)
    BY <2>1
  <2> QED BY <1>10, <2>1, <2>2 DEF Forget
<1>11. CASE Erase
  <2>1. mpc = "erase" /\ ~leaving /\ (mid \in Ids => Past(mid))
    BY <1>11 DEF Erase
  <2> QED BY <1>11, <2>1 DEF Erase
<1>12. CASE ReportUnload
  BY <1>12 DEF ReportUnload, Send, Publish, Active
<1>13. CASE LeaveSpin
  BY <1>13 DEF LeaveSpin
<1>14. CASE StopNext
  BY <1>14 DEF StopNext
<1>15. CASE ClearChildren
  <2>1. leaving /\ todo = {} /\ mpc = "stopChildren"
    BY <1>15 DEF ClearChildren
  <2>2. \A i \in Ids : Past(i)
    BY <2>1
  <2> QED BY <1>15, <2>1, <2>2 DEF ClearChildren
<1>16. CASE StopControl
  BY <1>16 DEF StopControl
<1>17. CASE JoinReader
  BY <1>17 DEF JoinReader
<1>18. CASE Destroy
  BY <1>18 DEF Destroy
<1>19. CASE Refuse
  BY <1>19 DEF Refuse, HandlerReturns
<1>20. CASE Find
  BY <1>20 DEF Find
<1>21. CASE AnswerLoaded
  BY <1>21 DEF AnswerLoaded, HandlerReturns
<1>22. CASE AnswerUnknown
  BY <1>22 DEF AnswerUnknown, HandlerReturns
<1>23. CASE ReaderEnds
  BY <1>23 DEF ReaderEnds
<1>24. CASE RaceKills
  <2>1. alive' \in BOOLEAN
    BY <1>24 DEF RaceKills
  <2>2. UNCHANGED <<mode, ok, table, main, memory, kids, reader, sent>>
    BY <1>24 DEF RaceKills
  <2> QED BY <2>1, <2>2
<1>25. CASE LoadRequest
  BY <1>25 DEF LoadRequest
<1>26. CASE Construct
  BY <1>26 DEF Construct
<1>27. CASE Sigterm
  <2>1. ok' \in BOOLEAN
    BY <1>27 DEF Sigterm
  <2>2. UNCHANGED <<mode, alive, table, main, memory, kids, reader, sent>>
    BY <1>27 DEF Sigterm
  <2> QED BY <2>1, <2>2
<1>28. ASSUME NEW i \in Ids, UnloadRequest(i) PROVE IInv'
  BY <1>28 DEF UnloadRequest
<1>29. ASSUME NEW f \in Frames, Ask(f) PROVE IInv'
  <2>1. changed' \in BOOLEAN
    BY <1>29 DEF Ask
  <2>2. rpc = "read" /\ mpc \notin {"destroy", "end"}
    BY <1>29 DEF Ask, Active
  <2>3. rpc' \in Handling /\ rframe' = f
    BY <1>29 DEF Ask
  <2>4. UNCHANGED <<mode, ok, alive, table, main, memory, kids, sent>>
    BY <1>29 DEF Ask
  <2> QED BY <2>1, <2>2, <2>3, <2>4
<1>30. ASSUME NEW i \in Ids, ChildSpins(i) PROVE IInv'
  BY <1>30 DEF ChildSpins
<1>31. ASSUME NEW i \in Ids, ChildLeaves(i) PROVE IInv'
  BY <1>31 DEF ChildLeaves
<1>32. ASSUME NEW i \in Ids, ChildCrashes(i) PROVE IInv'
  BY <1>32 DEF ChildCrashes
<1>33. CASE UNCHANGED vars
  BY <1>33 DEF vars
<1> QED
  BY <1>1, <1>2, <1>3, <1>4, <1>5, <1>6, <1>7, <1>8, <1>9, <1>10, <1>11,
     <1>12, <1>13, <1>14, <1>15, <1>16, <1>17, <1>18, <1>19, <1>20, <1>21,
     <1>22, <1>23, <1>24, <1>25, <1>26, <1>27, <1>28, <1>29, <1>30, <1>31,
     <1>32, <1>33
     DEF Next, MainStep, LoadStep, StopStep, UnloadStep, DestructorStep, ReaderStep,
         ChildStep, Finished

-----------------------------------------------------------------------------
\* The inductive invariant holds in every reachable state.
THEOREM Invariance == Spec => []IInv
<1>1. Init => IInv
  BY InvInit
<1>2. IInv /\ [Next]_vars => IInv'
  BY InvStep
<1> QED BY <1>1, <1>2, PTL DEF Spec

\* Every variable keeps its type, for any number of components and either
\* manager.
THEOREM TypeCorrect == Spec => []TypeOK
<1>1. IInv => TypeOK
  BY DEF IInv
<1> QED BY <1>1, Invariance, PTL

\* The stack and the TLS of a clone child (clone_vm_component_manager.cpp:
\* 398-425) are given back only when it has been reaped.
THEOREM StacksStay == Spec => []StackOutlivesChild
<1>1. IInv => StackOutlivesChild
  BY DEF IInv, StackUntilReaped, StackOutlivesChild
<1> QED BY <1>1, Invariance, PTL

\* The executor and the node of a clone child outlive it unless stop_child gave
\* it up: by unload (clone_vm_component_manager.cpp:370-379) and by the
\* destructor (242-251) alike.
THEOREM ExecutorsStay == Spec => []ExecutorOutlivesChildUnlessGivenUp
<1>1. IInv => ExecutorOutlivesChildUnlessGivenUp
  BY DEF IInv, HeldByTables, Past, ExecutorOutlivesChildUnlessGivenUp
<1> QED BY <1>1, Invariance, PTL

\* The reader is joined before the base class destroys what its handlers look
\* at (observable_component_manager.cpp:33-40).
THEOREM HandlersAreSafe == Spec => []HandlersRunOnALiveObject
<1>1. IInv => HandlersRunOnALiveObject
  BY DEF IInv, ReaderIsJoined, HandlersRunOnALiveObject, Handling
<1> QED BY <1>1, Invariance, PTL

-----------------------------------------------------------------------------
(* What the supervisor is told.                                            *)

Known(i) == "loaded" \in reports[i] /\ "unloaded" \notin reports[i]

\* Of an id that is not given out, or whose load main has not reported, nothing
\* was said.
FreshIsUntold ==
  /\ \A i \in Ids : i >= nextId => reports[i] = {}
  /\ mpc \in {"construct", "insert", "add", "loaded", "failed"} =>
       mid \in Ids /\ reports[mid] = {}

\* The table is what was told, except for the component main works on between
\* its change of the table and its report.
TableIsTold ==
  ~leaving =>
    /\ \A i \in Ids : i # mid \/ mpc \notin {"add", "loaded", "unloaded"} =>
                        (i \in wrappers <=> Known(i))
    /\ mpc \in Stopping \cup {"forget", "erase"} => mid \in wrappers
    /\ mpc = "loaded" => mid \in wrappers
    /\ mpc = "unloaded" => /\ mid \in Ids \ wrappers
                           /\ "loaded" \in reports[mid]

\* What the reader has found is so as long as nothing changes.
FindingHolds ==
  rpc \in {"use", "unknown"} /\ ~changed /\ mpc \notin InFlux =>
    (rpc = "use" <=> rframe.id \in wrappers)

ToldInv == FreshIsUntold /\ TableIsTold /\ FindingHolds

\* ToldInv holds of a manager that has loaded nothing.
LEMMA ToldInit == Init => ToldInv
BY DEF Init, ToldInv, FreshIsUntold, TableIsTold, FindingHolds, Known, Ids,
       Stopping, InFlux

\* Every step keeps it.
LEMMA ToldStep == IInv /\ ToldInv /\ [Next]_vars => ToldInv'
<1> SUFFICES ASSUME IInv, ToldInv, [Next]_vars PROVE ToldInv'
  OBVIOUS
<1> USE IdsAssumption
<1> USE DEF IInv, TypeOK, LeavingIsShutdown, ChildrenAreGiven, ToldInv,
       FreshIsUntold, TableIsTold, FindingHolds, Known, Ids, Running, Handling,
       MainStages, InFlux, Said, Stopping, TearingDown, MidIsGiven, MainGoes,
       table, main, memory, kids, reader, sent
<1>1. CASE Insert
  BY <1>1 DEF Insert
<1>2. CASE AddNode \/ CloneChild \/ CloneFails
  BY <1>2 DEF AddNode, CloneChild, CloneFails
<1>3. CASE ReportLoad
  BY <1>3 DEF ReportLoad, Send, Publish, Active
<1>4. CASE Cancel \/ ReapChild \/ KeepPolling \/ GiveUp
  BY <1>4 DEF Cancel, ReapChild, KeepPolling, GiveUp, AfterStop
<1>5. CASE Forget
  BY <1>5 DEF Forget
<1>6. CASE Erase
  BY <1>6 DEF Erase
<1>7. CASE ReportUnload
  BY <1>7 DEF ReportUnload, Send, Publish, Active
<1>8. CASE LeaveSpin \/ StopNext \/ ClearChildren \/ StopControl \/ JoinReader
  BY <1>8 DEF LeaveSpin, StopNext, ClearChildren, StopControl, JoinReader
<1>9. CASE Destroy
  BY <1>9 DEF Destroy
<1>10. CASE Refuse \/ AnswerLoaded \/ AnswerUnknown \/ ReaderEnds \/ RaceKills
  BY <1>10
     DEF Refuse, AnswerLoaded, AnswerUnknown, ReaderEnds, RaceKills,
         HandlerReturns
<1>11. CASE Find
  BY <1>11 DEF Find
<1>12. CASE LoadRequest
  BY <1>12 DEF LoadRequest
<1>13. CASE Construct
  BY <1>13 DEF Construct
<1>14. CASE Sigterm
  BY <1>14 DEF Sigterm
<1>15. ASSUME NEW i \in Ids, UnloadRequest(i) PROVE ToldInv'
  BY <1>15 DEF UnloadRequest
<1>16. ASSUME NEW f \in Frames, Ask(f) PROVE ToldInv'
  BY <1>16 DEF Ask
<1>17. ASSUME NEW i \in Ids, ChildSpins(i) \/ ChildLeaves(i) \/ ChildCrashes(i)
       PROVE ToldInv'
  BY <1>17 DEF ChildSpins, ChildLeaves, ChildCrashes
<1>18. CASE UNCHANGED vars
  BY <1>18 DEF vars
<1> QED
  BY <1>1, <1>2, <1>3, <1>4, <1>5, <1>6, <1>7, <1>8, <1>9, <1>10, <1>11,
     <1>12, <1>13, <1>14, <1>15, <1>16, <1>17, <1>18
     DEF Next, MainStep, LoadStep, StopStep, UnloadStep, DestructorStep, ReaderStep,
         ChildStep, Finished

\* Both invariants hold in every reachable state.
LEMMA ToldInvariance == Spec => [](IInv /\ ToldInv)
<1> QED BY InvInit, InvStep, ToldInit, ToldStep, PTL DEF Spec

\* Whenever main is back in spin(), the supervisor has been told of exactly
\* what node_wrappers_ holds (observable_component_manager.cpp:118-189).
THEOREM SupervisorIsTold == Spec => []SupervisorKnows
<1>1. IInv /\ ToldInv => SupervisorKnows
  BY DEF IInv, LeavingIsShutdown, TearingDown, Stopping, ToldInv, TableIsTold,
         Known, SupervisorKnows
<1> QED BY <1>1, ToldInvariance, PTL

\* A query no load or unload came across is answered with the truth, although
\* the reader takes no lock (observable_component_manager.cpp:76-97).
THEOREM QuietQueriesAreTrue == Spec => QuietAnswersAreTrue
<1>1. ToldInv =>
      [ LET answered == rpc \in {"use", "unknown"} /\ rpc' = "read"
            quiet == ~changed /\ mpc \notin InFlux
        IN  answered /\ quiet => (rpc = "use" <=> rframe.id \in wrappers) ]_vars
  BY DEF ToldInv, FindingHolds
<1> QED BY <1>1, ToldInvariance, PTL DEF QuietAnswersAreTrue
=============================================================================
