--------------------------- MODULE InProcessManager ---------------------------
(***************************************************************************)
(* The two managers that keep components inside the container:             *)
(* ObservableComponentManager (observable_component_manager.cpp, "ob"),    *)
(* where the container's executor spins them, and CloneVmComponentManager  *)
(* (clone_vm_component_manager.cpp, "cv"), where each is spun by a         *)
(* clone(CLONE_VM) child that shares the container's memory.  main picks   *)
(* one of them (mode).  Two threads meet in it, with the children:         *)
(*   - MAIN, in the executor's spin(), runs the LoadNode and UnloadNode    *)
(*     services, and after SIGTERM the destructors (mpc, mid);             *)
(*   - the control channel's READER handles frames (rpc, rframe).          *)
(* rclcpp_components::ComponentManager, the base class, and rclcpp's       *)
(* executor are external; they are modelled from how this code uses them.  *)
(***************************************************************************)
EXTENDS Integers

CONSTANTS MaxId,    \* bound: unique ids the base class gives out
          Modes,    \* subset of {"observable", "cloneVm"}
          MaxPolls, \* kStopGraceMillis / 100
          NoFrame   \* the reader is handling nothing

ASSUME IdsAssumption == MaxId \in Nat \ {0}
ASSUME ModesAssumption == Modes \subseteq {"observable", "cloneVm"}
ASSUME GraceAssumption == MaxPolls \in Nat \ {0}

Ids == 1 .. MaxId

\* Frames that reach the handlers.  A query by sequence number alone asks for
\* id 0, as does the load this manager refuses.
Frames == [kind : {"query"}, id : 0 .. MaxId]
            \cup [kind : {"cancel"}, id : Ids] \cup [kind : {"load"}, id : {0}]

ASSUME NoFrameAssumption == NoFrame \notin Frames

VARIABLES
  mode,      \* which of the two managers main made
  ok,        \* rclcpp::ok()
  alive,     \* the container's process
  nextId,    \* unique_id_ of the base class
  wrappers,  \* the keys of node_wrappers_
  mpc, mid,  \* main: where it is, and the component it works on
  polls,     \* elapsed / 100 in stop_child
  leaving,   \* the manager is being destroyed
  todo,      \* children its destructor has still to stop
  children,  \* the keys of children_
  child,     \* per id: its clone child
  spinning,  \* executors whose spinning flag is set
  execs,     \* components whose own executor exists
  stacks,    \* components whose child's stack and TLS exist
  rpc, rframe,\* the reader, and the frame it handles
  reports,   \* per id: what the channel has said of it; 0 is a load without id
  events,    \* per id: what the topic has said of it
  givenUp,   \* history: children stop_child did not see exit
  changed    \* history: node_wrappers_ changed while this query was handled

table  == <<nextId, wrappers>>
main   == <<mpc, mid, polls, leaving, todo>>
memory == <<children, execs, stacks>>
kids   == <<child, spinning, givenUp>>
reader == <<rpc, rframe, changed>>
sent   == <<reports, events>>
vars == <<mode, ok, alive, table, main, memory, kids, reader, sent>>

Running == {"setup", "spin"}
Handling == {"refuse", "find", "use", "unknown"}
\* Stages of main in which node_wrappers_ is being changed.
InFlux == {"insert", "erase"}
MainStages == InFlux \cup {"spin", "construct", "add", "loaded", "failed",
  "cancel", "wait", "forget", "unloaded", "stopChildren", "stopControl",
  "join", "destroy", "end"}
Said == {"loaded", "failed", "unloaded"}

TypeOK ==
  /\ mode \in Modes /\ ok \in BOOLEAN /\ alive \in BOOLEAN
  /\ nextId \in 1 .. MaxId + 1 /\ wrappers \subseteq 1 .. nextId - 1
  /\ mpc \in MainStages /\ mid \in 0 .. nextId - 1
  /\ polls \in 0 .. MaxPolls /\ leaving \in BOOLEAN
  /\ todo \subseteq children /\ children \subseteq Ids
  /\ child \in [Ids -> {"none", "zombie", "reaped"} \cup Running]
  /\ spinning \subseteq Ids /\ givenUp \subseteq Ids
  /\ execs \subseteq Ids /\ stacks \subseteq Ids
  /\ rpc \in {"read", "stopped"} \cup Handling
  /\ rframe \in IF rpc \in Handling THEN Frames ELSE {NoFrame}
  /\ changed \in BOOLEAN
  /\ reports \in [0 .. MaxId -> SUBSET Said]
  /\ events \in [0 .. MaxId -> SUBSET Said]

Init ==
  /\ mode \in Modes /\ ok = TRUE /\ alive = TRUE
  /\ nextId = 1 /\ wrappers = {}
  /\ mpc = "spin" /\ mid = 0 /\ polls = 0 /\ leaving = FALSE /\ todo = {}
  /\ children = {} /\ execs = {} /\ stacks = {}
  /\ child = [i \in Ids |-> "none"] /\ spinning = {} /\ givenUp = {}
  /\ rpc = "read" /\ rframe = NoFrame /\ changed = FALSE
  /\ reports = [i \in 0 .. MaxId |-> {}]
  /\ events = [i \in 0 .. MaxId |-> {}]

MainGoes(stage) == mpc' = stage /\ UNCHANGED <<mid, polls, leaving, todo>>
\* stop() has not made the channel inactive.
Active == mpc \notin {"join", "destroy", "end"}
Send(i, what) ==
  reports' = IF Active THEN [reports EXCEPT ![i] = @ \cup {what}] ELSE reports
\* Events are not published once rclcpp is shutting down.
Publish(i, what) ==
  events' = IF ok THEN [events EXCEPT ![i] = @ \cup {what}] ELSE events

-----------------------------------------------------------------------------
(* on_load_node, on main.                                                  *)

\* The base class takes the next id and runs the component's constructor.
LoadRequest ==
  /\ mpc = "spin" /\ ok /\ nextId <= MaxId
  /\ nextId' = nextId + 1
  /\ mpc' = "construct" /\ mid' = nextId /\ UNCHANGED <<polls, leaving, todo>>
  /\ UNCHANGED <<mode, ok, alive, wrappers, memory, kids, reader, sent>>

\* The constructor returns, or throws; nothing obliges it to do either.
Construct ==
  /\ mpc = "construct"
  /\ \E stage \in {"insert", "failed"} : MainGoes(stage)
  /\ UNCHANGED <<mode, ok, alive, table, memory, kids, reader, sent>>

\* The node's entry is linked into node_wrappers_.
Insert ==
  /\ mpc = "insert"
  /\ wrappers' = wrappers \cup {mid} /\ changed' = TRUE
  /\ MainGoes("add")
  /\ UNCHANGED <<mode, ok, alive, nextId, memory, kids, rpc, rframe, sent>>

\* add_node_to_executor of the base class: the node is main's to spin.
AddNode ==
  /\ mpc = "add" /\ mode = "observable"
  /\ MainGoes("loaded")
  /\ UNCHANGED <<mode, ok, alive, table, memory, kids, reader, sent>>

\* add_node_to_executor in cv: an executor of its own, a stack, TLS, and a
\* child to spin it.
CloneChild ==
  /\ mpc = "add" /\ mode = "cloneVm"
  /\ child' = [child EXCEPT ![mid] = "setup"]
  /\ execs' = execs \cup {mid} /\ stacks' = stacks \cup {mid}
  /\ children' = children \cup {mid}
  /\ MainGoes("loaded")
  /\ UNCHANGED <<mode, ok, alive, table, spinning, givenUp, reader, sent>>

\* TLS, stack or clone() is not to be had: all is given back, and the load goes
\* on as if it were not.
CloneFails ==
  /\ mpc = "add" /\ mode = "cloneVm"
  /\ MainGoes("loaded")
  /\ UNCHANGED <<mode, ok, alive, table, memory, kids, reader, sent>>

\* The event, then the message.
ReportLoad ==
  /\ mpc \in {"loaded", "failed"}
  /\ LET i == IF mpc = "loaded" THEN mid ELSE 0
     IN  Publish(i, mpc) /\ Send(i, mpc)
  /\ MainGoes("spin")
  /\ UNCHANGED <<mode, ok, alive, table, memory, kids, reader>>

-----------------------------------------------------------------------------
(* on_unload_node, on main, of a component that is there; the base class    *)
(* answers an id it does not know with an error, and nothing changes.       *)

\* remove_node_from_executor comes first; cv has nothing to do for a node that
\* has no child.
UnloadRequest(i) ==
  /\ mpc = "spin" /\ ok /\ i \in wrappers
  /\ mpc' = IF i \in children THEN "cancel" ELSE "erase"
  /\ mid' = i /\ UNCHANGED <<polls, leaving, todo>>
  /\ UNCHANGED <<mode, ok, alive, table, memory, kids, reader, sent>>

\* stop_child: executor->cancel(), once and never a signal.
Cancel ==
  /\ mpc = "cancel"
  /\ spinning' = spinning \ {mid}
  /\ mpc' = "wait" /\ polls' = 0 /\ UNCHANGED <<mid, leaving, todo>>
  /\ UNCHANGED <<mode, ok, alive, table, memory, child, givenUp, reader, sent>>

\* Where stop_child returns to.
AfterStop == IF leaving THEN "stopChildren" ELSE "forget"

\* waitpid finds that the child has exited: its stack and its TLS go.
ReapChild ==
  /\ mpc = "wait" /\ polls < MaxPolls /\ child[mid] = "zombie"
  /\ child' = [child EXCEPT ![mid] = "reaped"]
  /\ stacks' = stacks \ {mid}
  /\ MainGoes(AfterStop)
  /\ UNCHANGED <<mode, ok, alive, table, children, execs, spinning, givenUp,
                 reader, sent>>

\* (mutant of KeepPolling: < kStopGraceMillis became <=)
KeepPollingOnceMore ==
  /\ mpc = "wait" /\ polls <= MaxPolls /\ child[mid] # "zombie"
  /\ polls' = polls + 1 /\ UNCHANGED <<mpc, mid, leaving, todo>>
  /\ UNCHANGED <<mode, ok, alive, table, memory, kids, reader, sent>>

KeepPolling ==
  /\ mpc = "wait" /\ polls < MaxPolls /\ child[mid] # "zombie"
  /\ polls' = polls + 1 /\ UNCHANGED <<mpc, mid, leaving, todo>>
  /\ UNCHANGED <<mode, ok, alive, table, memory, kids, reader, sent>>

\* (mutant of GiveUp: the stack and the TLS are given back in every case)
GiveUpReclaiming ==
  /\ mpc = "wait" /\ polls = MaxPolls
  /\ givenUp' = givenUp \cup {mid} /\ stacks' = stacks \ {mid}
  /\ MainGoes(AfterStop)
  /\ UNCHANGED <<mode, ok, alive, table, children, execs, child, spinning,
                 reader, sent>>

\* It did not exit in time: stack and TLS are leaked.
GiveUp ==
  /\ mpc = "wait" /\ polls = MaxPolls
  /\ givenUp' = givenUp \cup {mid}
  /\ MainGoes(AfterStop)
  /\ UNCHANGED <<mode, ok, alive, table, memory, child, spinning, reader, sent>>

\* children_.erase(it), whatever stop_child returned: the executor's last owner.
Forget ==
  /\ mpc = "forget"
  /\ children' = children \ {mid} /\ execs' = execs \ {mid}
  /\ MainGoes("erase")
  /\ UNCHANGED <<mode, ok, alive, table, stacks, kids, reader, sent>>

\* The base class erases the entry, and the node with it.
Erase ==
  /\ mpc = "erase"
  /\ wrappers' = wrappers \ {mid} /\ changed' = TRUE
  /\ MainGoes("unloaded")
  /\ UNCHANGED <<mode, ok, alive, nextId, memory, kids, rpc, rframe, sent>>

\* (mutant of ReportUnload: the shutdown guard covers the message as well)
ReportUnloadIfOk ==
  /\ mpc = "unloaded"
  /\ Publish(mid, "unloaded")
  /\ IF ok THEN Send(mid, "unloaded") ELSE UNCHANGED reports
  /\ MainGoes("spin")
  /\ UNCHANGED <<mode, ok, alive, table, memory, kids, reader>>

ReportUnload ==
  /\ mpc = "unloaded"
  /\ Publish(mid, "unloaded") /\ Send(mid, "unloaded")
  /\ MainGoes("spin")
  /\ UNCHANGED <<mode, ok, alive, table, memory, kids, reader>>

-----------------------------------------------------------------------------
(* Shutdown: spin() returns, and main destroys the manager.                *)

Sigterm ==
  /\ ok /\ ok' = FALSE
  /\ UNCHANGED <<mode, alive, table, main, memory, kids, reader, sent>>

\* (mutant of LeaveSpin: ~CloneVmComponentManager stops nobody)
LeaveSpinStoppingNobody ==
  /\ mpc = "spin" /\ ~ok
  /\ leaving' = TRUE /\ UNCHANGED todo
  /\ mpc' = IF mode = "cloneVm" THEN "stopChildren" ELSE "stopControl"
  /\ UNCHANGED <<mid, polls>>
  /\ UNCHANGED <<mode, ok, alive, table, memory, kids, reader, sent>>

LeaveSpin ==
  /\ mpc = "spin" /\ ~ok
  /\ leaving' = TRUE /\ todo' = children
  /\ mpc' = IF mode = "cloneVm" THEN "stopChildren" ELSE "stopControl"
  /\ UNCHANGED <<mid, polls>>
  /\ UNCHANGED <<mode, ok, alive, table, memory, kids, reader, sent>>

\* (mutant of StopNext: a child is stopped again until it has been reaped)
StopNextUntilReaped ==
  /\ mpc = "stopChildren"
  /\ \E i \in todo : /\ \A j \in todo : i <= j
                     /\ mid' = i
                     /\ todo' = {j \in todo : child[j] # "reaped"}
  /\ mpc' = "cancel" /\ UNCHANGED <<polls, leaving>>
  /\ UNCHANGED <<mode, ok, alive, table, memory, kids, reader, sent>>

\* ~CloneVmComponentManager: the children one by one, in the map's order ...
StopNext ==
  /\ mpc = "stopChildren"
  /\ \E i \in todo : /\ \A j \in todo : i <= j
                     /\ todo' = todo \ {i} /\ mid' = i
  /\ mpc' = "cancel" /\ UNCHANGED <<polls, leaving>>
  /\ UNCHANGED <<mode, ok, alive, table, memory, kids, reader, sent>>

\* ... and children_.clear().
ClearChildren ==
  /\ mpc = "stopChildren" /\ todo = {}
  /\ execs' = execs \ children /\ children' = {}
  /\ MainGoes("stopControl")
  /\ UNCHANGED <<mode, ok, alive, table, stacks, kids, reader, sent>>

\* (mutant of StopControl: ~ObservableComponentManager leaves the channel be)
StopControlLater ==
  /\ mpc = "stopControl"
  /\ MainGoes("destroy")
  /\ UNCHANGED <<mode, ok, alive, table, memory, kids, reader, sent>>

\* ~ObservableComponentManager: control_->stop(), up to the join.
StopControl ==
  /\ mpc = "stopControl"
  /\ MainGoes("join")
  /\ UNCHANGED <<mode, ok, alive, table, memory, kids, reader, sent>>

JoinReader ==
  /\ mpc = "join" /\ rpc = "stopped"
  /\ MainGoes("destroy")
  /\ UNCHANGED <<mode, ok, alive, table, memory, kids, reader, sent>>

\* The base class: node_wrappers_ and every node in it are destroyed.
Destroy ==
  /\ mpc = "destroy"
  /\ wrappers' = {} /\ changed' = TRUE
  /\ MainGoes("end")
  /\ UNCHANGED <<mode, ok, alive, nextId, memory, kids, rpc, rframe, sent>>

-----------------------------------------------------------------------------
(* The reader.                                                             *)

\* The handler returns.
HandlerReturns == rpc' = "read" /\ rframe' = NoFrame

\* A frame arrives.  The supervisor names ids it has been told of.
Ask(f) ==
  /\ rpc = "read" /\ Active
  /\ f.id = 0 \/ reports[f.id] # {}
  /\ rframe' = f /\ changed' = FALSE
  /\ rpc' = IF f.kind = "query" THEN "find" ELSE "refuse"
  /\ UNCHANGED <<mode, ok, alive, table, main, memory, kids, sent>>

\* handle_control_load rejects; handle_control_cancel says load_failed, which
\* ends the supervisor's wait, of a component that goes on running.  (What is
\* answered to a frame is not kept.)
Refuse ==
  /\ rpc = "refuse" /\ HandlerReturns
  /\ UNCHANGED <<mode, ok, alive, table, main, memory, kids, changed, sent>>

\* (mutant of Find: it looks in children_, as the isolated manager's handler)
FindChild ==
  /\ rpc = "find"
  /\ rpc' = IF rframe.id \in children THEN "use" ELSE "unknown"
  /\ UNCHANGED <<mode, ok, alive, table, main, memory, kids, rframe,
                 changed, sent>>

\* (mutant of Find: it takes a mutex that
\* on_load_node and on_unload_node hold)
FindLocked ==
  /\ rpc = "find" /\ mpc \notin InFlux \cup {"construct"}
  /\ rpc' = IF rframe.id \in wrappers THEN "use" ELSE "unknown"
  /\ UNCHANGED <<mode, ok, alive, table, main, memory, kids, rframe,
                 changed, sent>>

\* node_wrappers_.find() in handle_control_query, with no lock.  While main
\* changes the map the walk may miss any entry; an entry on its way in or out
\* may be found.
Find ==
  /\ rpc = "find"
  /\ \/ /\ rframe.id \in wrappers \cup (IF mpc \in InFlux THEN {mid} ELSE {})
        /\ rpc' = "use"
     \/ /\ rframe.id \notin wrappers \/ mpc \in InFlux
        /\ rpc' = "unknown"
  /\ UNCHANGED <<mode, ok, alive, table, main, memory, kids, rframe,
                 changed, sent>>

\* it->second is read, for the node's name; of an entry erased since, whatever
\* its memory still holds.
AnswerLoaded ==
  /\ rpc = "use" /\ HandlerReturns
  /\ UNCHANGED <<mode, ok, alive, table, main, memory, kids, changed, sent>>

AnswerUnknown ==
  /\ rpc = "unknown" /\ HandlerReturns
  /\ UNCHANGED <<mode, ok, alive, table, main, memory, kids, changed, sent>>

\* Or the container dies of it: the walk follows a link half changed, or the
\* node that is read is gone.
RaceKills ==
  /\ \/ rpc = "find" /\ mpc \in InFlux
     \/ rpc = "use" /\ (rframe.id \notin wrappers \/ mpc \in InFlux)
  /\ alive' = FALSE
  /\ UNCHANGED <<mode, ok, table, main, memory, kids, reader, sent>>

\* shutdown() of the socket ends the read.
ReaderEnds ==
  /\ rpc = "read" /\ mpc = "join"
  /\ rpc' = "stopped"
  /\ UNCHANGED <<mode, ok, alive, table, main, memory, kids, rframe,
                 changed, sent>>

-----------------------------------------------------------------------------
(* The clone children.                                                     *)

\* child_main reaches spin(), which sets the executor's spinning flag: a
\* cancel() that came before is lost.
ChildSpins(i) ==
  /\ child[i] = "setup"
  /\ child' = [child EXCEPT ![i] = "spin"] /\ spinning' = spinning \cup {i}
  /\ UNCHANGED <<mode, ok, alive, table, main, memory, givenUp, reader, sent>>

\* (mutant of ChildLeaves: only cancel() ends the child's spin())
ChildLeavesCancelled(i) ==
  /\ child[i] = "spin" /\ i \notin spinning
  /\ child' = [child EXCEPT ![i] = "zombie"]
  /\ UNCHANGED <<mode, ok, alive, table, main, memory, spinning, givenUp,
                 reader, sent>>

\* Cancelled, or rclcpp shut down, spin() returns, and child_main with it, if
\* no callback keeps it.
ChildLeaves(i) ==
  /\ child[i] = "spin" /\ (i \notin spinning \/ ~ok)
  /\ child' = [child EXCEPT ![i] = "zombie"]
  /\ UNCHANGED <<mode, ok, alive, table, main, memory, spinning, givenUp,
                 reader, sent>>

\* The component crashes, and its child alone.  Nobody is told.
ChildCrashes(i) ==
  /\ child[i] \in Running
  /\ child' = [child EXCEPT ![i] = "zombie"]
  /\ UNCHANGED <<mode, ok, alive, table, main, memory, spinning, givenUp,
                 reader, sent>>

-----------------------------------------------------------------------------
(* Specification. *)

LoadStep == \/ Insert \/ AddNode \/ CloneChild \/ CloneFails \/ ReportLoad
StopStep == \/ Cancel \/ ReapChild \/ KeepPolling \/ GiveUp
UnloadStep == Forget \/ Erase \/ ReportUnload
DestructorStep == \/ LeaveSpin \/ StopNext \/ ClearChildren \/ StopControl
                  \/ JoinReader \/ Destroy
MainStep == LoadStep \/ StopStep \/ UnloadStep \/ DestructorStep
ReaderStep == \/ Refuse \/ Find \/ AnswerLoaded \/ AnswerUnknown \/ ReaderEnds
ChildStep(i) == ChildSpins(i) \/ ChildLeaves(i)

Finished == (mpc = "end" \/ ~alive) /\ UNCHANGED vars

Next ==
  \/ /\ alive
     /\ \/ MainStep \/ ReaderStep \/ RaceKills
        \/ LoadRequest \/ Construct \/ Sigterm
        \/ \E i \in Ids : UnloadRequest(i)
        \/ \E f \in Frames : Ask(f)
  \/ \E i \in Ids : ChildStep(i) \/ ChildCrashes(i)
  \/ Finished

\* Both threads run.  A constructor need not return, nor a child leave.
Fairness == WF_vars(alive /\ MainStep) /\ WF_vars(alive /\ ReaderStep)

Spec == Init /\ [][Next]_vars /\ Fairness

-----------------------------------------------------------------------------
(* Safety. *)

\* "Stop the channel before anything else is torn down: its reader thread calls
\* back into this object" (ob:35): no handler runs once node_wrappers_ is gone,
\* whatever frame comes while the children are being stopped.
HandlersRunOnALiveObject == rpc \in Handling => mpc # "end"

\* The stack a child runs on and its thread-local storage stay mapped for as
\* long as it runs, through unload, give-up and shutdown.
StackOutlivesChild == \A i \in Ids : child[i] \in Running => i \in stacks

\* So do the executor it spins and the node, unless stop_child gave it up.
ExecutorOutlivesChildUnlessGivenUp ==
  \A i \in Ids : child[i] \in Running =>
                   i \in execs \cap wrappers \/ i \in givenUp

\* While main is in spin() the supervisor has been told of what node_wrappers_
\* holds: the components it has heard `loaded` of, and not `unloaded`.
SupervisorKnows ==
  mpc = "spin" =>
    \A i \in Ids :
      i \in wrappers <=> "loaded" \in reports[i] /\ "unloaded" \notin reports[i]

\* "A known id is `loaded`, anything else is `unknown`"
\* (observable_component_manager.hpp:76): so every query is answered that no
\* load or unload came across; a clone child's failure or death changes nothing.
QuietAnswersAreTrue ==
  [][ LET answered == rpc \in {"use", "unknown"} /\ rpc' = "read"
          quiet == ~changed /\ mpc \notin InFlux
      IN  answered /\ quiet => (rpc = "use" <=> rframe.id \in wrappers) ]_vars

-----------------------------------------------------------------------------
(* Liveness. *)

\* Each frame's handler returns, whatever main is doing: a constructor that
\* never ends, or a child that is waited for, does not silence the channel.
FramesAreAnswered == rpc \in Handling ~> rpc \notin Handling \/ ~alive

\* main is not held up for good: an unload, and the stop of a child in the
\* destructor, ends although the child may never leave, and so do the destructors.
StopsEnd ==
  /\ mpc \in {"cancel", "wait"} ~> mpc \notin {"cancel", "wait"} \/ ~alive
  /\ leaving ~> mpc = "end" \/ ~alive

\* Children whose callbacks end leave once the container has: a cancel() that
\* was lost because it came before spin() is made up for by rclcpp's shutdown.
ChildrenLeaveInTheEnd ==
  (\A i \in Ids : WF_vars(ChildStep(i))) =>
    (mpc = "end" ~> \A i \in Ids : child[i] \notin Running)

-----------------------------------------------------------------------------
(* What comments in the code say and the code does not keep.               *)

\* "In which case its resources are deliberately LEAKED: the child is still
\* running in this address space" (clone_vm_component_manager.hpp:120): what a
\* running child uses is not freed, its executor and its node included.
ExecutorOutlivesChild ==
  \A i \in Ids : child[i] \in Running => i \in execs \cap wrappers
=============================================================================
