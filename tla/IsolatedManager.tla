--------------------------- MODULE IsolatedManager ---------------------------
(***************************************************************************)
(* CloneIsolatedComponentManager: the component manager that runs every    *)
(* component in a process of its own (clone_isolated_component_manager.cpp,*)
(* "cim" below).  Its threads, one step per critical section or system     *)
(* call:                                                                   *)
(*   - the control channel's READER, handling load, query and cancel       *)
(*     frames (rpc, rid);                                                  *)
(*   - the EXECUTOR, running the LoadNode and UnloadNode services, and     *)
(*     after SIGTERM the destructor (mpc, mid);                            *)
(*   - the WORKER pool; a load's progress through submit_spawn is pc[i],   *)
(*     and runner[i] the worker that runs it;                              *)
(*   - the crash MONITOR over the children's pidfds (batch);               *)
(*   - the child PROCESSES themselves (proc, said).                        *)
(***************************************************************************)
EXTENDS Integers, Sequences, FiniteSets

CONSTANTS MaxId,       \* bound: unique ids given out (the code: 2^64 - 1)
          Seqs,        \* sequence numbers the supervisor gives its loads
          Workers,     \* the pool's threads
          NoWorker,    \* runner[i] before a worker takes i
          HasDeadline, \* PLAY_LAUNCH_COMPONENT_READY_TIMEOUT_MS is set
          MaxEvents    \* epoll_wait's batch (kMaxEvents)

ASSUME BoundsAssumption == MaxId \in Nat \ {0} /\ MaxEvents \in Nat \ {0}
ASSUME WorkersAssumption == Workers # {} /\ NoWorker \notin Workers
ASSUME DeadlineAssumption == HasDeadline \in BOOLEAN

Ids == 1 .. MaxId

VARIABLES
  uniqueId,       \* unique_id_, the next id
  seqToId,        \* seq_to_id_; 0 is "no entry"
  phase,          \* pending_loads_[i].phase; "absent" is "no entry"
  cancelled,      \* pending_loads_[i].cancelled
  queue,          \* work_queue_
  children,       \* the keys of children_
  doomed,         \* the map terminate_children swaps children_ into
  pidfds,         \* children whose pidfd is open and in the epoll set, if any
  params,         \* loads whose parameter file is on disk
  ok,             \* rclcpp::ok()
  active,         \* the channel's active_
  workersRunning, \* workers_running_
  monitorRunning, \* monitor_running_
  pc, runner,     \* per load: where its job is, and in which worker
  exited,         \* workers whose thread has exited
  rpc, rid,       \* the reader thread and the id it handles
  mpc, mid,       \* the executor thread and the id it unloads
  targets,        \* to_signal in terminate_children
  batch,          \* events epoll_wait returned and not yet handled
  monitorDone,    \* there is no monitor thread, or it has returned
  proc, said,     \* per load: the child's process, its ready-pipe line
  reports,        \* per load: what was sent on the channel, in order
  events,         \* per load: what was published as ComponentEvent
  resendOk        \* loads the supervisor has been told it may resend

tables  == <<uniqueId, seqToId, phase, cancelled>>
owned   == <<children, doomed, pidfds, params>>
flags   == <<ok, active, workersRunning, monitorRunning>>
jobs    == <<queue, pc, runner, exited>>
reader  == <<rpc, rid>>
main    == <<mpc, mid, targets>>
monitor == <<batch, monitorDone>>
procs   == <<proc, said>>
sent    == <<reports, events, resendOk>>
vars == <<tables, owned, flags, jobs, reader, main, monitor, procs, sent>>

\* What the steps of one thread leave alone: a job, the reader, main; and
\* what the child processes and the monitor never change.
offJob == <<flags, queue, runner, exited, reader, main, monitor>>
offReader == <<owned, flags, jobs, main, monitor>>
offMain == <<tables, jobs, reader, monitor>>
offSystem == <<tables, owned, flags, jobs, reader, main>>

-----------------------------------------------------------------------------
(* Constituents of the state. *)

Unstarted == {"none", "reserved", "queued"}
Running == {"gate", "precancel", "fork", "note", "wait", "ready", "register",
            "untrack", "notify", "cleanup", "drop", "catch", "failed",
            "cancelled"}
Stages == Unstarted \cup Running \cup {"done"}

ReaderStages == {"idle", "accept", "submit", "children", "unknown", "kill",
                 "confirm", "stopped"}
MainStages == {"spin", "unload", "unloaded", "joinReader", "joinMonitor",
               "swap", "collect", "signal", "reap", "joinWorkers", "sweep",
               "end"}
Kinds == {"accepted", "loaded", "failed", "cancelled", "crashed", "unloaded"}
Topics == {"LOADED", "LOAD_FAILED", "CRASHED", "UNLOADED"}

TypeOK ==
  /\ uniqueId \in 1 .. (MaxId + 1)
  /\ seqToId \in [Seqs -> 0 .. MaxId]
  /\ phase \in [Ids -> {"absent", "queued", "constructing"}]
  /\ cancelled \subseteq Ids
  /\ queue \in Seq(Ids)
  /\ children \subseteq Ids /\ doomed \subseteq Ids
  /\ pidfds \subseteq Ids /\ params \subseteq Ids
  /\ ok \in BOOLEAN /\ active \in BOOLEAN
  /\ workersRunning \in BOOLEAN /\ monitorRunning \in BOOLEAN
  /\ pc \in [Ids -> Stages]
  /\ runner \in [Ids -> Workers \cup {NoWorker}]
  /\ exited \subseteq Workers
  /\ rpc \in ReaderStages
  /\ rid \in IF rpc \in {"idle", "stopped"} THEN {0} ELSE Ids
  /\ mpc \in MainStages
  /\ mid \in IF mpc \in {"unload", "unloaded"} THEN Ids ELSE {0}
  /\ targets \subseteq Ids /\ batch \subseteq Ids
  /\ monitorDone \in BOOLEAN
  /\ proc \in [Ids -> {"none", "run", "zombie", "reaped"}]
  /\ said \in [Ids -> {"nothing", "OK", "ERR"}]
  /\ reports \in [Ids -> Seq(Kinds)]
  /\ events \in [Ids -> SUBSET Topics]
  /\ resendOk \subseteq Ids

\* epoll_create1 or eventfd may fail: the manager then goes on without a
\* monitor ("child crash monitoring disabled").
Init ==
  /\ uniqueId = 1
  /\ seqToId = [s \in Seqs |-> 0]
  /\ phase = [i \in Ids |-> "absent"]
  /\ cancelled = {} /\ queue = <<>>
  /\ children = {} /\ doomed = {} /\ pidfds = {} /\ params = {}
  /\ ok = TRUE /\ active = TRUE
  /\ workersRunning = TRUE
  /\ monitorDone \in BOOLEAN /\ monitorRunning = ~monitorDone
  /\ pc = [i \in Ids |-> "none"]
  /\ runner = [i \in Ids |-> NoWorker]
  /\ exited = {}
  /\ rpc = "idle" /\ rid = 0
  /\ mpc = "spin" /\ mid = 0 /\ targets = {}
  /\ batch = {}
  /\ proc = [i \in Ids |-> "none"]
  /\ said = [i \in Ids |-> "nothing"]
  /\ reports = [i \in Ids |-> <<>>]
  /\ events = [i \in Ids |-> {}]
  /\ resendOk = {}

Given == 1 .. (uniqueId - 1)             \* ids given out so far
Pending(i) == phase[i] # "absent"        \* pending_loads_.count(i) > 0
Busy(w) == \E i \in Ids : runner[i] = w /\ pc[i] \in Running
Dead(i) == proc[i] \in {"zombie", "reaped"}

\* Steps of a job, and the three ways a process stops being one.
GoTo(i, stage) == pc' = [pc EXCEPT ![i] = stage]
Reap(i) == proc' = [proc EXCEPT ![i] = "reaped"]
Forget(i) == /\ phase' = [phase EXCEPT ![i] = "absent"]
             /\ cancelled' = cancelled \ {i}
             /\ UNCHANGED <<uniqueId, seqToId>>
\* close(pidfd), which also takes it out of the epoll set, and unlink.
Release(i) == pidfds' = pidfds \ {i} /\ params' = params \ {i}

\* send_raw: a channel that is no longer active drops the message.
Send(i, what) ==
  reports' = IF active THEN [reports EXCEPT ![i] = Append(@, what)] ELSE reports
Publish(i, what) == events' = [events EXCEPT ![i] = @ \cup {what}]
\* `status{unknown}` or `load_failed{cancelled}` has been sent.
AllowResend(i) == resendOk' = IF active THEN resendOk \cup {i} ELSE resendOk

-----------------------------------------------------------------------------
(* Loads: handle_control_load on the reader, on_load_node on the executor. *)
(* A plugin plugin_available does not find is answered and changes nothing,*)
(* so it is the case where neither action is taken.                        *)

\* (mutant of Reserve: the overflow is noticed one id too late)
ReserveOneTooMany(stage) ==
  /\ uniqueId <= MaxId + 1
  /\ uniqueId' = uniqueId + 1
  /\ phase' = [phase EXCEPT ![uniqueId] = "queued"]
  /\ GoTo(uniqueId, stage)

\* reserve_node_id: the next id, tracked as queued before anyone knows it.
Reserve(stage) ==
  /\ uniqueId <= MaxId
  /\ uniqueId' = uniqueId + 1
  /\ phase' = [phase EXCEPT ![uniqueId] = "queued"]
  /\ GoTo(uniqueId, stage)

\* submit_work
Enqueue(i) == queue' = Append(queue, i)

\* The supervisor gives each of its loads a sequence number of its own (the code
\* would overwrite the entry in seq_to_id_).
LoadFrame(s) ==
  /\ rpc = "idle" /\ seqToId[s] = 0
  /\ Reserve("reserved")
  /\ seqToId' = [seqToId EXCEPT ![s] = uniqueId]
  /\ rpc' = "accept" /\ rid' = uniqueId
  /\ UNCHANGED <<cancelled, owned, flags, queue, runner, exited, main, monitor,
                 procs, sent>>

SendAccepted ==
  /\ rpc = "accept"
  /\ Send(rid, "accepted")
  /\ rpc' = "submit"
  /\ UNCHANGED <<offReader, tables, rid, procs, events, resendOk>>

SubmitSpawn ==
  /\ rpc = "submit"
  /\ Enqueue(rid) /\ GoTo(rid, "queued")
  /\ rpc' = "idle" /\ rid' = 0
  /\ UNCHANGED <<tables, owned, flags, runner, exited, main, monitor, procs,
                 sent>>

\* The LoadNode service (seq 0, so no entry in seq_to_id_).  No other thread
\* learns the id before the response, so the callback is one step.
OnLoadNode ==
  /\ mpc = "spin" /\ ok
  /\ Reserve("queued") /\ Enqueue(uniqueId)
  /\ UNCHANGED <<seqToId, cancelled, owned, flags, runner, exited, reader, main,
                 monitor, procs, sent>>

-----------------------------------------------------------------------------
(* handle_control_query and handle_control_cancel, on the reader thread.   *)
(* The supervisor asks about ids it was given, by id or by the seq of the  *)
(* load frame that was given it.  Answers other than `unknown` allow it    *)
(* nothing and are not recorded.                                           *)

\* First critical section of a query: under pending_mutex_.
QueryFrame(i) ==
  /\ rpc = "idle" /\ i \in Given
  /\ ~Pending(i)         \* a pending load is answered here, and that is all
  /\ rpc' = "children" /\ rid' = i
  /\ UNCHANGED <<offReader, tables, procs, sent>>

\* Second critical section: under children_mutex_.
QueryChildren ==
  /\ rpc = "children"
  /\ \/ rid \in children /\ rpc' = "idle" /\ rid' = 0
     \/ rid \notin children /\ rpc' = "unknown" /\ UNCHANGED rid
  /\ UNCHANGED <<offReader, tables, procs, sent>>

AnswerUnknown ==
  /\ rpc = "unknown"
  /\ AllowResend(rid)
  /\ rpc' = "idle" /\ rid' = 0
  /\ UNCHANGED <<offReader, tables, procs, reports, events>>

\* A cancel raises the flag and copies the pid in one critical section.
CancelFrame(i) ==
  /\ rpc = "idle" /\ i \in Given
  /\ cancelled' = IF Pending(i) THEN cancelled \cup {i} ELSE cancelled
  /\ rpc' = IF phase[i] = "constructing" THEN "kill" ELSE "confirm"
  /\ rid' = i
  /\ UNCHANGED <<offReader, uniqueId, seqToId, phase, procs, sent>>

\* (mutant of KillVictim: the reader also waits for what it killed)
KillVictimAndReap ==
  /\ rpc = "kill"
  /\ Reap(rid)
  /\ rpc' = "idle" /\ rid' = 0
  /\ UNCHANGED <<offReader, tables, said, sent>>

\* victim > 0: kill(victim, SIGKILL), no lock held.
KillVictim ==
  /\ rpc = "kill"
  /\ proc' = [proc EXCEPT ![rid] = IF @ = "run" THEN "zombie" ELSE @]
  /\ rpc' = "idle" /\ rid' = 0
  /\ UNCHANGED <<offReader, tables, said, sent>>

\* (mutant of ConfirmCancel: "not pending" is answered as "unknown")
ConfirmCancelWithoutChildren ==
  /\ rpc = "confirm"
  /\ \/ Pending(rid) /\ rpc' = "idle" /\ rid' = 0
     \/ ~Pending(rid) /\ rpc' = "unknown" /\ UNCHANGED rid
  /\ UNCHANGED <<offReader, tables, procs, sent>>

\* victim == 0: looked up a second time.  Still pending, the cancel is left
\* to the worker; gone, it is answered as a query, whose own look at the
\* pending loads finds the same (an id never comes back to them).
ConfirmCancel ==
  /\ rpc = "confirm"
  /\ \/ Pending(rid) /\ rpc' = "idle" /\ rid' = 0
     \/ ~Pending(rid) /\ rpc' = "children" /\ UNCHANGED rid
  /\ UNCHANGED <<offReader, tables, procs, sent>>

\* The socket ends (the supervisor went away, or stop() shut it down).
ReaderExit ==
  /\ rpc = "idle"
  /\ rpc' = "stopped" /\ active' = FALSE
  /\ UNCHANGED <<tables, owned, ok, workersRunning, monitorRunning, jobs, rid,
                 main, monitor, procs, sent>>

-----------------------------------------------------------------------------
(* The worker pool: worker_loop, and the job submit_spawn queues.          *)

\* A worker exits at once on shutdown and leaves the rest of the queue.  The
\* job itself starts by skipping the spawn if SIGTERM has come.
TakeWork(w) ==
  /\ w \notin exited /\ ~Busy(w) /\ workersRunning /\ queue # <<>>
  /\ LET i == Head(queue) IN
       /\ runner' = [runner EXCEPT ![i] = w]
       /\ GoTo(i, IF ok THEN "gate" ELSE "drop")
  /\ queue' = Tail(queue)
  /\ UNCHANGED <<tables, owned, flags, exited, reader, main, monitor, procs,
                 sent>>

\* (mutant of PassGate: a cancelled load stays among the pending)
PassGateKeepingPending(i) ==
  /\ pc[i] = "gate"
  /\ GoTo(i, IF i \in cancelled THEN "precancel" ELSE "fork")
  /\ UNCHANGED <<offJob, tables, owned, procs, sent>>

\* await_spawn_capacity returns (memory is free, or two minutes are over),
\* and the cancel flag is looked at for the last time before the fork.
PassGate(i) ==
  /\ pc[i] = "gate"
  /\ \/ i \in cancelled /\ Forget(i) /\ GoTo(i, "precancel")
     \/ i \notin cancelled /\ GoTo(i, "fork") /\ UNCHANGED tables
  /\ UNCHANGED <<offJob, owned, procs, sent>>

\* "cancelled before spawn", on the channel only.
ReportPreCancel(i) ==
  /\ pc[i] = "precancel"
  /\ Send(i, "cancelled") /\ AllowResend(i)
  /\ GoTo(i, "done")
  /\ UNCHANGED <<offJob, tables, owned, procs, events>>

\* spawn_child_process: write_params_file, pipe, fork.
Fork(i) ==
  /\ pc[i] = "fork"
  /\ params' = params \cup {i}
  /\ proc' = [proc EXCEPT ![i] = "run"]
  /\ GoTo(i, "note")
  /\ UNCHANGED <<offJob, tables, children, doomed, pidfds, said, sent>>

\* pipe() or fork() fails: the parameter file is unlinked, and it throws.
ForkFails(i) ==
  /\ pc[i] = "fork"
  /\ GoTo(i, "catch")
  /\ UNCHANGED <<offJob, tables, owned, procs, sent>>

NoteConstructing(i) ==
  /\ pc[i] = "note"
  /\ phase' = [phase EXCEPT ![i] = "constructing"]
  /\ GoTo(i, "wait")
  /\ UNCHANGED <<offJob, uniqueId, seqToId, cancelled, owned, procs, sent>>

\* The ready line is OK.  pidfd_open, and the pidfd joins the epoll set: from
\* here the monitor can wake for a child it does not find in children_.  Where
\* pidfd_open fails the child is registered all the same, and not monitored.
ChildReady(i) ==
  /\ pc[i] = "wait" /\ said[i] = "OK"
  /\ pidfds' \in {pidfds, pidfds \cup {i}}
  /\ GoTo(i, "ready")
  /\ UNCHANGED <<offJob, tables, children, doomed, params, procs, sent>>

\* (mutant of GiveUp: the parameter file is not unlinked)
GiveUpLeavingFile(i) ==
  /\ pc[i] = "wait"
  /\ said[i] = "ERR" \/ (HasDeadline /\ said[i] = "nothing")
  /\ Reap(i)
  /\ GoTo(i, "catch")
  /\ UNCHANGED <<offJob, tables, owned, said, sent>>

\* (mutant of GiveUp: the deadline is looked at only while the child lives)
GiveUpWhileAlive(i) ==
  /\ pc[i] = "wait"
  /\ said[i] = "ERR" \/ (HasDeadline /\ said[i] = "nothing" /\ proc[i] = "run")
  /\ Reap(i) /\ params' = params \ {i}
  /\ GoTo(i, "catch")
  /\ UNCHANGED <<offJob, tables, children, doomed, pidfds, said, sent>>

\* The ready line is ERR, or the deadline expires (or poll fails): SIGKILL,
\* waitpid, unlink and throw.
GiveUp(i) ==
  /\ pc[i] = "wait"
  /\ said[i] = "ERR" \/ (HasDeadline /\ said[i] = "nothing")
  /\ Reap(i) /\ params' = params \ {i}
  /\ GoTo(i, "catch")
  /\ UNCHANGED <<offJob, tables, children, doomed, pidfds, said, sent>>

\* End of file on the ready pipe: the child died before it said anything.  It
\* is neither signalled nor waited for.  The step may be late: a child forked
\* between this one's pipe() and close() has the write end too, and holds the
\* end of file back while it lives.  Fairness says when it must come.
ChildGone(i) ==
  /\ pc[i] = "wait" /\ said[i] = "nothing" /\ Dead(i)
  /\ params' = params \ {i}
  /\ GoTo(i, "catch")
  /\ UNCHANGED <<offJob, tables, children, doomed, pidfds, procs, sent>>

\* (mutant of RecheckOk: take_pending moved before cleanup_child)
RecheckOkDroppingFirst(i) ==
  /\ pc[i] = "ready"
  /\ GoTo(i, IF ok THEN "register" ELSE "cleanup")
  /\ IF ok THEN UNCHANGED tables ELSE Forget(i)
  /\ UNCHANGED <<offJob, owned, procs, sent>>

\* rclcpp::ok() is looked at again once the child is ready.
RecheckOk(i) ==
  /\ pc[i] = "ready"
  /\ GoTo(i, IF ok THEN "register" ELSE "cleanup")
  /\ UNCHANGED <<offJob, tables, owned, procs, sent>>

\* cleanup_child on the worker: SIGTERM, half a second, SIGKILL, reap.
CleanupSpawn(i) ==
  /\ pc[i] = "cleanup"
  /\ Reap(i) /\ Release(i)
  /\ GoTo(i, "drop")
  /\ UNCHANGED <<offJob, tables, children, doomed, said, sent>>

\* take_pending on the two paths that shutdown cuts short; nothing is sent.
DropPending(i) ==
  /\ pc[i] = "drop"
  /\ Forget(i) /\ GoTo(i, "done")
  /\ UNCHANGED <<offJob, owned, procs, sent>>

\* children_[node_id] = std::move(child)
Register(i) ==
  /\ pc[i] = "register"
  /\ children' = children \cup {i}
  /\ GoTo(i, "untrack")
  /\ UNCHANGED <<offJob, tables, doomed, pidfds, params, procs, sent>>

\* take_pending on the path that succeeded: a cancel flag raised since the
\* fork is thrown away.
Untrack(i) ==
  /\ pc[i] = "untrack"
  /\ Forget(i) /\ GoTo(i, "notify")
  /\ UNCHANGED <<offJob, owned, procs, sent>>

\* send_loaded, then the LOADED event.
ReportLoaded(i) ==
  /\ pc[i] = "notify"
  /\ Send(i, "loaded")
  /\ IF ok THEN Publish(i, "LOADED") ELSE UNCHANGED events
  /\ GoTo(i, "done")
  /\ UNCHANGED <<offJob, tables, owned, procs, resendOk>>

\* The exception handler: take_pending says whether this was a cancel ...
CatchFailure(i) ==
  /\ pc[i] = "catch"
  /\ Forget(i)
  /\ GoTo(i, IF i \in cancelled THEN "cancelled" ELSE "failed")
  /\ UNCHANGED <<offJob, owned, procs, sent>>

\* ... and, unless shutdown cuts it short, it is reported on both channels.
ReportFailure(i) ==
  /\ pc[i] \in {"failed", "cancelled"}
  /\ IF ok THEN /\ Send(i, pc[i]) /\ Publish(i, "LOAD_FAILED")
                /\ IF pc[i] = "cancelled" THEN AllowResend(i)
                                          ELSE UNCHANGED resendOk
           ELSE UNCHANGED sent
  /\ GoTo(i, "done")
  /\ UNCHANGED <<offJob, tables, owned, procs>>

\* A worker thread exits.  Its children were armed with PR_SET_PDEATHSIG,
\* which fires when the thread that forked them exits.
WorkerExit(w) ==
  /\ w \notin exited /\ ~Busy(w) /\ ~workersRunning
  /\ exited' = exited \cup {w}
  /\ proc' = [i \in Ids |-> IF runner[i] = w /\ proc[i] = "run"
                            THEN "zombie" ELSE proc[i]]
  /\ UNCHANGED <<tables, owned, flags, queue, pc, runner, reader, main, monitor,
                 said, sent>>

-----------------------------------------------------------------------------
(* The child processes (component_node): each constructs its component,    *)
(* writes one line to its ready pipe, and may die at any time.             *)

ConstructorEnds(i) ==
  /\ proc[i] = "run" /\ said[i] = "nothing"
  /\ \E line \in {"OK", "ERR"} : said' = [said EXCEPT ![i] = line]
  /\ UNCHANGED <<offSystem, monitor, proc, sent>>

ChildDies(i) ==
  /\ proc[i] = "run"
  /\ proc' = [proc EXCEPT ![i] = "zombie"]
  /\ UNCHANGED <<offSystem, monitor, said, sent>>

-----------------------------------------------------------------------------
(* monitor_loop and handle_child_death.                                    *)

Readable == {i \in pidfds : Dead(i)}

\* epoll_wait is level-triggered and returns at most MaxEvents of the
\* children that have exited.
MonitorWakes ==
  /\ ~monitorDone /\ batch = {} /\ Readable # {}
  /\ batch' \in SUBSET Readable
  /\ batch' = Readable \/ Cardinality(batch') = MaxEvents
  /\ Cardinality(batch') <= MaxEvents
  /\ UNCHANGED <<offSystem, monitorDone, procs, sent>>

\* (mutant of HandleDeath: children_.erase is forgotten)
HandleDeathWithoutErase(i) ==
  /\ i \in batch
  /\ batch' = batch \ {i}
  /\ IF i \in children
     THEN /\ Reap(i) /\ params' = params \ {i}
          /\ Send(i, "crashed") /\ Publish(i, "CRASHED")
     ELSE UNCHANGED <<proc, params, reports, events>>
  /\ UNCHANGED <<tables, children, doomed, pidfds, flags, jobs, reader, main,
                 monitorDone, said, resendOk>>

\* (mutant of HandleDeath: a pidfd of no known child is dropped from epoll)
HandleDeathDroppingStrays(i) ==
  /\ i \in batch
  /\ batch' = batch \ {i}
  /\ IF i \in children
     THEN /\ Reap(i) /\ Release(i)
          /\ children' = children \ {i}
          /\ Send(i, "crashed") /\ Publish(i, "CRASHED")
     ELSE pidfds' = pidfds \ {i} /\ UNCHANGED <<proc, params, children, reports,
                                                events>>
  /\ UNCHANGED <<tables, doomed, flags, jobs, reader, main, monitorDone, said,
                 resendOk>>

\* One critical section under children_mutex_: look up, reap, report, erase.
\* A child that is not found was unloaded, or is not registered yet.
HandleDeath(i) ==
  /\ i \in batch
  /\ batch' = batch \ {i}
  /\ IF i \in children
     THEN /\ Reap(i) /\ Release(i)
          /\ children' = children \ {i}
          /\ Send(i, "crashed") /\ Publish(i, "CRASHED")
     ELSE UNCHANGED <<proc, pidfds, params, children, reports, events>>
  /\ UNCHANGED <<tables, doomed, flags, jobs, reader, main, monitorDone, said,
                 resendOk>>

MonitorExit ==
  /\ ~monitorDone /\ batch = {} /\ ~monitorRunning
  /\ monitorDone' = TRUE
  /\ UNCHANGED <<offSystem, batch, procs, sent>>

-----------------------------------------------------------------------------
(* on_unload_node, on the executor thread.                                 *)

\* Refused while the load is pending, which changes nothing.
UnloadRequest(i) ==
  /\ mpc = "spin" /\ ok /\ i \in Given /\ ~Pending(i)
  /\ mpc' = "unload" /\ mid' = i
  /\ UNCHANGED <<offMain, owned, flags, targets, procs, sent>>

\* Under children_mutex_ throughout: out of the epoll set, cleanup_child, erase.
UnloadChild ==
  /\ mpc = "unload"
  /\ \/ /\ mid \notin children
        /\ mpc' = "spin" /\ mid' = 0
        /\ UNCHANGED <<children, pidfds, params, proc>>
     \/ /\ mid \in children
        /\ Reap(mid) /\ Release(mid)
        /\ children' = children \ {mid}
        /\ mpc' = "unloaded" /\ UNCHANGED mid
  /\ UNCHANGED <<offMain, doomed, flags, targets, said, sent>>

ReportUnloaded ==
  /\ mpc = "unloaded"
  /\ Send(mid, "unloaded")
  /\ IF ok THEN Publish(mid, "UNLOADED") ELSE UNCHANGED events
  /\ mpc' = "spin" /\ mid' = 0
  /\ UNCHANGED <<offMain, owned, flags, targets, procs, resendOk>>

-----------------------------------------------------------------------------
(* Shutdown: SIGTERM, main returning from spin(), and the destructor.      *)

Sigterm ==
  /\ ok /\ ok' = FALSE
  /\ UNCHANGED <<offMain, owned, active, workersRunning, monitorRunning, main,
                 procs, sent>>

\* spin() returns; control_->stop() clears active_ and joins the reader.
StopControl ==
  /\ mpc = "spin" /\ ~ok
  /\ mpc' = "joinReader" /\ active' = FALSE
  /\ UNCHANGED <<offMain, owned, ok, workersRunning, monitorRunning, mid,
                 targets, procs, sent>>

\* (mutant of StopMonitor: monitor_running_ is left set)
StopMonitorWithoutFlag ==
  /\ mpc = "joinReader" /\ rpc = "stopped"
  /\ mpc' = "joinMonitor"
  /\ UNCHANGED <<offMain, owned, flags, mid, targets, procs, sent>>

StopMonitor ==
  /\ mpc = "joinReader" /\ rpc = "stopped"
  /\ mpc' = "joinMonitor" /\ monitorRunning' = FALSE
  /\ UNCHANGED <<offMain, owned, ok, active, workersRunning, mid, targets,
                 procs, sent>>

JoinMonitor ==
  /\ mpc = "joinMonitor" /\ monitorDone
  /\ mpc' = "swap"
  /\ UNCHANGED <<offMain, owned, flags, mid, targets, procs, sent>>

\* terminate_children takes every child registered so far ...
SwapChildren ==
  /\ mpc = "swap"
  /\ doomed' = children /\ children' = {}
  /\ mpc' = "collect"
  /\ UNCHANGED <<offMain, pidfds, params, flags, mid, targets, procs, sent>>

\* ... and the pids of the children still constructing ...
CollectTargets ==
  /\ mpc = "collect"
  /\ targets' = doomed \cup {i \in Ids : phase[i] = "constructing"}
  /\ mpc' = "signal"
  /\ UNCHANGED <<offMain, owned, flags, mid, procs, sent>>

\* ... signals them one by one, a SIGTERM the child is free to ignore ...
SignalTarget(i) ==
  /\ mpc = "signal" /\ i \in targets
  /\ targets' = targets \ {i}
  /\ UNCHANGED <<offMain, owned, flags, mpc, mid, procs, sent>>

AllSignalled ==
  /\ mpc = "signal" /\ targets = {}
  /\ mpc' = "reap"
  /\ UNCHANGED <<offMain, owned, flags, mid, targets, procs, sent>>

\* ... and waits for those it swapped out, with SIGKILL after the deadline.
ReapDoomed(i) ==
  /\ mpc = "reap" /\ i \in doomed
  /\ Reap(i) /\ Release(i)
  /\ doomed' = doomed \ {i}
  /\ UNCHANGED <<offMain, children, flags, main, said, sent>>

StopWorkers ==
  /\ mpc = "reap" /\ doomed = {}
  /\ mpc' = "joinWorkers" /\ workersRunning' = FALSE
  /\ UNCHANGED <<offMain, owned, ok, active, monitorRunning, mid, targets,
                 procs, sent>>

JoinWorkers ==
  /\ mpc = "joinWorkers" /\ exited = Workers
  /\ mpc' = "sweep"
  /\ UNCHANGED <<offMain, owned, flags, mid, targets, procs, sent>>

\* cleanup_child for each child registered after terminate_children.
SweepChild(i) ==
  /\ mpc = "sweep" /\ i \in children
  /\ Reap(i) /\ Release(i)
  /\ children' = children \ {i}
  /\ UNCHANGED <<offMain, doomed, flags, main, said, sent>>

\* (mutant of EndDestructor: no sweep after the workers are joined)
EndDestructorWithoutSweep ==
  /\ mpc = "sweep"
  /\ mpc' = "end"
  /\ UNCHANGED <<offMain, owned, flags, mid, targets, procs, sent>>

EndDestructor ==
  /\ mpc = "sweep" /\ children = {}
  /\ mpc' = "end"
  /\ UNCHANGED <<offMain, owned, flags, mid, targets, procs, sent>>

\* The container is gone; what is left of its children goes its own way.
Terminated == mpc = "end" /\ UNCHANGED vars

-----------------------------------------------------------------------------
(* Specification. *)

ReaderStep == \/ SendAccepted \/ SubmitSpawn
              \/ QueryChildren \/ AnswerUnknown \/ KillVictim \/ ConfirmCancel

\* The steps of a job that wait for nothing but what is in their guards.
PromptStep(i) == \/ PassGate(i) \/ ReportPreCancel(i)
                 \/ Fork(i) \/ ForkFails(i) \/ NoteConstructing(i)
                 \/ ChildReady(i) \/ GiveUp(i)
                 \/ RecheckOk(i) \/ CleanupSpawn(i) \/ DropPending(i)
                 \/ Register(i) \/ Untrack(i) \/ ReportLoaded(i)
                 \/ CatchFailure(i) \/ ReportFailure(i)

JobStep(i) == PromptStep(i) \/ ChildGone(i)

\* No other child can be holding the write end of i's ready pipe.
NoSibling(i) == \A j \in Ids \ {i} : proc[j] # "run"

DestructorStep == \/ StopControl \/ StopMonitor \/ JoinMonitor \/ SwapChildren
                  \/ CollectTargets \/ AllSignalled \/ StopWorkers
                  \/ JoinWorkers \/ EndDestructor
                  \/ \E i \in Ids : SignalTarget(i) \/ ReapDoomed(i)
                                    \/ SweepChild(i)

Next == \/ \E s \in Seqs : LoadFrame(s)
        \/ OnLoadNode
        \/ \E i \in Ids : QueryFrame(i) \/ CancelFrame(i) \/ UnloadRequest(i)
        \/ ReaderStep \/ ReaderExit
        \/ \E i \in Ids : JobStep(i)
        \/ \E w \in Workers : TakeWork(w) \/ WorkerExit(w)
        \/ \E i \in Ids : ConstructorEnds(i) \/ ChildDies(i)
        \/ MonitorWakes \/ MonitorExit
        \/ \E i \in Ids : HandleDeath(i)
        \/ UnloadChild \/ ReportUnloaded
        \/ Sigterm \/ DestructorStep
        \/ Terminated

\* Every thread that can run eventually does, but a worker at the ready pipe is
\* sure of the end of file only when no other child is left.  Nothing obliges a
\* frame, a service call or SIGTERM to arrive, a child to die, or a constructor
\* to return.  stop() shuts the socket down, so the reader finds its end after
\* the finitely many frames it had already received: strong fairness.
Fairness ==
  /\ \A i \in Ids : /\ WF_vars(PromptStep(i) \/ (NoSibling(i) /\ ChildGone(i)))
                    /\ WF_vars(HandleDeath(i))
  /\ WF_vars(\E w \in Workers : TakeWork(w))
  /\ \A w \in Workers : WF_vars(WorkerExit(w))
  /\ WF_vars(ReaderStep)
  /\ SF_vars(mpc = "joinReader" /\ ReaderExit)
  /\ WF_vars(MonitorWakes) /\ WF_vars(MonitorExit)
  /\ WF_vars(UnloadChild \/ ReportUnloaded)
  /\ WF_vars(DestructorStep)

Spec == Init /\ [][Next]_vars /\ Fairness

\* What the components themselves must do for shutdown to end: a constructor
\* returns, throws or dies.
ConstructorsFinish == \A i \in Ids : WF_vars(ConstructorEnds(i))

FiniteConstructorsSpec == Spec /\ ConstructorsFinish

-----------------------------------------------------------------------------
(* Safety. *)

\* A component's process that is alive can always be found: its load is
\* pending, or it is one of the children.  This is what handle_control_query
\* relies on when it says `unknown`, looking first at the one table and then
\* at the other with nothing held in between, while the worker moves the load
\* from the one to the other.
NoUntrackedChild ==
  \A i \in Ids : proc[i] = "run" => Pending(i) \/ i \in children \cup doomed

\* When the supervisor has been told it may resend a load (`unknown`, or a
\* confirmed cancel), that load is over for good: not pending, not a child,
\* no process.  Resending it can then not run the component twice.
ResendIsSafe ==
  \A i \in resendOk : /\ ~Pending(i)
                      /\ i \notin children \cup doomed
                      /\ proc[i] # "run"

\* The pid of a registered child (in children_, or in the map swapped out of it)
\* is still that child's, alive or a zombie: whoever finds a child there, unload,
\* the monitor or the destructor, signals and reaps that child and no other
\* process, though three threads reap.  Nothing is said of a pid that was copied
\* while its child was constructing (a cancel's victim, terminate_children's
\* "constructing"): its worker may have reaped the child by the time of the kill.
ChildrenOwnTheirPids ==
  \A i \in children \cup doomed : proc[i] \in {"run", "zombie"}

Sent(i) == {reports[i][k] : k \in DOMAIN reports[i]}
Count(i, kinds) == Cardinality({k \in DOMAIN reports[i] : reports[i][k] \in kinds})

\* The channel tells one consistent story per load whatever races: acceptance
\* before anything else, one outcome, one ending, and an ending (a crash or
\* an unload) never of a load reported failed or cancelled.  The ROS events
\* tell one of the same stories, also when the channel is lost.
OneStory ==
  \A i \in Ids :
    /\ \/ events[i] \subseteq {"LOADED", "CRASHED"}
       \/ events[i] \subseteq {"LOADED", "UNLOADED"}
       \/ events[i] = {"LOAD_FAILED"}
    /\ \A k \in DOMAIN reports[i] : reports[i][k] = "accepted" => k = 1
    /\ Count(i, {"loaded", "failed", "cancelled"}) <= 1
    /\ Count(i, {"crashed", "unloaded"}) <= 1
    /\ Count(i, {"crashed", "unloaded", "failed", "cancelled"}) <= 1

\* A parameter file or a pidfd always has an owner that will release it: the
\* worker still spawning the child, or the child's entry in a map.
NoLeak ==
  \A i \in params \cup pidfds :
    \/ i \in children \cup doomed
    \/ pc[i] \in {"note", "wait", "ready", "register", "cleanup"}

\* When the destructor is through, no component process is left running and
\* no parameter file or pidfd is left behind, whatever was being spawned.
CleanExit ==
  mpc = "end" => /\ \A i \in Ids : proc[i] # "run"
                 /\ children = {} /\ doomed = {}
                 /\ params = {} /\ pidfds = {}

\* What the manager promises of a load, as LoadContract sees it.
StatusOf(i) == CASE Pending(i) -> "pending"
                 [] ~Pending(i) /\ i \in children \cup doomed -> "running"
                 [] ~Pending(i) /\ i \notin children \cup doomed ->
                      IF i \in Given THEN "over" ELSE "none"

Contract == INSTANCE LoadContract
              WITH status <- [i \in Ids |-> StatusOf(i)]

\* What a worker knows of the spawn it runs for a load, and what has become of
\* the process, as SpawnContract sees them.  A job that shutdown cuts short
\* before the fork is dropped while its spawn still waits.
Untried(i) == \/ pc[i] \in Unstarted \cup {"gate", "precancel", "fork"}
              \/ pc[i] = "drop" /\ proc[i] = "none"

SpawnOutcome(i) == IF Untried(i) THEN "waiting"
                   ELSE IF pc[i] \in {"note", "wait"} THEN "spawning"
                   ELSE IF said[i] = "OK" THEN "ready" ELSE "failed"

ProcessOf(i) == IF Dead(i) THEN "ended" ELSE proc[i]

Spawning == INSTANCE SpawnContract
              WITH Spawns <- Ids,
                   alive <- (mpc # "end"),
                   outcome <- [i \in Ids |-> SpawnOutcome(i)],
                   process <- [i \in Ids |-> ProcessOf(i)],
                   constructed <- {i \in Ids : said[i] = "OK"}

\* The manager keeps the abstract promise of LoadContract, and its workers
\* spawn by SpawnContract, the one that pipe, signal and poll implement: a job
\* goes on to register a child only when its component was constructed, fails
\* only when its process is gone, and none is left when the container ends.
ImplementsContract == Contract!Spec /\ Spawning!Spec

-----------------------------------------------------------------------------
(* Liveness. *)

Outcome(i) == Sent(i) \cap {"loaded", "failed", "cancelled"} # {}

\* With a deadline set, a load given out is eventually answered with an outcome,
\* unless SIGTERM or the loss of the channel intervenes: no load waits for ever in
\* the queue, behind a pool of wedged constructors, at a ready pipe whose end of
\* file a sibling holds back, or for a report a worker forgot.  (With none, a load
\* may wait as long as its child, or a sibling's, lives.)
EveryLoadResolves ==
  HasDeadline => \A i \in Ids : Pending(i) ~> (Outcome(i) \/ ~ok \/ ~active)

\* A child whose pidfd the monitor watches and that has died is eventually
\* reaped and its end reported, although the monitor may wake for it before it is
\* registered and then finds nobody.  A child without a pidfd, and every child of
\* a manager without a monitor, is not watched: nobody reports its crash.
CrashIsReported ==
  \A i \in Ids :
    (i \in pidfds /\ ~monitorDone /\ proc[i] = "zombie") ~>
      \/ proc[i] = "reaped" /\ Sent(i) \cap {"crashed", "unloaded"} # {}
      \/ ~ok \/ ~active

\* After SIGTERM the destructor comes to its end: every join and every wait
\* in it is one that ends.
ShutdownFinishes == ~ok ~> mpc = "end"

-----------------------------------------------------------------------------
(* What comments in the code say and the code does not keep.  The README   *)
(* tells the story of each counterexample.                                 *)

\* "A cancel that is silently dropped is a load that never resolves"
\* (cim:1397-1398), "Queued, not yet forked: the worker will see the flag and
\* report" (cim:1424): a load with its cancel flag up leaves pending.
CancelIsAnswered == \A i \in Ids : i \in cancelled ~> (i \notin cancelled \/ ~ok)

=============================================================================
