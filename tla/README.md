# A TLA+ verification of play_launch_container

`play_launch_container` is a ROS 2 component container that runs every
composable node in a process of its own and reports to a supervisor,
`play_launch`, over a socket. This directory holds TLA+ models of it, the TLC
runs that check them on small instances, and TLAPS proofs of the properties that
matter most, for every value of the constants.

File abbreviations used here and in the modules' comments:
`cim` = `src/clone_isolated_component_manager.cpp`, `cc` =
`src/control_channel.cpp`, `cn` = `src/component_node.cpp`, `cm` =
`src/component_container.cpp`, `cv` = `src/clone_vm_component_manager.cpp`, `ob` =
`src/observable_component_manager.cpp`, `cj` = `src/control_json.cpp`, each in the
repository; headers are in `include/play_launch_container/`.

## 1. The system

### Components

| component | state it keeps | operations | status |
|---|---|---|---|
| **Isolated component manager** (`cim`) | `unique_id_`, `pending_loads_` (phase, pid, cancel flag), `seq_to_id_`, `children_`, `work_queue_`, the pidfd epoll set, parameter files, stop flags | LoadNode and UnloadNode services; load, query, cancel frames; worker pool; child spawn; crash monitor; destructor | modelled (`IsolatedManager`, `SpawnChild`, `ParamsFile`; what they promise in `LoadContract`, `SpawnContract`) |
| **Control channel** (`cc`) | `fd_`, `active_`, handlers, backlog of frames held back, the reader thread, `write_mutex_` | hello, reader, dispatch, replay, `send_*`, `stop` | modelled (`ControlChannel`, its promise in `ChannelContract`; parameters in `ParamsFile`) |
| **Component process** (`cn`) | the library, the node, the ready pipe | load, construct, write `OK`/`ERR`, spin | partly: its life as the container sees it |
| **Container program** (`cm`) | the order of construction and teardown | main | partly: the main thread of `ControlChannel` and `InProcessManager` |
| **Observable manager** (`ob`) | `node_wrappers_` of the base class, event publisher | load, unload on the executor; load, query, cancel frames on the reader; destructor | modelled (`InProcessManager`) |
| **Clone-VM manager** (`cv`) | the same, and `children_`: executor, stack, TLS and pid of each child | add, remove, stop_child, destructor; child_main | modelled (`InProcessManager`), without the TLS layout |
| **Control JSON codec** (`cj`) | none | parse, typed reads, quote, ObjectWriter | modelled (`JsonStrings`, `StringLoop`, `ControlJson`, `CodecTexts`) |
| **SlowLoader, unit tests** | none | a constructor that sleeps; codec tests | not modelled |
| **Supervisor** (external) | what it asked and heard | load, query, cancel, read, hang up | the environment of `ControlChannel` and `IsolatedManager` |

### How they interact

The supervisor writes frames to the channel's socket. The channel's *reader*
thread decodes them and calls the manager's handlers, or holds them in a backlog
until `main` installs the handlers. A load handler reserves a unique id and
queues a job; a *worker* passes the memory gate, forks a component process,
waits for one line on its ready pipe, and moves the load from `pending_loads_` to
`children_`. The *monitor* thread sleeps in `epoll_wait` on the children's
pidfds and reports crashes. Services and, after SIGTERM, the destructor run on
the *executor* thread. All of them send on the one socket under `write_mutex_`.

In the two other modes the components live in the container. The base class loads
and unloads them on the executor and keeps them in `node_wrappers_`; the reader's
query handler looks into that table without a lock. The clone-VM manager starts, for
each component, a process that shares the container's memory and spins an executor
of its own; it is stopped with `cancel()` and never with a signal, and its memory is
the container's to give back.

### What is hard here

* The same load is known to two tables with a lock each; the query handler looks
  at one and then at the other while the worker moves it.
* A cancel may arrive at any of the worker's steps; whom it kills or flags depends
  on what the worker has published so far.
* A child may die, be unloaded or be stopped before its own worker has finished
  reporting it, and its pidfd is readable before it is registered.
* The destructor stops four kinds of thread in an order, each of which may be
  blocked on something else.
* Frames arrive before the handlers exist and while the backlog is replayed.
* Descriptors are shared by threads and inherited by processes.
* A child may be orphaned between `fork` and `prctl`.
* A table is walked by one thread while another changes it.
* Memory that a process uses is given back by another, which can only wait and
  give up.
* A parameter changes its notation three times on its way: JSON, message, YAML.

`PROJECT.json` lists these hazards at their lines, with the properties for each.

### What makes each component correct

* *Manager*: a component alive can always be found; leave to resend is given only
  for loads that are over; with a deadline every load is answered; the crash of a
  watched child is reported; one consistent story per load; shutdown ends and leaves
  nothing behind; a registered child's pid is still its own.
* *Channel*: each frame is handled exactly once, the held ones in order; frames on
  the wire are whole; the descriptor is not used after it is closed; every request
  is handled and every load answered; `stop` ends.
* *Spawn*: what a worker is told of its child is true, and a failed spawn leaves no
  process behind; no component outlives the container; a silent death is noticed; the memory gate never blocks for good.
* *In-process managers*: no handler runs on a destroyed manager; the supervisor knows
  what is loaded, and an answer no change came across is true; what a clone child
  uses is not given back while it runs; unloads and the destructors end.
* *Codec*: the parser takes the grammar and nothing else; strings, frames and integers
  read back as they were written; a parameter reaches the component in its type and
  with its value.

## 2. The modules

| module | models |
|---|---|
| `LoadContract` | the abstract promise: an id is pending, then running or over, never back; `resendOk` only of loads that are over |
| `IsolatedManager` | the manager, its threads and children, one step per critical section or system call |
| `ControlChannel` | one channel and its four kinds of user: reader, main, other senders, the supervisor at the far end |
| `ChannelContract` | the abstract promise: a request is handled once at most, answered once at most and not before it was handled; messages arrive whole and in order |
| `SpawnChild` | the memory gate and `spawn_child_process` for several workers at once, system call by system call, with the children's side up to the ready line |
| `SpawnContract` | the abstract promise: ready only with a component constructed, failed only with the process ended, no component without a container |
| `InProcessManager` | the observable and the clone-VM manager: main, reader and the children, and who owns which memory |
| `JsonStrings` | one character of a string as the codec reads and writes it, as operators |
| `StringLoop` | a string literal from its writer to `parse_string`, one character at a time |
| `ControlJson` | parser, typed reads and writer of the control channel's JSON, as operators |
| `ParamsFile` | `parameter_from_json`, `write_params_file`, and the YAML reader at the other end (external), as operators |
| `CodecTexts` | the texts these operators are checked on, and what they promise |
| `MC*` | the symmetry sets and bounds for TLC; all values of constants are in the `.cfg` files |
| `IsolatedManagerProofs`, `ControlChannelProofs`, `SpawnChildProofs`, `InProcessManagerProofs` | each state machine's inductive invariant, its type and first safety theorems; in `SpawnChildProofs` also the contract |
| `IsolatedManagerRefinement`, `ControlChannelRefinement` | that manager and channel implement their contracts, the manager that of the spawn as well; in the channel's also where each frame is |
| `IsolatedManagerOutcomes` | what the manager leaves behind, and what it tells of a load |
| `StringLoopProofs` | that a string is read as it was meant |

Operators marked "(mutant of X: ...)", or "the defect of ..." in the codec's modules, are alternative bodies of `X` that stand for a
plausible bug; they occur in no specification. Each property of a passing run has
one that violates it, listed in `PROJECT.json`.

### IsolatedManager

| variables | code |
|---|---|
| `uniqueId`, `seqToId`, `phase`, `cancelled` | `unique_id_`, `seq_to_id_`, `pending_loads_` |
| `children`, `doomed` | `children_`, and the map `terminate_children` swaps it into |
| `pidfds`, `params` | open pidfds, in the epoll set if there is one; parameter files on disk |
| `queue`, `pc`, `runner`, `exited` | `work_queue_`, where `submit_spawn` is for each load, in which worker; threads that returned |
| `rpc`, `rid` | the reader inside a handler, between two critical sections |
| `mpc`, `mid`, `targets` | the executor in UnloadNode or in the destructor; the pids `terminate_children` collected |
| `batch`, `monitorDone` | events `epoll_wait` returned; there is no monitor thread or it has returned |
| `proc`, `said` | the child's process; its ready line |
| `reports`, `events`, `resendOk` | what was sent and published, and what the supervisor may conclude |

Actions are named after what the code does there (`Reserve`, `KillVictim`,
`NoteConstructing`, `Register`, `HandleDeath`, `SwapChildren`, ...); `map` in
`PROJECT.json` gives the lines of each.

Abstractions, each with its reason:

* A handler's look at a table and the send that follows without shared state in
  between is one step where nothing else can tell; the channel send and the ROS
  event of the same outcome are one step. Publishing does not throw.
* `on_load_node` is one step: its id is known to nobody else until it returns, and
  service callbacks exclude each other.
* A LoadNode or load frame refused because the plugin does not exist changes
  nothing and is no action; neither is a query answered `constructing`, `loaded`
  or with progress. `on_list_nodes` only reads.
* Every load has a parameter file (in the code it may have none).
* SIGTERM has no obligatory effect on a child: its constructor may ignore it. A
  child may die at any time.
* End of file on the ready pipe (`ChildGone`) is possible once the child is dead, and
  sure to come only when no other child is left (`NoSibling`): a sibling may have
  inherited the write end. Which siblings have it, `SpawnChild` says (finding
  `gives_up_on_dead`); here every live child may, also one registered long ago.
* `epoll_create1` and `eventfd` may fail, and the manager then has no monitor
  (`Init`); `pidfd_open` may fail, and the child is registered without a pidfd
  (`ChildReady`). The code goes on in both cases ("child crash monitoring disabled"),
  and nobody reports a crash of such a child: `CrashIsReported` is about the others.
  `epoll_ctl`, whose result the code ignores, does not fail.
* `pipe()` and `fork()` may fail (`ForkFails`); the parameter file written before and
  unlinked after is one step with the failure.
* A supervisor's sequence numbers are its own: no load frame repeats one. The reader
  finds `seq_to_id_` as it is, and queries are by id.
* `MaxId` bounds the ids given out; the code's wrap at 2^64 is out of bounds.

### ControlChannel

`inbox` is what the supervisor has sent, `out` the half-frames in the socket buffer
(header and payload are two writes), `at[t]`/`msg[t]` each sender inside
`send_raw`, `backlog`/`replay`/`handlers` the frames held back, `rstage`/`rframe`
the reader, `mstage` main from the hello to the end of `stop`, `shut`/`closed` the
socket and the descriptor, `taken` the loads whose handler accepted them. The
manager's handlers are their answers only: a load is accepted or rejected, a query
answered from `taken` or, when its handler throws, not at all. A cancel is answered
(`settled`: a status, a refusal, or `load_failed` from `deliver`), or not, as by the
isolated manager for a load that is still pending; what its worker sends later is one
of the reports. The supervisor waits for the hello, asks
about loads it sent, cancels loads that were accepted, and may hang up or stop
reading at any time. `held` and `handled` are history. Encoding and fault injection
by environment variable are left out.

Bounds: `Room` half-frames in the buffer; each frame asked once; each thread of
`Senders` reports once.

### SpawnChild

`writers[s]` is the set of processes that hold the write end of `s`'s ready pipe: the
pipe is not close-on-exec, so a sibling forked between `pipe()` and `close()`
inherits it. `armed` are the children whose death signal will fire. `avail` is
MemAvailable, of which a component takes one unit. `env` is what the container was
started with and never changes: the memory floor, the ready deadline, and whether
SIGCHLD leaves zombies (`autoReap`; nothing in the repository sets it).

### InProcessManager

| variables | code |
|---|---|
| `mode` | which manager `main` made |
| `nextId`, `wrappers` | `unique_id_` and the keys of `node_wrappers_`, in the base class |
| `mpc`, `mid`, `polls` | main in on_load_node, on_unload_node, stop_child or a destructor; the component; `elapsed` / 100 |
| `leaving`, `todo` | which caller `stop_child` returns to; the children the destructor's loop has still to visit |
| `children`, `execs`, `stacks` | `children_`; executors that exist; stacks and TLS blocks that are mapped |
| `child`, `spinning` | the clone process; the `spinning` flag of its executor, which `cancel()` clears |
| `rpc`, `rframe` | the reader in a handler, between finding an entry and using it |
| `reports`, `events` | what the channel and the topic have said of each id |
| `givenUp`, `changed` | history |

A data race is modelled by its outcomes: a walk through `node_wrappers_` while main
changes it may miss any entry or find the one on its way in or out (`Find`), an erased
entry may still be read (`AnswerLoaded`), and any of it may end the container
(`RaceKills`). The base class's constructor call need not return; a child need not
leave its callback. `cancel()` before `spin()` is lost. The lock `mutex_` is left out:
only main takes it. The steps of a child that was given up go on as before, although
the code has destroyed its executor (finding `executor_freed`): what such a child does
is undefined. Only `ChildrenLeaveInTheEnd` speaks of it, and there supposes that the
executor is still usable. The supervisor stays and speaks the same protocol version, and
takes what it is sent: a reader blocked in `send_raw` is `ControlChannel`'s. A constructor
that throws, and one whose id is not given back, is
one outcome, `failed`.

### The codec

A text is a sequence of symbols; a symbol is a character, or a run of characters the
code never splits (a literal, four hex digits, a name). UTF-8 is a name for each
character. Integers have `Width` bits and bytes `ByteWidth`, for 64 and 8. A double is
its decimal digits and a power of ten: rounding to 53 bits is left out, as no claim is
about it. `Truncated` returns the *set* of what an undefined conversion may give.
`CodecTexts` grows a text of each kind piece by piece; its properties compare the code
with a second, independent definition: the grammar as a set of texts (cut at commas
and brackets, not read from left to right), or the value that went in.

String literals have a state machine of their own, `StringLoop`, because they have no
bound and a proof of them needs steps. The writer puts down one piece at a time (a plain
character, a short escape, or a `\u` escape) and knows what it means: `meaning` is the
string spelled so far, in which a low half behind a high half makes the two one character.
Then it closes the literal, or leaves it spoilt. The reader is the loop of `parse_string`:
`at` is `i_`, `out` what it has appended, and each turn is `Character` of `JsonStrings`, the same
operator the parser of `ControlJson` uses. `log`, the pieces and where they lie, and `whole`
are history. In `CodecTexts` it is one of the kinds of text, and the parser of `ControlJson`
is checked to agree with it.

## 3. The runs

| run | instance | what it shows |
|---|---|---|
| `isolated_safety` | 2 ids, 1 sequence number (the other load comes by service), 2 workers, a deadline, with and without a monitor and pidfds; 7.9M states | type, `NoUntrackedChild`, `ResendIsSafe`, `ChildrenOwnTheirPids`, `OneStory`, `NoLeak`, `CleanExit` |
| `isolated_liveness` | 2 ids by service, 1 worker, a deadline, constructors that may hang, with and without a monitor and pidfds; 0.5M states | every load resolves, the crash of a watched child is reported |
| `isolated_shutdown` | 1 load, 2 workers, all frames | the manager implements `LoadContract`, and its jobs and children `SpawnContract`; the destructor ends, whenever SIGTERM comes |
| `channel` | 1 load with its query and cancel, a reporting thread, foreign hello, oversized frame, room for one half-frame, SIGPIPE ignored or not; 0.5M states | the channel implements `ChannelContract`; whole frames, no use after close, each frame in one place, held frames in order; `stop` ends although the supervisor may stop reading; if it keeps reading, every request is handled and every load answered |
| `spawn` | 2 spawns in memory for one, two polls, every setting of floor, deadline and reaping | no orphan, the spawn implements `SpawnContract`; orphans exit, the gate is passed; where there is a deadline or no zombies, a death is noticed even when the end of file is held back |
| `in_process` | 2 components under either manager, 2 polls, every frame; 0.2M states | handlers run on a living manager; stacks, executors and nodes outlive the children that use them, given-up ones apart; the supervisor knows the table; frames are answered, unloads and the destructors end, children leave in the end |
| `codec` | every text of up to five pieces (documents) or four (literals, numbers, strings), literals also spoilt, eight-bit integers; 2.1M states | the grammar, UTF-16, frames, exact integers, and parameters end to end |
| `cancel_answered`, `shutdown_hangs`, `unknown_is_final`, `gives_up_on_dead`, `executor_freed` | one load or component, or two spawns | *violations*: claims of comments the code does not keep, section 5 |

Why these bounds are enough: every property is about one load or one frame at a
time, and what can disturb it is the other threads, all of which are present. Two
loads are needed for a worker to be busy with another one, for two workers to
interleave, and for a monitor batch to be smaller than the number of deaths
(`MaxEvents` = 1). Two spawns are the least in which a sibling holds a pipe's write end.
One worker is the least pool that a hung constructor can wedge, with the second load
queued behind it; a sibling that holds back an end of file needs no second worker in
`IsolatedManager`, where every live child may be one. The channel's instance has one load: it sends three frames of different kinds, which is
what the order of the backlog is about. Two components are needed for the destructor to
stop one child after another and for a change of the table to disturb a query for
something else; what is polled twice has polled, and given up, at least once. In the
codec, three nested brackets, a high half in front of a pair, a number with sign, point,
fraction and exponent, and a string with a quote, its escape and a break all fit in the
pieces. The invariants that are proved do not depend on the bounds at all. `Workers` in
the manager's runs without temporal properties are interchangeable (symmetry).

### Fairness

* Weak fairness for every step of a thread that is not waiting: threads run.
* Strong fairness for the reader's exit once `stop` has shut the socket down: it
  first reads the finitely many frames already received, and then finds the end.
* In `InProcessManager`, weak fairness for main's own steps and for the reader's, which
  run as long as the container lives, and none for a constructor's return.
  `ChildrenLeaveInTheEnd` takes the children's fairness as its hypothesis; the other
  liveness properties do without.
* None for frames, service calls, SIGTERM, deaths, hang-ups and writes that fail.
* In `IsolatedManager`, none for an end of file while another child lives.
* None for constructors, except in `FiniteConstructorsSpec`, where each of them
  returns, throws or dies: `ShutdownFinishes` needs it, because without a deadline the
  code waits as long as the child lives. `EveryLoadResolves` does without, and needs
  the deadline instead: where there is none, a load may wait for ever for its own
  constructor or for a sibling's end (findings 1, 2 and 4).
* None for the supervisor's reading; `EveryRequestIsServed` takes it as its
  hypothesis (`WF_vars(Listen) => ...`), `StopFinishes` does without.

## 4. The proofs

TLAPS checks, for every value of the constants that satisfies the named assumptions:

| theorem | statement |
|---|---|
| `IsolatedManagerProofs!TypeCorrect` | `Spec => []TypeOK` |
| `IsolatedManagerProofs!NoChildEscapes` | `Spec => []NoUntrackedChild` |
| `IsolatedManagerProofs!NoDoubleLoad` | `Spec => []ResendIsSafe` |
| `IsolatedManagerProofs!OwnPids` | `Spec => []ChildrenOwnTheirPids` (registered children; not the pids copied from `pending_loads_`) |
| `IsolatedManagerRefinement!KeepsContract` | `Spec => ImplementsContract` |
| `IsolatedManagerOutcomes!NothingLeaks` | `Spec => []NoLeak` |
| `IsolatedManagerOutcomes!ExitIsClean` | `Spec => []CleanExit` |
| `IsolatedManagerOutcomes!StoriesAgree` | `Spec => []OneStory` |
| `ControlChannelProofs!TypeCorrect` | `Spec => []TypeOK` |
| `ControlChannelProofs!NoInterleavedWrites` | `Spec => []FramesWhole` |
| `ControlChannelProofs!DescriptorIsOurs` | `Spec => []NoUseAfterClose` |
| `ControlChannelRefinement!FramesAreInOnePlace` | `Spec => []OnePlace` |
| `ControlChannelRefinement!HeldFramesInOrder` | `Spec => []HeldInOrder` |
| `ControlChannelRefinement!KeepsContract` | `Spec => ImplementsContract` |
| `SpawnChildProofs!TypeCorrect` | `Spec => []TypeOK` |
| `SpawnChildProofs!NoOrphans` | `Spec => []NoOrphan` |
| `SpawnChildProofs!EofIsDeath` | `Spec => []EofMeansDead` |
| `SpawnChildProofs!KeepsContract` | `Spec => ImplementsContract` |
| `InProcessManagerProofs!TypeCorrect` | `Spec => []TypeOK` |
| `InProcessManagerProofs!StacksStay` | `Spec => []StackOutlivesChild` |
| `InProcessManagerProofs!ExecutorsStay` | `Spec => []ExecutorOutlivesChildUnlessGivenUp` |
| `InProcessManagerProofs!HandlersAreSafe` | `Spec => []HandlersRunOnALiveObject` |
| `InProcessManagerProofs!SupervisorIsTold` | `Spec => []SupervisorKnows` |
| `InProcessManagerProofs!QuietQueriesAreTrue` | `Spec => QuietAnswersAreTrue` |
| `StringLoopProofs!StringsAreRead` | `SpecString => []StringsDecodeAsUtf16` |
| `StringLoopProofs!QuoteIsAWriter` | what `quote` writes for a character is a piece that means it |

*The manager.* None of the invariants is inductive: that a running child is tracked
depends on where its worker is. The inductive invariant says, for each load, which
table entry, process, worker and owner go with each stage of its job (`pc`): before
the fork there is no process; from the fork to `register` the load is pending and is
no child; after `register` it is a child or has been taken out by the one thread
that reaps it; when the job is done it is not pending. To this come what the reader
may conclude of the id it holds between two critical sections (a load it found
pending and now does not find is a child or over: the worker never goes back), that
queue entries are distinct and unstarted, and that an id not given out has no state
at all. `Invariance` proves it action by action; the safety theorems follow from
it.

*The refinement.* `StatusOf` maps a load to `pending` while it is in
`pending_loads_`, `running` while only in `children_` or `doomed`, `over` afterwards.
Note that a load in both tables is still `pending`: registration is no step of the
contract, taking the load out of the pending table is, and it becomes `over` at once
when the child died meanwhile. Each action is one step of `LoadContract` or none.

*The manager's exit.* `ExitInv` follows a child's parameter file and its pidfd from hand
to hand: the worker has them until `Register`, the map of children afterwards, `doomed`
once the destructor has swapped the map, and nobody lets go before the next has them or
they are given back (`OwnerInv`). The manager's invariant knows the same of the process.
A job that has begun is in the hands of a worker that has not exited (`WorkerInv`), so
when all workers have (`LeavingInv`) no job is under way and nobody registers a child
behind the final sweep, which then leaves nothing.

*One story.* Four threads tell a supervisor of one load, and none looks at what another
has said. `StoryInv` says of each message who may *still* send it: how the load came out
is said only by the worker that ends the job, and the job has not ended before; that it
ended is said only by whoever took the child out of the map, so not while a map has it,
and of main on the way from there to its message. A failure is said only of a load that
no map has or will have. A step that sends nothing keeps this if it does not turn the
job back (`SilentStep`); the steps that send are few.

*The channel.* `CloseFd` takes `write_mutex_` after the reader was joined; a sender
reads `fd_` again with the mutex held. So when the descriptor is closed no thread
is between its header and its payload. That frames stay whole is carried by where the
stream stops: while both ends are open it stops inside a frame exactly if some thread
is between its two writes, which is then the one that holds `write_mutex_`, and the
last header is its own. After a hang-up or `shutdown` nothing is appended any more,
and what was left unfinished is the last thing in the stream.

*The channel's frames.* A frame is in the socket, with the reader, in the backlog,
being replayed or handled. The invariant (`PlacesInv`) says that these five, put
together, repeat nothing and are what was asked; each step moves a frame from one to
the next. For the order (`HeldInv`), that nothing is replayed before the handlers are
set and nothing is held back afterwards, and that what waits in backlog and replay is
the end of what was held, all before it having been handled in that order.

*The channel's contract.* `Wire` maps the stream to the messages whose payload is in it:
a message counts as sent when its *second* write is done, so a frame cut short by a
hang-up was never said. Besides whole frames and places the proof needs that every
message under way or said answers a request that was handled, and that no two of them
answer the same: the reader and main, which both call handlers, are at different frames,
and a thread in `send_raw` is at one message. That the supervisor hears in order is then
that reading a half-frame leaves `Wire` alone or takes its head.

*The spawn.* A child is armed from the moment it asks, if its parent lives; one that
has looked at `getppid()` and gone on is armed. A pipe's write end is held by the
container until `close`, and by its child until the line is said or the child dead.
Free memory does not go below zero because it and what the children took always make
`Total`, and at most one spawn is in the gate.

*The spawn's contract.* `Outcome` maps a worker's program counter to what it knows, `Process`
a child's stage to what is left of it: a spawn counts as `failed` only when its worker has
done its cleaning up, so each way out of the wait (an end of file, an `ERR` line, the
deadline, a poll that finds nobody) maps to `Fail`, and to a truth. What makes them so
differs: after `ERR` and the deadline the worker kills and reaps; an end of file is a
death because a live child that has said nothing holds its own pipe open (`PipeInv`), and a poll that finds nobody
because `kill` does not miss a live process. A component counts as
constructed once its child has written `OK`, and `SaidInv` says that nothing is in the
pipe before `execvp`, so that a constructed component that runs is past `getppid()`. When the container dies the step is
`Perish`, whose `gone` are the children with the death signal set: `ArmedInv` says that a
constructed component is among them.

*The manager and the spawn's contract.* `IsolatedManager` models a spawn too, more coarsely:
one step for the fork, one for the ready line. That its jobs and children also implement
`SpawnContract` ties the two models to one statement. `SpawnOutcome` maps `pc` to what the
worker knows; a job that shutdown drops before its fork still waits for its spawn, and
then counts as one that failed without a process. A process may be ended by
its worker, a cancel, an unload, the destructor, the exit of its worker, or itself; all of
these are `End`, which takes a set, since with a worker all its children go. The invariant needed (`SaidInv`) is that once the wait for
the ready line is over only children that said `OK` run: otherwise a late `OK` would turn a
spawn that failed into one that is ready. The container of the contract lives until the
destructor is through: `EndDestructor` is `Perish` with nothing left to take along, which
is where `ExitInv` comes in (no child runs, no worker is on a job, so nothing is forked or
constructed afterwards). What is proved is that each of the two models stays within the
contract; that a run of the detailed one could be put in place of the manager's coarse
steps is not.

*Strings.* The invariant (`LoopInv`) has two halves. `LayoutInv` is the writer's: the pieces
lie in the text end to end, each where `log` says, and each adds to the meaning what it
should. `ReaderInv` is the reader's: it stands between two pieces, never inside one and never
between the halves of a pair, and has read the meaning of those before. The lemma that
counts is `ReadsPiece`: one turn of the loop takes one piece, or two that make a pair.
Its cases are those of the code. Behind a high half the loop looks whether a `\u` follows;
`SecondHalf` says that what it sees there is then a piece of its own, as the backslash of
an escaped backslash with a "u" behind it is not, so that giving `i_` back leaves the reader between
two pieces again, also when the escape that was given back is itself a high half. No
induction over the string is needed, because every turn is a step.

*The in-process managers.* What a child uses is given back at four places, and none of
them looks at the child: `Forget` and `Erase` rely on `stop_child` having returned for the
component main is working on, `ClearChildren` and `Destroy` on the loop having visited all
of `children_`. The invariant carries this: in `forget` and `erase` the component is
*past* (its child has left or was given up); in the destructor every child that is no
longer in `todo` is, but for the one being stopped; once the loop is done all are. A child
that is not past is in `children_` and in `node_wrappers_`, and its executor exists.
That the supervisor knows the table is not inductive while main is between a change
of the table and its report: the invariant (`TableIsTold`) leaves out the one component
main is working on, and says of it what main is about to report. A query's finding
stays true until it is answered unless the table changed in between (`FindingHolds`).

Assumptions on constants: `BoundsAssumption`, `WorkersAssumption`,
`DeadlineAssumption`; `RoomAssumption`, `SendersAssumption`, `NobodyAssumption`,
`OtherAssumption`, `SigpipeAssumption`; `SpawnsAssumption`, `ContainerAssumption`,
`MemoryAssumption`, `PollsAssumption`, `SettingsAssumption`; `IdsAssumption`,
`ModesAssumption`, `GraceAssumption`, `NoFrameAssumption`. They say that a bound is a
number, a set of settings holds settings, the spawns are finitely many, and a
special value differs from the ordinary ones (`NobodyAssumption`: from a thread and from
a frame). The codec's `CharactersAssumption` says that the mark
for the end of a text is no character; its `WidthAssumption` and `KindsAssumption` are only checked.

*Model-checked only*: all liveness, which is out of the prover's reach, and of the codec
the grammar, the frames, the numbers and the parameter file, whose operators are
recursive. Every invariant and the contracts of the state machines are
proved. (`HeldInOrder` is stated on positions, not with `SelectSeq`, of which the provers
know nothing; TLC found the two forms equal on the run's states.)

## 5. What the code says and does not do

Each of these has a run in which TLC finds the counterexample.

1. **`cancel_answered`** (cim:1424). A worker has looked at the cancel flag for the
   last time and forks; a cancel arrives before `note_constructing` publishes the
   pid. The reader finds pid 0, sets the flag and leaves the answer to the worker,
   which now waits for the ready line and will look again only when the constructor
   ends. If it never does, the cancel is never answered.
2. **`shutdown_hangs`** (cim:1654). SIGTERM finds a worker before its fork, or a
   constructor that ignores it. `terminate_children` sends SIGTERM at most; the
   worker is joined without a deadline, and waits for a child nobody will kill.
3. **`unknown_is_final`** (cc:265). `set_handlers` installs the handlers and takes the
   backlog over under the mutex, and replays it without. A query read meanwhile is
   answered by the reader before main has delivered the load it asks for: `unknown`,
   and then the load is accepted. This is the double load control_channel.hpp:92-95
   says the order prevents.
4. **`gives_up_on_dead`** (cim:911). Worker 1 makes its pipe; worker 2 forks, and its
   child inherits the write end; child 1 dies. There is no end of file as long as
   child 2 lives, and `kill(pid, 0)` succeeds for the zombie. Without a deadline the
   worker waits as long as child 2 lives.

5. **`executor_freed`** (cv:378). A component's callback does not end within the grace
   period. `stop_child` leaves the child running and leaks its stack and TLS, so that it
   may go on; its caller then erases the `Child`, which destroys the executor the child is
   spinning, and the base class destroys the node. What holds is proved:
   `ExecutorOutlivesChildUnlessGivenUp`.

Known divergences that were found with the same models and have no run of their own:

* A child killed by a cancel after it wrote `OK` is reported `loaded` and then
  `crashed`, not `cancelled` (cim:1411-1414 promises one reporting path).
* `crashed` or `unloaded` may be sent before `loaded` (cim:1171, 1184; "it is
  ordered", cim:1180): `OneStory` deliberately does not forbid it.
* The reader (cim:1418) and the destructor (cim:1686) may signal a pid that the
  worker has reaped since it was copied, which cim:966-968 warns of.
* A child registered between the swap in `terminate_children` and the exit of the
  worker that forked it dies of that worker's exit (PR_SET_PDEATHSIG), before the
  sweep at cim:375-383 can stop it gently.
* A load cancelled before its fork publishes no LOAD_FAILED event (cim:1143-1152).
* With SIGPIPE at its default, a write to a supervisor that is gone ends the
  container (cc:98; cc:421-423 says it keeps running).
* Two spawns may fork on one measurement of memory: the admission mutex is released
  before the fork (cim:397-400 says it is held across both).
* A query is answered by the reader while main is inside the constructor of the load
  in question: "a load it is still running would not be answering this query at all"
  (ob:86-88) was true of a service. The id is not known to the supervisor yet, so the
  `unknown` is about its sequence number.
* `node_wrappers_` is read by the reader and written by main without a lock (ob:79).
* A component whose clone child cannot be made is reported `loaded` (cv:289-361), and one
  whose child has crashed stays loaded.
* `1e3` is read as 1 by `as_int64` (cj:92): strtoll stops at the `e`, has read a digit,
  and the double path the comment promises (cj:94-96) is not taken. `.5` does take it.
* An unknown type tag is kept in the parameter (cc:121-122), where the comment says it
  yields PARAMETER_NOT_SET (cc:112-113); the parameter file has `null` for both.
* A byte array comes back from YAML as an integer array (cim:571-579).
* A carriage return in a string, and an apostrophe or a break in an item of a string
  array, do not survive the parameter file (cim:549-565, 618); other control characters
  make libyaml refuse the whole file.

## 6. Plan

Done: all the managers, the channel, the spawn and the codec. Proved: every invariant of the
state machines, the contracts of manager, channel and spawn (the last of both models of a
spawn), and the loop that reads a string. What a later version could add, in this order:

1. `ContainerSystem`: `ChannelContract` composed with `LoadContract`, so that answers are
   the manager's and not chosen: resend safety over the socket from the two contracts
   that are proved of the parts; cancels whose handler throws (cc:301).
2. `IsolatedManager`'s spawn steps replaced by `SpawnChild`'s: both models of a spawn
   implement `SpawnContract`, and their composition would say which siblings hold an end
   of file back, and for how long, where the manager's model allows any live child to.
3. An abstract specification of the in-process managers (what the supervisor knows of the
   table, without the stacks, executors and polls), and the proof that
   `InProcessManager` implements it.
4. The brackets of a document as a state machine, as strings are now.
5. The argument list of a component process, from remapping rules and extra arguments.

## 7. Not modelled, and why

* The TLS layout and stack set-up of the clone-VM manager, `clone()` flags: memory
  layout is not a matter of states and steps.
* Remapping rules and extra arguments on their way into an argument list: pure data.
* The mutexes of rclcpp and the DDS library, which a crashed clone child may leave locked
  (cv:390), and the base class's own steps, which are external.
* What becomes of clone children when the container is killed, and a parameter file that
  is cut short by a full disk: nothing in the repository says what should happen.
* `thread_num`: main replaces its executor before it spins (cm:118-124).
* Choice of manager and executor by command line: configuration.
* Logging, progress messages while constructing, environment parsing (its results are
  constants of the models), fault injection for tests.
* Time: a timeout is a step that may happen, and periods are counted only where the
  code counts them (the memory gate's polls).

## 8. Running

    tlc -workers 2 -config IsolatedSafety.cfg MCIsolatedManager
    tlapm IsolatedManagerProofs.tla

`PROJECT.json` lists the module and the configuration of every run. Passing runs take
from a second to about three minutes.
