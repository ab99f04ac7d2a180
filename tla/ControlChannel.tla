---------------------------- MODULE ControlChannel ----------------------------
(***************************************************************************)
(* ControlChannel (control_channel.cpp): the socket between the supervisor *)
(* (play_launch, external) and the container.  In the container            *)
(*   - MAIN says hello before rclcpp::init, installs the handlers once the *)
(*     manager exists, replays what came meanwhile, and finally stop()s;   *)
(*   - the READER reads frames and hands them to the handlers;             *)
(*   - the SENDERS (workers, monitor, executor) report what they did.      *)
(* All of them write through send_raw: a header and a payload under        *)
(* write_mutex_.  What a handler decides is IsolatedManager's subject; here*)
(* a load is taken or rejected, and a query finds the loads that were taken*)
(***************************************************************************)
EXTENDS Integers, Sequences, FiniteSets

CONSTANTS Seqs,           \* sequence numbers of the supervisor's loads
          Senders,        \* the container's other threads that send
          OtherFrames,    \* subset of {"oldHello", "oversize"} that may arrive
          Room,           \* bound: chunks the socket's buffer holds
          Dispositions,   \* whether the container may ignore SIGPIPE
          Nobody          \* neither a thread, a sequence number nor a message

Threads == {"reader", "main"} \cup Senders

ASSUME RoomAssumption == Room \in Nat \ {0}
ASSUME SigpipeAssumption == Dispositions \subseteq BOOLEAN
ASSUME OtherAssumption == OtherFrames \subseteq {"oldHello", "oversize"}

\* What the supervisor sends, and what it is sent.
Requests == [kind : {"load", "query", "cancel"}, seq : Seqs]
Frames == Requests \cup [kind : OtherFrames, seq : {Nobody}]
Messages == [kind : {"accepted", "rejected", "known", "unknown", "settled"},
             of : Seqs]
              \cup [kind : {"report"}, of : Senders]
              \cup [kind : {"hello"}, of : {Nobody}]
Chunks == [part : {"header", "payload"}, msg : Messages]

ASSUME SendersAssumption == Senders \cap {"reader", "main"} = {}
ASSUME NobodyAssumption ==
  Nobody \notin Threads \cup Seqs \cup Frames \cup Messages

VARIABLES
  asked, heard,  \* supervisor: frames sent, messages received
  partial,       \* supervisor: the header it has read without its payload
  peerGone,      \* the supervisor's end is closed
  inbox, out,    \* the socket's two directions: frames, and chunks
  shut, closed,  \* shutdown(fd_) and close(fd_) were called
  alive,         \* the container was not killed by SIGPIPE
  sigpipeIgnored,\* the disposition of SIGPIPE it was started with
  active,        \* active_
  writer,        \* the holder of write_mutex_
  at, msg,       \* per thread: where in send_raw it is, and with what
  rstage, rframe,\* reader_loop, and the frame it has read
  handlers,      \* load_handler_ and the others are set
  backlog,       \* backlog_
  replay,        \* set_handlers' local list
  mstage,        \* main
  taken,         \* loads the manager took
  reported,      \* senders that have sent their report (bound: one each)
  held, handled  \* history: frames that were held back, frames handled

peer    == <<asked, heard, partial, peerGone>>
socket  == <<inbox, out, shut, closed>>
sending == <<writer, at, msg>>
routing == <<rstage, rframe, handlers, backlog, replay, mstage, held>>
work    == <<taken, reported, handled>>
proc    == <<alive, sigpipeIgnored>>
vars == <<peer, socket, proc, active, sending, routing, work>>

TypeOK ==
  /\ asked \subseteq Frames /\ heard \subseteq Messages
  /\ partial \in Messages \cup {Nobody} /\ peerGone \in BOOLEAN
  /\ inbox \in Seq(Frames) /\ out \in Seq(Chunks) /\ Len(out) <= Room
  /\ shut \in BOOLEAN /\ closed \in BOOLEAN
  /\ alive \in BOOLEAN /\ sigpipeIgnored \in Dispositions
  /\ active \in BOOLEAN
  /\ writer \in Threads \cup {Nobody}
  /\ at \in [Threads -> {"idle", "lock", "header", "payload"}]
  /\ msg \in [Threads -> Messages \cup {Nobody}]
  /\ rstage \in {"read", "frame", "handle", "stopped"}
  /\ rframe \in Frames \cup {Nobody}
  /\ handlers \in BOOLEAN
  /\ backlog \in Seq(Frames) /\ replay \in Seq(Frames)
  /\ mstage \in {"hello", "setup", "replay", "spin", "join", "close", "end"}
  /\ taken \subseteq Seqs /\ reported \subseteq Senders
  /\ held \in Seq(Frames) /\ handled \in Seq(Frames)

Init ==
  /\ asked = {} /\ heard = {} /\ partial = Nobody /\ peerGone = FALSE
  /\ inbox = <<>> /\ out = <<>> /\ shut = FALSE /\ closed = FALSE
  /\ alive = TRUE /\ sigpipeIgnored \in Dispositions
  /\ active = TRUE
  /\ writer = Nobody
  /\ at = [t \in Threads |-> "idle"] /\ msg = [t \in Threads |-> Nobody]
  /\ rstage = "read" /\ rframe = Nobody
  /\ handlers = FALSE /\ backlog = <<>> /\ replay = <<>>
  /\ mstage = "hello"
  /\ taken = {} /\ reported = {}
  /\ held = <<>> /\ handled = <<>>

-----------------------------------------------------------------------------
(* send_raw, in the thread t.                                              *)

\* Entry: a channel that is not active drops the message.
StartSend(t, m) ==
  IF active THEN at' = [at EXCEPT ![t] = "lock"] /\ msg' = [msg EXCEPT ![t] = m]
            ELSE UNCHANGED <<at, msg>>

\* Return from send_raw.
EndSend(t) == /\ at' = [at EXCEPT ![t] = "idle"]
              /\ msg' = [msg EXCEPT ![t] = Nobody]

\* (mutant of LockForWrite: the mutex is taken for one write, not for two)
LockForWriteShared(t) ==
  /\ at[t] = "lock"
  /\ \/ closed /\ EndSend(t) /\ UNCHANGED writer
     \/ ~closed /\ writer' = t
        /\ at' = [at EXCEPT ![t] = "header"] /\ UNCHANGED msg
  /\ UNCHANGED <<peer, socket, proc, active, routing, work>>

\* write_mutex_ is taken, and fd_ is read again under it.
LockForWrite(t) ==
  /\ at[t] = "lock" /\ writer = Nobody
  /\ \/ closed /\ EndSend(t) /\ UNCHANGED writer
     \/ ~closed /\ writer' = t
        /\ at' = [at EXCEPT ![t] = "header"] /\ UNCHANGED msg
  /\ UNCHANGED <<peer, socket, proc, active, routing, work>>

\* (mutant of WriteChunk: the write does not wait for room in the socket)
WriteChunkUnbounded(t) ==
  /\ at[t] \in {"header", "payload"}
  /\ ~peerGone /\ ~shut
  /\ out' = Append(out, [part |-> at[t], msg |-> msg[t]])
  /\ IF at[t] = "header"
     THEN at' = [at EXCEPT ![t] = "payload"] /\ UNCHANGED <<writer, msg>>
     ELSE EndSend(t) /\ writer' = Nobody
  /\ UNCHANGED <<peer, inbox, shut, closed, proc, active, routing, work>>

\* (mutant of WriteChunk: a call that was interrupted is made again)
WriteChunkAgain(t) ==
  /\ at[t] \in {"header", "payload"}
  /\ ~peerGone /\ ~shut /\ Len(out) < Room
  /\ out' = Append(out, [part |-> at[t], msg |-> msg[t]])
  /\ \/ at[t] = "header"
        /\ at' = [at EXCEPT ![t] = "payload"] /\ UNCHANGED <<writer, msg>>
     \/ at[t] = "payload"
        /\ at' = [at EXCEPT ![t] = "header"] /\ UNCHANGED <<writer, msg>>
     \/ at[t] = "payload" /\ EndSend(t) /\ writer' = Nobody
  /\ UNCHANGED <<peer, inbox, shut, closed, proc, active, routing, work>>

\* write_all of the header, then of the payload.
WriteChunk(t) ==
  /\ at[t] \in {"header", "payload"}
  /\ ~peerGone /\ ~shut /\ Len(out) < Room
  /\ out' = Append(out, [part |-> at[t], msg |-> msg[t]])
  /\ IF at[t] = "header"
     THEN at' = [at EXCEPT ![t] = "payload"] /\ UNCHANGED <<writer, msg>>
     ELSE EndSend(t) /\ writer' = Nobody
  /\ UNCHANGED <<peer, inbox, shut, closed, proc, active, routing, work>>

\* Nobody is at the other end any more: EPIPE, and the channel goes quiet ...
WriteFails(t) ==
  /\ at[t] \in {"header", "payload"} /\ (peerGone \/ shut)
  /\ sigpipeIgnored
  /\ active' = FALSE /\ writer' = Nobody /\ EndSend(t)
  /\ UNCHANGED <<peer, socket, proc, routing, work>>

\* ... unless SIGPIPE has its default disposition: write() raises it.
WriteKills(t) ==
  /\ at[t] \in {"header", "payload"} /\ (peerGone \/ shut)
  /\ ~sigpipeIgnored
  /\ alive' = FALSE
  /\ UNCHANGED <<sigpipeIgnored, peer, socket, active, sending, routing, work>>

\* A worker, the monitor or the executor reports something.
Report(t) ==
  /\ t \in Senders \ reported /\ mstage \notin {"hello", "setup"}
  /\ reported' = reported \cup {t}
  /\ StartSend(t, [kind |-> "report", of |-> t])
  /\ UNCHANGED <<peer, socket, proc, active, writer, routing, taken, handled>>

-----------------------------------------------------------------------------
(* deliver: the handler runs, in the reader or in main, and answers.       *)

\* The kinds of answer a frame may get from its handler, or from deliver when the
\* handler throws.  "settled" is whatever a cancel is answered with: that the load
\* failed, that the cancel is refused, or the load's status.
Answers(f) ==
  CASE f.kind = "load" -> {"accepted", "rejected"}
    [] f.kind = "query" -> {IF f.seq \in taken THEN "known" ELSE "unknown"}
    [] f.kind = "cancel" -> {"settled"}

\* Not every frame is answered: deliver is silent about a query whose handler
\* throws, and the manager about a cancel of a load that is still pending, which
\* it leaves to the worker to report.
Deliver(t, f) ==
  /\ at[t] = "idle"
  /\ handled' = Append(handled, f)
  /\ \/ \E kind \in Answers(f) :
          /\ taken' = IF kind = "accepted" THEN taken \cup {f.seq} ELSE taken
          /\ StartSend(t, [kind |-> kind, of |-> f.seq])
     \/ f.kind \in {"query", "cancel"} /\ UNCHANGED <<taken, at, msg>>

-----------------------------------------------------------------------------
(* The reader: reader_loop, dispatch, enqueue_or_deliver.                  *)

\* The next frame.  A hello of another protocol version ends the channel's
\* sends, a frame over the cap ends the reader.
ReadFrame ==
  /\ rstage = "read" /\ at["reader"] = "idle" /\ inbox # <<>>
  /\ inbox' = Tail(inbox)
  /\ LET f == Head(inbox) IN
       \/ /\ f.kind \in {"load", "query", "cancel"}
          /\ rstage' = "frame" /\ rframe' = f /\ UNCHANGED active
       \/ f.kind = "oldHello" /\ active' = FALSE /\ UNCHANGED <<rstage, rframe>>
       \/ /\ f.kind = "oversize"
          /\ rstage' = "stopped" /\ active' = FALSE /\ UNCHANGED rframe
  /\ UNCHANGED <<peer, out, shut, closed, proc, sending, handlers, backlog,
                 replay, mstage, held, work>>

\* (mutant of Route: the handlers count as set once the replay is over)
RouteUntilSpin ==
  /\ rstage = "frame"
  /\ IF mstage \in {"hello", "setup", "replay"}
     THEN /\ backlog' = Append(backlog, rframe) /\ held' = Append(held, rframe)
          /\ rstage' = "read" /\ rframe' = Nobody
     ELSE rstage' = "handle" /\ UNCHANGED <<backlog, held, rframe>>
  /\ UNCHANGED <<peer, socket, proc, active, sending, handlers, replay, mstage,
                 work>>

\* Under handler_mutex_: hold the frame back, or go on to deliver it.
Route ==
  /\ rstage = "frame"
  /\ IF ~handlers
     THEN /\ backlog' = Append(backlog, rframe) /\ held' = Append(held, rframe)
          /\ rstage' = "read" /\ rframe' = Nobody
     ELSE rstage' = "handle" /\ UNCHANGED <<backlog, held, rframe>>
  /\ UNCHANGED <<peer, socket, proc, active, sending, handlers, replay, mstage,
                 work>>

DeliverFrame ==
  /\ rstage = "handle"
  /\ Deliver("reader", rframe)
  /\ rstage' = "read" /\ rframe' = Nobody
  /\ UNCHANGED <<peer, socket, proc, active, writer, handlers, backlog, replay,
                 mstage, held, reported>>

\* End of file: what had arrived is read first, unless the peer reset it.
ReaderEnds ==
  /\ rstage = "read" /\ at["reader"] = "idle"
  /\ peerGone \/ (shut /\ inbox = <<>>)
  /\ rstage' = "stopped" /\ active' = FALSE
  /\ UNCHANGED <<peer, socket, proc, sending, rframe, handlers, backlog,
                 replay, mstage, held, work>>

-----------------------------------------------------------------------------
(* main.                                                                   *)

SendHello ==
  /\ mstage = "hello"
  /\ StartSend("main", [kind |-> "hello", of |-> Nobody])
  /\ mstage' = "setup"
  /\ UNCHANGED <<peer, socket, proc, active, writer, rstage, rframe, handlers,
                 backlog, replay, held, work>>

\* (mutant of SetHandlers: what was held back is not taken over)
SetHandlersOnly ==
  /\ mstage = "setup" /\ at["main"] = "idle"
  /\ handlers' = TRUE
  /\ backlog' = <<>> /\ UNCHANGED replay
  /\ mstage' = "replay"
  /\ UNCHANGED <<peer, socket, proc, active, sending, rstage, rframe, held,
                 work>>

\* set_handlers' critical section, once the manager exists.
SetHandlers ==
  /\ mstage = "setup" /\ at["main"] = "idle"
  /\ handlers' = TRUE
  /\ replay' = backlog /\ backlog' = <<>>
  /\ mstage' = "replay"
  /\ UNCHANGED <<peer, socket, proc, active, sending, rstage, rframe, held,
                 work>>

\* (mutant of ReplayFrame: the list is replayed from its end)
ReplayFrameBackwards ==
  /\ mstage = "replay" /\ replay # <<>>
  /\ Deliver("main", replay[Len(replay)])
  /\ replay' = SubSeq(replay, 1, Len(replay) - 1)
  /\ UNCHANGED <<peer, socket, proc, active, writer, rstage, rframe, handlers,
                 backlog, mstage, held, reported>>

ReplayFrame ==
  /\ mstage = "replay" /\ replay # <<>>
  /\ Deliver("main", Head(replay))
  /\ replay' = Tail(replay)
  /\ UNCHANGED <<peer, socket, proc, active, writer, rstage, rframe, handlers,
                 backlog, mstage, held, reported>>

ReplayDone ==
  /\ mstage = "replay" /\ replay = <<>> /\ at["main"] = "idle"
  /\ mstage' = "spin"
  /\ UNCHANGED <<peer, socket, proc, active, sending, rstage, rframe, handlers,
                 backlog, replay, held, work>>

\* (mutant of Stop: the socket is not shut down)
StopWithoutShutdown ==
  /\ mstage = "spin"
  /\ mstage' = "join" /\ active' = FALSE
  /\ UNCHANGED <<peer, socket, proc, sending, rstage, rframe, handlers,
                 backlog, replay, held, work>>

\* spin() has returned: stop() shuts the socket down and joins the reader ...
Stop ==
  /\ mstage = "spin"
  /\ mstage' = "join" /\ active' = FALSE /\ shut' = TRUE
  /\ UNCHANGED <<peer, inbox, out, closed, proc, sending, rstage, rframe,
                 handlers, backlog, replay, held, work>>

JoinReader ==
  /\ mstage = "join" /\ rstage = "stopped"
  /\ mstage' = "close"
  /\ UNCHANGED <<peer, socket, proc, active, sending, rstage, rframe, handlers,
                 backlog, replay, held, work>>

\* (mutant of CloseFd: it does not wait for write_mutex_)
CloseFdUnlocked ==
  /\ mstage = "close"
  /\ closed' = TRUE /\ mstage' = "end"
  /\ UNCHANGED <<peer, inbox, out, shut, proc, active, sending, rstage, rframe,
                 handlers, backlog, replay, held, work>>

\* ... and closes the descriptor under write_mutex_.
CloseFd ==
  /\ mstage = "close" /\ writer = Nobody
  /\ closed' = TRUE /\ mstage' = "end"
  /\ UNCHANGED <<peer, inbox, out, shut, proc, active, sending, rstage, rframe,
                 handlers, backlog, replay, held, work>>

-----------------------------------------------------------------------------
(* The supervisor, as the container's comments describe it.                *)

\* It holds its first load until it has heard the hello, asks about loads it
\* has sent, and cancels loads whose id it has been told.
MayAsk(f) ==
  CASE f.kind = "load" -> [kind |-> "hello", of |-> Nobody] \in heard
    [] f.kind = "query" -> [kind |-> "load", seq |-> f.seq] \in asked
    [] f.kind = "cancel" -> [kind |-> "accepted", of |-> f.seq] \in heard
    [] f.kind \in {"oldHello", "oversize"} -> TRUE

\* Every frame is sent at most once (bound).
Ask(f) ==
  /\ ~peerGone /\ ~shut /\ f \notin asked /\ MayAsk(f)
  /\ asked' = asked \cup {f} /\ inbox' = Append(inbox, f)
  /\ UNCHANGED <<heard, partial, peerGone, out, shut, closed, proc, active,
                 sending, routing, work>>

\* It reads a header, then the payload it announces.
Listen ==
  /\ ~peerGone /\ out # <<>>
  /\ out' = Tail(out)
  /\ LET c == Head(out) IN
       IF c.part = "header" THEN partial' = c.msg /\ UNCHANGED heard
       ELSE partial' = Nobody /\ heard' = heard \cup {c.msg}
  /\ UNCHANGED <<asked, peerGone, inbox, shut, closed, proc, active, sending,
                 routing, work>>

HangUp ==
  /\ ~peerGone /\ peerGone' = TRUE
  /\ UNCHANGED <<asked, heard, partial, socket, proc, active, sending, routing,
                 work>>

-----------------------------------------------------------------------------
(* Specification. *)

SendStep(t) == \/ LockForWrite(t) \/ WriteChunk(t) \/ WriteFails(t)
               \/ WriteKills(t)
ReaderStep == ReadFrame \/ Route \/ DeliverFrame \/ ReaderEnds
MainStep == \/ SendHello \/ SetHandlers \/ ReplayFrame \/ ReplayDone
            \/ JoinReader \/ CloseFd
Container == \/ \E t \in Threads : SendStep(t)
             \/ \E t \in Senders : Report(t)
             \/ ReaderStep \/ MainStep \/ Stop

Terminated == (mstage = "end" \/ ~alive) /\ UNCHANGED vars

Next == \/ alive /\ Container
        \/ \E f \in Frames : Ask(f)
        \/ Listen \/ HangUp
        \/ Terminated

\* The container's threads run, and a sender's messages are finitely many, so
\* a thread waiting for write_mutex_ gets it.  Nothing obliges the supervisor.
Fairness ==
  /\ \A t \in Threads : WF_vars(alive /\ SendStep(t))
  /\ WF_vars(alive /\ ReaderStep)
  /\ WF_vars(alive /\ MainStep)

Spec == Init /\ [][Next]_vars /\ Fairness

-----------------------------------------------------------------------------
(* Safety. *)

Announced == IF partial = Nobody THEN <<>>
             ELSE <<[part |-> "header", msg |-> partial]>>

\* What the supervisor has still to read, from the last header it has read on.
Stream == Announced \o out

\* Whoever sends, the supervisor reads whole frames: each header is followed
\* by its own payload, with no other thread's bytes in between.
FramesWhole ==
  \A k \in DOMAIN Stream :
    IF k % 2 = 1 THEN Stream[k].part = "header"
    ELSE Stream[k] = [part |-> "payload", msg |-> Stream[k - 1].msg]

\* The descriptor is closed only when no thread can be reading or writing it:
\* its number may already name another file.
NoUseAfterClose ==
  closed => /\ rstage = "stopped"
            /\ \A t \in Threads : at[t] \notin {"header", "payload"}

\* What is held back is handled in the order it came in, across kinds: whoever is
\* handled finds all that was held before it handled already.
HeldInOrder ==
  \A l \in DOMAIN held, n \in DOMAIN handled :
    handled[n] = held[l] =>
      \A k \in 1 .. (l - 1) : \E m \in 1 .. (n - 1) : handled[m] = held[k]

\* Every frame is in one place: on its way, held back, being handled, or
\* handled once.  None is lost between the reader and set_handlers, and none is
\* handled by both.
OnePlace ==
  LET places == inbox \o backlog \o replay \o handled
                  \o IF rframe = Nobody THEN <<>> ELSE <<rframe>>
  IN  \A f \in asked \cap Requests :
        Cardinality({k \in DOMAIN places : places[k] = f}) = 1

\* The request that a message answers; a greeting and a report answer none.
CauseOf(m) ==
  CASE m.kind \in {"accepted", "rejected"} -> [kind |-> "load", seq |-> m.of]
    [] m.kind \in {"known", "unknown"} -> [kind |-> "query", seq |-> m.of]
    [] m.kind = "settled" -> [kind |-> "cancel", seq |-> m.of]
    [] OTHER -> m

\* The messages whose payload the supervisor has still to read.
Wire == [k \in 1 .. (Len(Stream) \div 2) |-> Stream[2 * k].msg]

\* The channel keeps the abstract promise of ChannelContract.
Contract == INSTANCE ChannelContract
              WITH Cause <- [m \in Messages |-> CauseOf(m)],
                   asked <- asked \cap Requests,
                   handled <- {handled[k] : k \in DOMAIN handled},
                   wire <- Wire

ImplementsContract == Contract!Spec

-----------------------------------------------------------------------------
(* Liveness. *)

Answered(f) == \E m \in heard : CauseOf(m) = f

Served(f) == /\ \E k \in DOMAIN handled : handled[k] = f
             /\ f.kind = "load" => Answered(f)

\* A supervisor that keeps reading has every request handled, and every load
\* answered, whenever they arrive, before the handlers exist, during the replay or
\* after it, and also when the handler throws.  That a query or a cancel is
\* answered is not said: deliver or the manager may be silent about it.
EveryRequestIsServed ==
  WF_vars(Listen) =>
  \A f \in Requests : f \in asked ~> (Served(f) \/ peerGone \/ ~active)

\* stop() comes to its end whatever the supervisor does: the reader leaves its
\* blocking read, and a thread blocked in a full socket leaves its write.
StopFinishes == mstage = "join" ~> (mstage = "end" \/ ~alive)

-----------------------------------------------------------------------------
(* What comments in the code say and the code does not keep.               *)

\* "A `query` answered out of order would report `unknown` for a load still
\* sitting in the backlog, and `unknown` is precisely the answer that
\* authorises a resend -- so the ordering is not tidiness, it is what stops a
\* double load" (control_channel.hpp:92-95): no load that was answered
\* `unknown` is accepted afterwards.
UnknownIsFinal ==
  [][ \A s \in taken' \ taken :
        [kind |-> "unknown", of |-> s] \notin heard ]_vars

=============================================================================
