------------------------- MODULE ControlChannelProofs -------------------------
(***************************************************************************)
(* For any number of threads that send, any loads and any room in the      *)
(* socket: the descriptor of the control channel is closed only when no    *)
(* thread can be using it, and the supervisor reads whole frames.          *)
(***************************************************************************)
EXTENDS ControlChannel, TLAPS

\* The thread between its header and its payload holds write_mutex_; the
\* reader is joined before the close, and the close finds the mutex free.
WriteInv ==
  /\ DOMAIN at = Threads /\ writer \in Threads \cup {Nobody}
  /\ \A t \in Threads : at[t] \in {"header", "payload"} => writer = t
  /\ mstage \in {"close", "end"} => rstage = "stopped"
  /\ closed => mstage = "end" /\ writer = Nobody

\* WriteInv holds of a channel that has just been opened.
LEMMA WriteInit == Init => WriteInv
BY DEF Init, WriteInv

\* A step of send_raw keeps WriteInv: none gets the mutex of a closed channel
\* and then writes.
LEMMA SendKeepsInv ==
  ASSUME WriteInv, NEW t \in Threads, SendStep(t) PROVE WriteInv'
<1> USE DEF WriteInv, EndSend, peer, socket, routing, work, sending, proc
<1>1. CASE LockForWrite(t)
  BY <1>1, NobodyAssumption DEF LockForWrite
<1>2. CASE WriteChunk(t)
  BY <1>2, NobodyAssumption DEF WriteChunk
<1>3. CASE WriteFails(t)
  BY <1>3, NobodyAssumption DEF WriteFails
<1>4. CASE WriteKills(t)
  BY <1>4 DEF WriteKills
<1> QED BY <1>1, <1>2, <1>3, <1>4 DEF SendStep

\* Every step keeps WriteInv.
LEMMA WriteStep == WriteInv /\ [Next]_vars => WriteInv'
<1> SUFFICES ASSUME WriteInv, [Next]_vars PROVE WriteInv'
  OBVIOUS
<1> USE DEF WriteInv, peer, socket, sending, routing, work, proc, vars
<1>1. ASSUME NEW t \in Threads, SendStep(t) PROVE WriteInv'
  BY <1>1, SendKeepsInv
<1>2. ASSUME NEW t \in Senders, Report(t) PROVE WriteInv'
  BY <1>2, NobodyAssumption DEF Report, StartSend, Threads
<1>3. CASE ReaderStep
  <2>1. CASE ReadFrame \/ Route \/ ReaderEnds
    BY <2>1 DEF ReadFrame, Route, ReaderEnds
  <2>2. CASE DeliverFrame
    BY <2>2, NobodyAssumption DEF DeliverFrame, Deliver, StartSend, Threads
  <2> QED BY <1>3, <2>1, <2>2 DEF ReaderStep
<1>4. CASE MainStep \/ Stop
  <2>1. CASE SetHandlers \/ ReplayDone \/ Stop \/ JoinReader
    BY <2>1 DEF SetHandlers, ReplayDone, Stop, JoinReader
  <2>2. CASE SendHello
    BY <2>2, NobodyAssumption DEF SendHello, StartSend, Threads
  <2>3. CASE ReplayFrame
    BY <2>3, NobodyAssumption DEF ReplayFrame, Deliver, StartSend, Threads
  <2>4. CASE CloseFd
    BY <2>4 DEF CloseFd
  <2> QED BY <1>4, <2>1, <2>2, <2>3, <2>4 DEF MainStep
<1>5. CASE (\E f \in Frames : Ask(f)) \/ Listen \/ HangUp
  BY <1>5 DEF Ask, Listen, HangUp
<1>6. CASE Terminated \/ UNCHANGED vars
  BY <1>6 DEF Terminated
<1> QED BY <1>1, <1>2, <1>3, <1>4, <1>5, <1>6 DEF Next, Container

\* For any number of senders: close(fd_) comes when the reader is gone and no
\* thread is between its look at fd_ and the end of its writes.
THEOREM DescriptorIsOurs == Spec => []NoUseAfterClose
<1>1. WriteInv => NoUseAfterClose
  BY NobodyAssumption DEF WriteInv, NoUseAfterClose
<1> QED BY <1>1, WriteInit, WriteStep, PTL DEF Spec

-----------------------------------------------------------------------------
\* TypeOK in three parts, with what it leaves open: only requests are held
\* back ...
QueuesInv ==
  /\ inbox \in Seq(Frames) /\ held \in Seq(Frames) /\ handled \in Seq(Frames)
  /\ out \in Seq(Chunks) /\ Len(out) <= Room
  /\ backlog \in Seq(Requests) /\ replay \in Seq(Requests)

\* ... and routed ...
StateInv ==
  /\ asked \subseteq Frames /\ heard \subseteq Messages
  /\ partial \in Messages \cup {Nobody} /\ peerGone \in BOOLEAN
  /\ shut \in BOOLEAN /\ closed \in BOOLEAN
  /\ alive \in BOOLEAN /\ sigpipeIgnored \in Dispositions
  /\ active \in BOOLEAN
  /\ rstage \in {"read", "frame", "handle", "stopped"}
  /\ rframe \in Frames \cup {Nobody}
  /\ rstage \in {"frame", "handle"} => rframe \in Requests
  /\ handlers \in BOOLEAN
  /\ mstage \in {"hello", "setup", "replay", "spin", "join", "close", "end"}
  /\ taken \subseteq Seqs

\* ... and whoever is in send_raw has a message, and was not there already when
\* it was called.
SendInv ==
  /\ writer \in Threads \cup {Nobody} /\ reported \subseteq Senders
  /\ at \in [Threads -> {"idle", "lock", "header", "payload"}]
  /\ msg \in [Threads -> Messages \cup {Nobody}]
  /\ \A t \in Threads : at[t] # "idle" => msg[t] \in Messages
  /\ \A t \in Senders \ reported : at[t] = "idle"
  /\ mstage = "hello" => at["main"] = "idle"

TypeInv == QueuesInv /\ StateInv /\ SendInv

\* FramesWhole, of any run of chunks.
Whole(st) ==
  \A k \in DOMAIN st :
    IF k % 2 = 1 THEN st[k].part = "header"
    ELSE st[k] = [part |-> "payload", msg |-> st[k - 1].msg]

\* While both ends are open the stream stops in the middle of a frame exactly
\* if some thread is there, and then the frame is that thread's.
Boundary ==
  ~(peerGone \/ shut) =>
    /\ (\A t \in Threads : at[t] # "payload") => Len(Stream) % 2 = 0
    /\ \A t \in Threads : at[t] = "payload" =>
         /\ Len(Stream) % 2 = 1
         /\ Stream[Len(Stream)].msg = msg[t]

\* A header may follow whole frames, and opens one.
LEMMA HeaderFollows ==
  ASSUME NEW st \in Seq(Chunks), Whole(st), Len(st) % 2 = 0,
         NEW c \in Chunks, c.part = "header"
  PROVE  /\ Whole(Append(st, c))
         /\ Len(Append(st, c)) % 2 = 1
         /\ Append(st, c)[Len(Append(st, c))] = c
<1> DEFINE after == Append(st, c)
           n == Len(st)
<1>1. /\ n \in Nat /\ DOMAIN st = 1 .. n
      /\ Len(after) = n + 1 /\ DOMAIN after = 1 .. (n + 1)
      /\ after[n + 1] = c
      /\ \A k \in 1 .. n : after[k] = st[k]
  OBVIOUS
<1> HIDE DEF after
<1>2. (n + 1) % 2 = 1
  BY <1>1
<1>3. ASSUME NEW k \in 1 .. (n + 1)
      PROVE  IF k % 2 = 1 THEN after[k].part = "header"
             ELSE after[k] = [part |-> "payload", msg |-> after[k - 1].msg]
  <2>1. CASE k = n + 1
    BY <1>1, <1>2, <2>1
  <2>2. CASE k \in 1 .. n /\ k % 2 = 1
    BY <1>1, <2>2 DEF Whole
  <2>3. CASE k \in 1 .. n /\ k % 2 # 1
    <3>1. k - 1 \in 1 .. n
      BY <1>1, <2>3
    <3> QED BY <1>1, <2>3, <3>1 DEF Whole
  <2> QED BY <1>1, <2>1, <2>2, <2>3
<1>4. Whole(after)
  BY <1>1, <1>3 DEF Whole
<1> QED BY <1>1, <1>2, <1>4 DEF after

\* The payload of the frame that is open may follow, and closes it.
LEMMA PayloadFollows ==
  ASSUME NEW st \in Seq(Chunks), Whole(st), Len(st) % 2 = 1,
         NEW c, c = [part |-> "payload", msg |-> st[Len(st)].msg],
         c \in Chunks
  PROVE  Whole(Append(st, c)) /\ Len(Append(st, c)) % 2 = 0
<1> DEFINE after == Append(st, c)
           n == Len(st)
<1>1. /\ n \in Nat /\ DOMAIN st = 1 .. n
      /\ Len(after) = n + 1 /\ DOMAIN after = 1 .. (n + 1)
      /\ after[n + 1] = c
      /\ \A k \in 1 .. n : after[k] = st[k]
  OBVIOUS
<1> HIDE DEF after
<1>2. (n + 1) % 2 = 0 /\ n \in 1 .. n
  BY <1>1
<1>3. ASSUME NEW k \in 1 .. (n + 1)
      PROVE  IF k % 2 = 1 THEN after[k].part = "header"
             ELSE after[k] = [part |-> "payload", msg |-> after[k - 1].msg]
  <2>1. CASE k = n + 1
    BY <1>1, <1>2, <2>1
  <2>2. CASE k \in 1 .. n /\ k % 2 = 1
    BY <1>1, <2>2 DEF Whole
  <2>3. CASE k \in 1 .. n /\ k % 2 # 1
    <3>1. k - 1 \in 1 .. n
      BY <1>1, <2>3
    <3> QED BY <1>1, <2>3, <3>1 DEF Whole
  <2> QED BY <1>1, <2>1, <2>2, <2>3
<1>4. Whole(after)
  BY <1>1, <1>3 DEF Whole
<1> QED BY <1>1, <1>2, <1>4 DEF after

\* Behind a whole frame there are whole frames again, and the stream ends as
\* it did.
LEMMA FrameRead ==
  ASSUME NEW h \in Chunks, NEW q \in Seq(Chunks), q # <<>>, Whole(<<h>> \o q)
  PROVE  /\ Whole(Tail(q))
         /\ Len(Tail(q)) % 2 = Len(<<h>> \o q) % 2
         /\ q[1].part = "payload"
         /\ Tail(q) # <<>> =>
              Tail(q)[Len(Tail(q))] = (<<h>> \o q)[Len(<<h>> \o q)]
<1> DEFINE all == <<h>> \o q
           rest == Tail(q)
           n == Len(rest)
<1>1. /\ n \in Nat /\ Len(q) = n + 1 /\ Len(all) = n + 2
      /\ DOMAIN rest = 1 .. n /\ DOMAIN all = 1 .. (n + 2)
      /\ all[2] = q[1]
      /\ \A k \in 1 .. n : rest[k] = all[k + 2]
  OBVIOUS
<1>2. Whole(all) /\ (rest # <<>> => n > 0)
  OBVIOUS
<1> HIDE DEF rest, all, n
<1>3. ASSUME NEW k \in 1 .. n
      PROVE  IF k % 2 = 1 THEN rest[k].part = "header"
             ELSE rest[k] = [part |-> "payload", msg |-> rest[k - 1].msg]
  <2>1. k + 2 \in 1 .. Len(all) /\ rest[k] = all[k + 2]
    BY <1>1
  <2>2. CASE k % 2 = 1
    <3>1. (k + 2) % 2 = 1
      BY <2>2
    <3> QED BY <2>1, <2>2, <3>1, <1>1, <1>2 DEF Whole
  <2>3. CASE k % 2 # 1
    <3>1. (k + 2) % 2 # 1 /\ k - 1 \in 1 .. n /\ (k + 2) - 1 = (k - 1) + 2
      BY <2>3, <1>1
    <3>2. all[k + 2] = [part |-> "payload", msg |-> all[(k + 2) - 1].msg]
      BY <2>1, <3>1, <1>1, <1>2 DEF Whole
    <3> QED BY <2>1, <2>3, <3>1, <3>2, <1>1
  <2> QED BY <2>2, <2>3
<1>4. Whole(rest)
  BY <1>1, <1>3 DEF Whole
<1>5. q[1].part = "payload"
  <2>1. 2 \in 1 .. (n + 2) /\ 2 % 2 # 1
    BY <1>1
  <2>2. all[2] = [part |-> "payload", msg |-> all[2 - 1].msg]
    BY <1>1, <1>2, <2>1 DEF Whole
  <2> QED BY <1>1, <2>2
<1>6. (n + 2) % 2 = n % 2
  BY <1>1
<1> QED BY <1>1, <1>2, <1>4, <1>5, <1>6 DEF rest, all, n

-----------------------------------------------------------------------------
\* TypeInv holds of a channel that has just been opened.
LEMMA TypeInit == Init => TypeInv
<1> SUFFICES ASSUME Init PROVE TypeInv
  OBVIOUS
<1>1. QueuesInv
  BY RoomAssumption DEF Init, QueuesInv
<1>2. StateInv
  BY DEF Init, StateInv
<1>3. SendInv
  BY DEF Init, SendInv, Threads
<1> QED BY <1>1, <1>2, <1>3 DEF TypeInv

\* Calling send_raw with a message keeps the types; only the thread that calls
\* moves.
LEMMA StartKeepsType ==
  ASSUME SendInv, NEW t \in Threads, NEW m \in Messages, StartSend(t, m)
  PROVE  /\ at' \in [Threads -> {"idle", "lock", "header", "payload"}]
         /\ msg' \in [Threads -> Messages \cup {Nobody}]
         /\ \A u \in Threads : at'[u] # "idle" => msg'[u] \in Messages
         /\ \A u \in Threads \ {t} : at'[u] = at[u]
BY DEF StartSend, SendInv

\* A handler answers the frame it is given, or not at all.
LEMMA DeliverKeepsType ==
  ASSUME SendInv, StateInv, NEW t \in Threads, NEW f \in Requests,
         Deliver(t, f)
  PROVE  /\ taken' \subseteq Seqs
         /\ at' \in [Threads -> {"idle", "lock", "header", "payload"}]
         /\ msg' \in [Threads -> Messages \cup {Nobody}]
         /\ \A u \in Threads : at'[u] # "idle" => msg'[u] \in Messages
         /\ \A u \in Threads \ {t} : at'[u] = at[u]
<1>1. f.seq \in Seqs /\ f.kind \in {"load", "query", "cancel"}
  BY DEF Requests
<1>2. ASSUME NEW kind \in Answers(f),
             taken' = IF kind = "accepted" THEN taken \cup {f.seq} ELSE taken,
             StartSend(t, [kind |-> kind, of |-> f.seq])
      PROVE  /\ taken' \subseteq Seqs
             /\ [kind |-> kind, of |-> f.seq] \in Messages
  <2>1. kind \in {"accepted", "rejected", "known", "unknown", "settled"}
    BY <1>1 DEF Answers
  <2> QED BY <1>1, <1>2, <2>1 DEF Messages, StateInv
<1>3. CASE UNCHANGED <<taken, at, msg>>
  BY <1>3 DEF StateInv, SendInv
<1> QED BY <1>2, <1>3, StartKeepsType DEF Deliver

\* What is delivered is a request.
LEMMA RequestsAreFrames == Requests \subseteq Frames
BY DEF Requests, Frames

\* Every step keeps QueuesInv.
LEMMA QueuesStep == TypeInv /\ [Next]_vars => QueuesInv'
<1> SUFFICES ASSUME QueuesInv, StateInv, SendInv, [Next]_vars PROVE QueuesInv'
  BY DEF TypeInv
<1> USE DEF peer, socket, sending, routing, work, proc, vars
<1>1. ASSUME NEW t \in Threads, SendStep(t) PROVE QueuesInv'
  <2>1. CASE WriteChunk(t)
    <3>1. [part |-> at[t], msg |-> msg[t]] \in Chunks
      BY <2>1 DEF WriteChunk, Chunks, SendInv
    <3>2. out' \in Seq(Chunks) /\ Len(out') <= Room
      BY <2>1, <3>1, RoomAssumption DEF WriteChunk, QueuesInv
    <3> QED BY <2>1, <3>2 DEF WriteChunk, QueuesInv
  <2>2. CASE LockForWrite(t) \/ WriteFails(t) \/ WriteKills(t)
    BY <2>2 DEF LockForWrite, WriteFails, WriteKills, QueuesInv
  <2> QED BY <1>1, <2>1, <2>2 DEF SendStep
<1>2. ASSUME NEW t \in Senders, Report(t) PROVE QueuesInv'
  BY <1>2 DEF Report, QueuesInv
<1>3. CASE ReadFrame
  BY <1>3 DEF ReadFrame, QueuesInv
<1>4. CASE Route
  <2>1. rframe \in Requests /\ rframe \in Frames
    BY <1>4, RequestsAreFrames DEF Route, StateInv
  <2>2. /\ Append(backlog, rframe) \in Seq(Requests)
        /\ Append(held, rframe) \in Seq(Frames)
    BY <2>1 DEF QueuesInv
  <2> QED BY <1>4, <2>2 DEF Route, QueuesInv
<1>5. CASE DeliverFrame
  <2>1. rframe \in Frames
    BY <1>5, RequestsAreFrames DEF DeliverFrame, StateInv
  <2> QED BY <1>5, <2>1 DEF DeliverFrame, Deliver, QueuesInv
<1>6. CASE ReplayFrame
  <2>1. /\ Head(replay) \in Frames /\ Tail(replay) \in Seq(Requests)
    BY <1>6, RequestsAreFrames DEF ReplayFrame, QueuesInv
  <2> QED BY <1>6, <2>1 DEF ReplayFrame, Deliver, QueuesInv
<1>7. CASE SetHandlers
  BY <1>7 DEF SetHandlers, QueuesInv
<1>8. CASE ReaderEnds \/ SendHello \/ ReplayDone \/ JoinReader \/ CloseFd \/ Stop
  BY <1>8 DEF ReaderEnds, SendHello, ReplayDone, JoinReader, CloseFd, Stop,
              QueuesInv
<1>9. ASSUME NEW f \in Frames, Ask(f) PROVE QueuesInv'
  BY <1>9 DEF Ask, QueuesInv
<1>10. CASE Listen
  BY <1>10, RoomAssumption DEF Listen, QueuesInv
<1>11. CASE HangUp \/ Terminated \/ UNCHANGED vars
  BY <1>11 DEF HangUp, Terminated, QueuesInv
<1> QED BY <1>1, <1>2, <1>3, <1>4, <1>5, <1>6, <1>7, <1>8, <1>9, <1>10, <1>11
        DEF Next, Container, ReaderStep, MainStep

\* Every step keeps StateInv.
LEMMA StateStep == TypeInv /\ [Next]_vars => StateInv'
<1> SUFFICES ASSUME QueuesInv, StateInv, SendInv, [Next]_vars PROVE StateInv'
  BY DEF TypeInv
<1> USE DEF peer, socket, sending, routing, work, proc, vars
<1>1. ASSUME NEW t \in Threads, SendStep(t) PROVE StateInv'
  <2>1. CASE LockForWrite(t) \/ WriteChunk(t)
    BY <2>1 DEF LockForWrite, WriteChunk, StateInv
  <2>2. CASE WriteFails(t)
    BY <2>2 DEF WriteFails, StateInv
  <2>3. CASE WriteKills(t)
    BY <2>3 DEF WriteKills, StateInv
  <2> QED BY <1>1, <2>1, <2>2, <2>3 DEF SendStep
<1>2. ASSUME NEW t \in Senders, Report(t) PROVE StateInv'
  BY <1>2 DEF Report, StateInv
<1>3. CASE ReadFrame
  <2>1. /\ Head(inbox) \in Frames
        /\ Head(inbox).kind \in {"load", "query", "cancel"} =>
             Head(inbox) \in Requests
    BY <1>3, OtherAssumption DEF ReadFrame, QueuesInv, Frames, Requests
  <2> QED BY <1>3, <2>1 DEF ReadFrame, StateInv
<1>4. CASE Route \/ ReaderEnds
  BY <1>4 DEF Route, ReaderEnds, StateInv
<1>5. CASE DeliverFrame
  <2>1. rframe \in Requests /\ "reader" \in Threads
    BY <1>5 DEF DeliverFrame, StateInv, Threads
  <2>2. taken' \subseteq Seqs
    BY <1>5, <2>1, DeliverKeepsType DEF DeliverFrame
  <2> QED BY <1>5, <2>2 DEF DeliverFrame, StateInv
<1>6. CASE ReplayFrame
  <2>1. Head(replay) \in Requests /\ "main" \in Threads
    BY <1>6 DEF ReplayFrame, QueuesInv, Threads
  <2>2. taken' \subseteq Seqs
    BY <1>6, <2>1, DeliverKeepsType DEF ReplayFrame
  <2> QED BY <1>6, <2>2 DEF ReplayFrame, StateInv
<1>7. CASE SendHello \/ SetHandlers \/ ReplayDone
  BY <1>7 DEF SendHello, SetHandlers, ReplayDone, StateInv
<1>8. CASE JoinReader \/ CloseFd \/ Stop
  BY <1>8 DEF JoinReader, CloseFd, Stop, StateInv
<1>9. ASSUME NEW f \in Frames, Ask(f) PROVE StateInv'
  BY <1>9 DEF Ask, StateInv
<1>10. CASE Listen
  <2>1. Head(out).msg \in Messages
    <3>1. Head(out) \in Chunks
      BY <1>10 DEF Listen, QueuesInv
    <3> QED BY <3>1 DEF Chunks
  <2> QED BY <1>10, <2>1 DEF Listen, StateInv
<1>11. CASE HangUp
  BY <1>11 DEF HangUp, StateInv
<1>12. CASE Terminated \/ UNCHANGED vars
  BY <1>12 DEF Terminated, StateInv
<1> QED BY <1>1, <1>2, <1>3, <1>4, <1>5, <1>6, <1>7, <1>8, <1>9, <1>10, <1>11,
           <1>12
        DEF Next, Container, ReaderStep, MainStep

\* Every step keeps SendInv.
LEMMA SendTypeStep == TypeInv /\ [Next]_vars => SendInv'
<1> SUFFICES ASSUME QueuesInv, StateInv, SendInv, [Next]_vars PROVE SendInv'
  BY DEF TypeInv
<1> USE DEF peer, socket, sending, routing, work, proc, vars
<1>1. ASSUME NEW t \in Threads, SendStep(t) PROVE SendInv'
  <2>1. at[t] # "idle" /\ (t \in Senders => t \in reported)
    BY <1>1 DEF SendStep, LockForWrite, WriteChunk, WriteFails, WriteKills,
                SendInv
  <2>2. CASE LockForWrite(t)
    BY <2>1, <2>2 DEF LockForWrite, EndSend, SendInv, Threads
  <2>3. CASE WriteChunk(t)
    BY <2>1, <2>3 DEF WriteChunk, EndSend, SendInv, Threads
  <2>4. CASE WriteFails(t) \/ WriteKills(t)
    BY <2>1, <2>4 DEF WriteFails, WriteKills, EndSend, SendInv, Threads
  <2> QED BY <1>1, <2>2, <2>3, <2>4 DEF SendStep
<1>2. ASSUME NEW t \in Senders, Report(t) PROVE SendInv'
  <2>1. [kind |-> "report", of |-> t] \in Messages /\ t \in Threads
    BY DEF Messages, Threads
  <2> QED BY <1>2, <2>1, StartKeepsType, SendersAssumption
          DEF Report, SendInv, Threads
<1>3. CASE ReadFrame \/ Route \/ ReaderEnds
  BY <1>3 DEF ReadFrame, Route, ReaderEnds, SendInv
<1>4. CASE DeliverFrame
  <2>1. rframe \in Requests /\ "reader" \in Threads /\ "reader" \notin Senders
    BY <1>4, SendersAssumption DEF DeliverFrame, StateInv, Threads
  <2> QED BY <1>4, <2>1, DeliverKeepsType DEF DeliverFrame, SendInv, Threads
<1>5. CASE ReplayFrame
  <2>1. Head(replay) \in Requests /\ "main" \in Threads /\ "main" \notin Senders
    BY <1>5, SendersAssumption DEF ReplayFrame, QueuesInv, Threads
  <2> QED BY <1>5, <2>1, DeliverKeepsType DEF ReplayFrame, SendInv, Threads
<1>6. CASE SendHello
  <2>1. /\ [kind |-> "hello", of |-> Nobody] \in Messages
        /\ "main" \in Threads /\ "main" \notin Senders
    BY SendersAssumption DEF Messages, Threads
  <2> QED BY <1>6, <2>1, StartKeepsType DEF SendHello, SendInv, Threads
<1>7. CASE SetHandlers \/ ReplayDone \/ JoinReader \/ CloseFd \/ Stop
  BY <1>7 DEF SetHandlers, ReplayDone, JoinReader, CloseFd, Stop, SendInv
<1>8. CASE (\E f \in Frames : Ask(f)) \/ Listen \/ HangUp
  BY <1>8 DEF Ask, Listen, HangUp, SendInv
<1>9. CASE Terminated \/ UNCHANGED vars
  BY <1>9 DEF Terminated, SendInv
<1> QED BY <1>1, <1>2, <1>3, <1>4, <1>5, <1>6, <1>7, <1>8, <1>9
        DEF Next, Container, ReaderStep, MainStep

\* For any loads, senders and room: every variable keeps its type, the socket
\* never holds more than it has room for, and only requests are routed.
THEOREM TypeCorrect == Spec => []TypeOK
<1>1. TypeInv => TypeOK
  <2> SUFFICES ASSUME QueuesInv, StateInv, SendInv PROVE TypeOK
    BY DEF TypeInv
  <2>1. backlog \in Seq(Frames) /\ replay \in Seq(Frames)
    BY RequestsAreFrames DEF QueuesInv
  <2> QED BY <2>1 DEF TypeOK, QueuesInv, StateInv, SendInv
<1>2. TypeInv /\ [Next]_vars => TypeInv'
  BY QueuesStep, StateStep, SendTypeStep DEF TypeInv
<1> QED BY <1>1, <1>2, TypeInit, PTL DEF Spec

-----------------------------------------------------------------------------
\* What a step does that neither writes nor reads, and moves no thread into or
\* out of the middle of a frame.
Quiet ==
  /\ UNCHANGED <<partial, out>>
  /\ peerGone \/ shut => peerGone' \/ shut'
  /\ \A t \in Threads : /\ at'[t] = "payload" <=> at[t] = "payload"
                        /\ at[t] = "payload" => msg'[t] = msg[t]

\* Such a step keeps the frames and their boundary.
LEMMA QuietKeepsFrames ==
  ASSUME Whole(Stream), Boundary, Quiet PROVE Whole(Stream)' /\ Boundary'
<1>1. Stream' = Stream
  BY DEF Quiet, Stream, Announced
<1> QED BY <1>1 DEF Quiet, Boundary, Whole

\* A thread that is not in the middle of a frame may call send_raw.
LEMMA StartIsQuiet ==
  ASSUME SendInv, NEW t \in Threads, NEW m, at[t] = "idle", StartSend(t, m),
         UNCHANGED <<partial, out, peerGone, shut>>
  PROVE  Quiet
BY DEF StartSend, SendInv, Quiet

\* The stream is a sequence of chunks, and what is appended to out is appended
\* to it.
LEMMA StreamGrows ==
  ASSUME QueuesInv, StateInv
  PROVE  /\ Stream \in Seq(Chunks)
         /\ \A c \in Chunks : Announced \o Append(out, c) = Append(Stream, c)
<1>1. Announced \in Seq(Chunks)
  <2>1. CASE partial = Nobody
    BY <2>1 DEF Announced
  <2>2. CASE partial # Nobody
    <3>1. [part |-> "header", msg |-> partial] \in Chunks
      BY <2>2 DEF StateInv, Chunks
    <3> QED BY <2>2, <3>1 DEF Announced
  <2> QED BY <2>1, <2>2
<1> QED BY <1>1 DEF Stream, QueuesInv

\* The header and the payload of a frame are written one behind the other.
LEMMA WriteKeepsFrames ==
  ASSUME TypeInv, WriteInv, Whole(Stream), Boundary,
         NEW t \in Threads, WriteChunk(t)
  PROVE  Whole(Stream)' /\ Boundary'
<1> DEFINE c == [part |-> at[t], msg |-> msg[t]]
<1> USE DEF TypeInv
<1>1. /\ c \in Chunks /\ msg[t] \in Messages
      /\ ~(peerGone \/ shut) /\ UNCHANGED <<peerGone, shut>>
      /\ \A u \in Threads \ {t} : at[u] \notin {"header", "payload"}
      /\ \A u \in Threads \ {t} : at'[u] = at[u]
  BY DEF WriteChunk, Chunks, SendInv, WriteInv, EndSend, peer
<1>2. Stream \in Seq(Chunks) /\ Stream' = Append(Stream, c)
  BY <1>1, StreamGrows DEF WriteChunk, Stream, Announced, peer
<1>3. CASE at[t] = "header"
  <2>1. at'[t] = "payload" /\ msg' = msg
    BY <1>3 DEF WriteChunk, SendInv
  <2>2. Len(Stream) % 2 = 0
    BY <1>1, <1>3 DEF Boundary
  <2>3. c.part = "header" /\ c.msg = msg[t]
    BY <1>3
  <2>4. /\ Whole(Append(Stream, c)) /\ Len(Append(Stream, c)) % 2 = 1
        /\ Append(Stream, c)[Len(Append(Stream, c))] = c
    BY <1>1, <1>2, <2>2, <2>3, HeaderFollows
  <2>5. Whole(Stream)'
    BY <1>2, <2>4 DEF Whole
  <2>6. Boundary'
    BY <1>1, <1>2, <2>1, <2>3, <2>4 DEF Boundary
  <2> QED BY <2>5, <2>6
<1>4. CASE at[t] = "payload"
  <2>1. at'[t] = "idle"
    BY <1>4 DEF WriteChunk, EndSend, SendInv
  <2>2. Len(Stream) % 2 = 1 /\ Stream[Len(Stream)].msg = msg[t]
    BY <1>1, <1>4 DEF Boundary
  <2>3. c = [part |-> "payload", msg |-> Stream[Len(Stream)].msg]
    BY <1>4, <2>2
  <2>4. Whole(Append(Stream, c)) /\ Len(Append(Stream, c)) % 2 = 0
    BY <1>1, <1>2, <2>2, <2>3, PayloadFollows
  <2>5. Whole(Stream)'
    BY <1>2, <2>4 DEF Whole
  <2>6. Boundary'
    BY <1>1, <1>2, <2>1, <2>4 DEF Boundary
  <2> QED BY <2>5, <2>6
<1> QED BY <1>3, <1>4 DEF WriteChunk

\* The supervisor reads a header, and then its payload.
LEMMA ListenKeepsFrames ==
  ASSUME TypeInv, Whole(Stream), Boundary, Listen
  PROVE  Whole(Stream)' /\ Boundary'
<1> USE DEF TypeInv
<1>1. /\ out \in Seq(Chunks) /\ out # <<>> /\ Head(out) \in Chunks
      /\ Head(out) = out[1] /\ out = <<Head(out)>> \o Tail(out)
      /\ out' = Tail(out)
      /\ UNCHANGED <<at, msg, peerGone, shut>>
  BY DEF Listen, QueuesInv, sending
<1>2. CASE partial = Nobody
  <2>1. Stream = out
    BY <1>1, <1>2 DEF Stream, Announced
  <2>2. Head(out).part = "header"
    BY <1>1, <2>1 DEF Whole
  <2>3. partial' = Head(out).msg /\ partial' # Nobody
    BY <1>1, <2>2, NobodyAssumption DEF Listen, Chunks
  <2>4. [part |-> "header", msg |-> Head(out).msg] = Head(out)
    BY <1>1, <2>2 DEF Chunks
  <2>5. Stream' = Stream
    BY <1>1, <2>1, <2>3, <2>4 DEF Stream, Announced
  <2> QED BY <1>1, <2>5 DEF Boundary, Whole
<1>3. CASE partial # Nobody
  <2> DEFINE h == [part |-> "header", msg |-> partial]
  <2>1. h \in Chunks /\ Stream = <<h>> \o out
    BY <1>3 DEF Stream, Announced, StateInv, Chunks
  <2>2. /\ Whole(Tail(out)) /\ Len(Tail(out)) % 2 = Len(Stream) % 2
        /\ Head(out).part = "payload"
        /\ Tail(out) # <<>> => Tail(out)[Len(Tail(out))] = Stream[Len(Stream)]
    BY <1>1, <2>1, FrameRead
  <2>3. partial' = Nobody
    BY <2>2 DEF Listen
  <2>4. Stream' = Tail(out)
    BY <1>1, <2>3 DEF Stream, Announced
  <2>5. Whole(Stream)'
    BY <2>2, <2>4 DEF Whole
  <2>6. Len(Tail(out)) % 2 = 1 => Tail(out) # <<>>
    <3>1. Len(<<>>) % 2 # 1
      OBVIOUS
    <3> QED BY <3>1
  <2>7. Boundary'
    BY <1>1, <2>2, <2>4, <2>6 DEF Boundary
  <2> QED BY <2>5, <2>7
<1> QED BY <1>2, <1>3

\* Every step keeps the frames whole.
LEMMA FramesStep ==
  ASSUME TypeInv, WriteInv, Whole(Stream), Boundary, [Next]_vars
  PROVE  Whole(Stream)' /\ Boundary'
<1> USE DEF TypeInv, peer, socket, sending, routing, work, proc, vars
<1>1. ASSUME NEW t \in Threads, SendStep(t)
      PROVE  Whole(Stream)' /\ Boundary'
  <2>1. CASE LockForWrite(t) \/ WriteKills(t)
    <3>1. Quiet
      BY <2>1 DEF LockForWrite, WriteKills, EndSend, SendInv, Quiet
    <3> QED BY <3>1, QuietKeepsFrames
  <2>2. CASE WriteChunk(t)
    BY <2>2, WriteKeepsFrames
  <2>3. CASE WriteFails(t)
    <3>1. Stream' = Stream
      BY <2>3 DEF WriteFails, Stream, Announced
    <3> QED BY <2>3, <3>1 DEF WriteFails, Boundary, Whole
  <2> QED BY <1>1, <2>1, <2>2, <2>3 DEF SendStep
<1>2. CASE \E t \in Senders : Report(t)
  <2>1. Quiet
    BY <1>2, StartIsQuiet DEF Report, SendInv, Threads
  <2> QED BY <2>1, QuietKeepsFrames
<1>3. CASE DeliverFrame \/ ReplayFrame \/ SendHello
  <2>1. "reader" \in Threads /\ "main" \in Threads
    BY DEF Threads
  <2>2. Quiet
    <3>1. CASE SendHello
      BY <2>1, <3>1, StartIsQuiet DEF SendHello, SendInv
    <3>2. ASSUME NEW t \in {"reader", "main"}, NEW f, Deliver(t, f),
                 UNCHANGED <<partial, out, peerGone, shut>>
          PROVE  Quiet
      <4>1. CASE UNCHANGED <<at, msg>>
        BY <3>2, <4>1 DEF Quiet
      <4>2. CASE \E m : StartSend(t, m)
        BY <2>1, <3>2, <4>2, StartIsQuiet DEF Deliver
      <4> QED BY <3>2, <4>1, <4>2 DEF Deliver
    <3> QED BY <1>3, <3>1, <3>2 DEF DeliverFrame, ReplayFrame
  <2> QED BY <2>2, QuietKeepsFrames
<1>4. CASE ReadFrame \/ Route \/ ReaderEnds
  <2>1. Quiet
    BY <1>4 DEF ReadFrame, Route, ReaderEnds, Quiet
  <2> QED BY <2>1, QuietKeepsFrames
<1>5. CASE SetHandlers \/ ReplayDone \/ JoinReader \/ CloseFd \/ Stop
  <2>1. Quiet
    BY <1>5 DEF SetHandlers, ReplayDone, JoinReader, CloseFd, Stop, Quiet
  <2> QED BY <2>1, QuietKeepsFrames
<1>6. CASE Listen
  BY <1>6, ListenKeepsFrames
<1>7. CASE (\E f \in Frames : Ask(f)) \/ HangUp \/ Terminated \/ UNCHANGED vars
  <2>1. Quiet
    BY <1>7 DEF Ask, HangUp, Terminated, Quiet
  <2> QED BY <2>1, QuietKeepsFrames
<1> QED BY <1>1, <1>2, <1>3, <1>4, <1>5, <1>6, <1>7
        DEF Next, Container, ReaderStep, MainStep

\* For any number of threads that send at once: the supervisor reads whole
\* frames, each header with its own payload behind it.
THEOREM NoInterleavedWrites == Spec => []FramesWhole
<1> DEFINE FrameInv == TypeInv /\ WriteInv /\ Whole(Stream) /\ Boundary
<1>1. Init => FrameInv
  <2> SUFFICES ASSUME Init PROVE Whole(Stream) /\ Boundary
    BY TypeInit, WriteInit
  <2>1. Stream = <<>>
    BY DEF Init, Stream, Announced
  <2> QED BY <2>1 DEF Init, Whole, Boundary
<1>2. FrameInv /\ [Next]_vars => FrameInv'
  BY QueuesStep, StateStep, SendTypeStep, WriteStep, FramesStep DEF TypeInv
<1>3. FrameInv => FramesWhole
  BY DEF FramesWhole, Whole, Stream
<1> QED BY <1>1, <1>2, <1>3, PTL DEF Spec
=============================================================================
