----------------------- MODULE ControlChannelRefinement -----------------------
(***************************************************************************)
(* ControlChannel implements ChannelContract, for any number of loads and  *)
(* senders and any room in the socket.  On the way to it:                  *)
(*   - no request is lost or handled twice between the reader and          *)
(*     set_handlers (OnePlace), and those that were held back are handled  *)
(*     in the order they came in (HeldInOrder), although two threads       *)
(*     handle;                                                             *)
(*   - no message is sent twice, and none without its cause.               *)
(***************************************************************************)
EXTENDS ControlChannelProofs, FiniteSetTheorems, SequenceTheorems

-----------------------------------------------------------------------------
(* Where the frames are.                                                   *)

\* f is one of the elements of s, and one of them only; no two of s are equal.
In(f, s) == \E k \in DOMAIN s : s[k] = f
AtMostOnce(f, s) == \A k, l \in DOMAIN s : s[k] = f /\ s[l] = f => k = l
Distinct(s) == \A k, l \in DOMAIN s : s[k] = s[l] => k = l

\* The first d elements of s are in t, each behind those that precede it in s.
InOrder(s, t, d) ==
  /\ \A k \in 1 .. d : In(s[k], t)
  /\ \A l \in 1 .. d : \A k \in 1 .. (l - 1) : \A m, n \in DOMAIN t :
       t[m] = s[k] /\ t[n] = s[l] => m < n

\* No place holds a frame twice ...
DistinctInv ==
  Distinct(inbox) /\ Distinct(backlog) /\ Distinct(replay) /\ Distinct(handled)

\* ... and none holds one that is in another place: what is in a place was asked,
\* and a request that was asked is in one.
PlaceInv(f) ==
  /\ In(f, inbox) =>
       ~(In(f, backlog) \/ In(f, replay) \/ In(f, handled) \/ rframe = f)
  /\ In(f, backlog) => ~(In(f, replay) \/ In(f, handled) \/ rframe = f)
  /\ In(f, replay) => ~(In(f, handled) \/ rframe = f)
  /\ In(f, handled) => rframe # f
  /\ \/ In(f, inbox) \/ In(f, backlog) \/ In(f, replay) \/ In(f, handled)
     \/ rframe = f
     => f \in asked
  /\ f \in asked \cap Requests =>
       \/ In(f, inbox) \/ In(f, backlog) \/ In(f, replay) \/ In(f, handled)
       \/ rframe = f

\* The frame in the reader's hands, as the sequence OnePlace puts it in.
Reading == IF rframe = Nobody THEN <<>> ELSE <<rframe>>

\* The reader holds a frame between its read and its delivery; the handlers are
\* set when main leaves its setup, and from then on nothing is held back.
RoutingInv ==
  /\ rstage \in {"read", "stopped"} => rframe = Nobody
  /\ mstage \in {"hello", "setup"} <=> ~handlers
  /\ handlers => backlog = <<>>
  /\ ~handlers => replay = <<>>

\* What was held back and still waits, and how many frames do not any more.
Waiting == IF handlers THEN replay ELSE backlog
Gone == Len(held) - Len(Waiting)

\* What waits is the end of what was held, and all before it was handled, in
\* order.
HeldInv ==
  /\ Gone \in Nat
  /\ \A k \in DOMAIN Waiting : Waiting[k] = held[Gone + k]
  /\ InOrder(held, handled, Gone)

PlacesInv == DistinctInv /\ \A f \in Frames : PlaceInv(f)
OrderInv == TypeInv /\ RoutingInv /\ PlacesInv /\ HeldInv

-----------------------------------------------------------------------------
(* Sequences without repetition.                                           *)

\* Appending adds one element.
LEMMA AppendAdds ==
  ASSUME NEW S, NEW s \in Seq(S), NEW e \in S
  PROVE  /\ \A f : In(f, Append(s, e)) <=> In(f, s) \/ f = e
         /\ Distinct(s) /\ ~In(e, s) => Distinct(Append(s, e))
<1> DEFINE t == Append(s, e)
           n == Len(s)
<1>1. /\ n \in Nat /\ DOMAIN s = 1 .. n /\ DOMAIN t = 1 .. (n + 1)
      /\ t[n + 1] = e /\ \A k \in 1 .. n : t[k] = s[k]
  OBVIOUS
<1> HIDE DEF t, n
<1>2. ASSUME NEW f PROVE In(f, t) <=> In(f, s) \/ f = e
  <2>1. n + 1 \in 1 .. (n + 1) /\ 1 .. (n + 1) = (1 .. n) \cup {n + 1}
    BY <1>1
  <2> QED BY <1>1, <2>1 DEF In
<1>3. ASSUME Distinct(s), ~In(e, s) PROVE Distinct(t)
  BY <1>1, <1>3 DEF In, Distinct
<1> QED BY <1>2, <1>3 DEF t

\* Taking the head off removes one element, which is not behind it.
LEMMA TailDrops ==
  ASSUME NEW S, NEW s \in Seq(S), s # <<>>
  PROVE  /\ Head(s) \in S /\ Tail(s) \in Seq(S)
         /\ \A f : In(f, s) <=> f = Head(s) \/ In(f, Tail(s))
         /\ Distinct(s) => Distinct(Tail(s)) /\ ~In(Head(s), Tail(s))
<1> DEFINE h == Head(s)
           t == Tail(s)
           n == Len(t)
<1>1. h \in S /\ t \in Seq(S)
  OBVIOUS
<1>2. /\ n \in Nat /\ DOMAIN t = 1 .. n /\ DOMAIN s = 1 .. (n + 1)
      /\ s[1] = h /\ \A k \in 1 .. n : t[k] = s[k + 1]
  OBVIOUS
<1> HIDE DEF h, t, n
<1>3. ASSUME NEW f PROVE In(f, s) <=> f = h \/ In(f, t)
  <2>1. ASSUME NEW k \in 1 .. (n + 1), s[k] = f PROVE f = h \/ In(f, t)
    <3>1. k = 1 \/ (k - 1 \in 1 .. n /\ t[k - 1] = s[k])
      BY <1>2
    <3> QED BY <1>2, <2>1, <3>1 DEF In
  <2>2. 1 \in 1 .. (n + 1) /\ \A k \in 1 .. n : k + 1 \in 1 .. (n + 1)
    BY <1>2
  <2> QED BY <1>2, <2>1, <2>2 DEF In
<1>4. ASSUME Distinct(s) PROVE Distinct(t) /\ ~In(h, t)
  <2>1. 1 \in 1 .. (n + 1) /\ \A k \in 1 .. n : k + 1 \in 1 .. (n + 1)
    BY <1>2
  <2>2. ASSUME NEW k \in 1 .. n, NEW l \in 1 .. n, t[k] = t[l] PROVE k = l
    <3>1. k + 1 = l + 1
      BY <1>2, <1>4, <2>1, <2>2 DEF Distinct
    <3> QED BY <3>1
  <2>3. ASSUME NEW k \in 1 .. n, t[k] = h PROVE FALSE
    <3>1. k + 1 = 1
      BY <1>2, <1>4, <2>1, <2>3 DEF Distinct
    <3> QED BY <3>1
  <2> QED BY <1>2, <2>2, <2>3 DEF In, Distinct
<1> QED BY <1>1, <1>3, <1>4 DEF h, t

\* The empty sequence has no element.
LEMMA EmptyHasNone == (\A f : ~In(f, <<>>)) /\ Distinct(<<>>)
BY DEF In, Distinct

\* Two sequences, one behind the other: no more than their elements, and each
\* once if it is in one of them.
LEMMA JoinAdds ==
  ASSUME NEW S, NEW s \in Seq(S), NEW t \in Seq(S), NEW f
  PROVE  /\ s \o t \in Seq(S)
         /\ In(f, s \o t) <=> In(f, s) \/ In(f, t)
         /\ AtMostOnce(f, s) /\ AtMostOnce(f, t) /\ ~(In(f, s) /\ In(f, t))
              => AtMostOnce(f, s \o t)
<1> DEFINE u == s \o t
           m == Len(s)
           n == Len(t)
<1>1. /\ m \in Nat /\ n \in Nat /\ DOMAIN s = 1 .. m /\ DOMAIN t = 1 .. n
      /\ DOMAIN u = 1 .. (m + n)
      /\ \A k \in 1 .. m : u[k] = s[k]
      /\ \A k \in 1 .. n : u[m + k] = t[k]
  OBVIOUS
<1>2. u \in Seq(S)
  OBVIOUS
<1> HIDE DEF u, m, n
<1>3. ASSUME NEW k \in 1 .. (m + n)
      PROVE  \/ k \in 1 .. m /\ u[k] = s[k]
             \/ k - m \in 1 .. n /\ u[k] = t[k - m]
  <2>1. CASE k <= m
    BY <1>1, <2>1
  <2>2. CASE k > m
    <3>1. k - m \in 1 .. n /\ m + (k - m) = k
      BY <1>1, <2>2
    <3> QED BY <1>1, <3>1
  <2> QED BY <1>1, <2>1, <2>2
<1>4. /\ \A k \in 1 .. m : k \in 1 .. (m + n)
      /\ \A k \in 1 .. n : m + k \in 1 .. (m + n)
  BY <1>1
<1>5. In(f, u) <=> In(f, s) \/ In(f, t)
  BY <1>1, <1>3, <1>4 DEF In
<1>6. ASSUME AtMostOnce(f, s), AtMostOnce(f, t), ~(In(f, s) /\ In(f, t)),
             NEW k \in DOMAIN u, NEW l \in DOMAIN u, u[k] = f, u[l] = f
      PROVE  k = l
  <2>1. CASE k \in 1 .. m /\ u[k] = s[k] /\ l \in 1 .. m /\ u[l] = s[l]
    BY <1>1, <1>6, <2>1 DEF AtMostOnce
  <2>2. CASE /\ k - m \in 1 .. n /\ u[k] = t[k - m]
             /\ l - m \in 1 .. n /\ u[l] = t[l - m]
    <3>1. k - m = l - m
      BY <1>1, <1>6, <2>2 DEF AtMostOnce
    <3> QED BY <1>1, <1>6, <3>1
  <2> QED BY <1>1, <1>3, <1>6, <2>1, <2>2 DEF In
<1> QED BY <1>2, <1>5, <1>6 DEF u, AtMostOnce

\* An order grows with what is appended, by the next element if it is that one.
LEMMA OrderGrows ==
  ASSUME NEW S, NEW s, NEW t \in Seq(S), NEW g \in S, ~In(g, t),
         NEW d \in Nat, InOrder(s, t, d)
  PROVE  /\ InOrder(s, Append(t, g), d)
         /\ s[d + 1] = g => InOrder(s, Append(t, g), d + 1)
<1> DEFINE u == Append(t, g)
           n == Len(t)
<1>1. /\ n \in Nat /\ DOMAIN t = 1 .. n /\ DOMAIN u = 1 .. (n + 1)
      /\ u[n + 1] = g /\ \A k \in 1 .. n : u[k] = t[k]
      /\ \A f : In(f, u) <=> In(f, t) \/ f = g
  BY AppendAdds
<1> HIDE DEF u, n
<1>2. \A k \in 1 .. d : In(s[k], t) /\ s[k] # g
  BY DEF InOrder
\* Those that were in order are where they were.
<1>3. ASSUME NEW k \in 1 .. d, NEW m \in 1 .. (n + 1), u[m] = s[k]
      PROVE  m \in 1 .. n /\ t[m] = s[k]
  BY <1>1, <1>2, <1>3
<1>4. InOrder(s, u, d)
  <2>1. ASSUME NEW l \in 1 .. d, NEW k \in 1 .. (l - 1),
               NEW a \in DOMAIN u, NEW b \in DOMAIN u,
               u[a] = s[k], u[b] = s[l]
        PROVE  a < b
    <3>1. k \in 1 .. d
      OBVIOUS
    <3>2. a \in 1 .. n /\ t[a] = s[k] /\ b \in 1 .. n /\ t[b] = s[l]
      BY <1>1, <1>3, <2>1, <3>1
    <3> QED BY <1>1, <3>2 DEF InOrder
  <2> QED BY <1>1, <1>2, <2>1 DEF InOrder
<1>5. ASSUME s[d + 1] = g PROVE InOrder(s, u, d + 1)
  <2>1. \A k \in 1 .. (d + 1) : k \in 1 .. d \/ k = d + 1
    OBVIOUS
  <2>2. \A k \in 1 .. (d + 1) : In(s[k], u)
    BY <1>1, <1>2, <1>5, <2>1
  <2>3. ASSUME NEW l \in 1 .. (d + 1), NEW k \in 1 .. (l - 1),
               NEW a \in DOMAIN u, NEW b \in DOMAIN u,
               u[a] = s[k], u[b] = s[l]
        PROVE  a < b
    <3>1. CASE l \in 1 .. d
      BY <1>4, <2>3, <3>1 DEF InOrder
    <3>2. CASE l = d + 1
      <4>1. k \in 1 .. d
        BY <3>2
      <4>2. a \in 1 .. n
        BY <1>1, <1>3, <2>3, <4>1
      <4>3. b = n + 1
        <5>1. CASE b \in 1 .. n
          BY <1>1, <1>5, <2>3, <3>2, <5>1 DEF In
        <5> QED BY <1>1, <5>1
      <4> QED BY <1>1, <4>2, <4>3
    <3> QED BY <2>1, <3>1, <3>2
  <2> QED BY <2>2, <2>3 DEF InOrder
<1> QED BY <1>4, <1>5 DEF u

-----------------------------------------------------------------------------
(* What a step does to the frames.                                         *)

ways == <<asked, inbox, rframe, handlers, backlog, replay, held, handled>>

\* Six actions move a frame, or the line between holding back and handling.
LEMMA WayCases ==
  ASSUME [Next]_vars
  PROVE  \/ UNCHANGED ways
         \/ ReadFrame \/ Route \/ DeliverFrame \/ SetHandlers \/ ReplayFrame
         \/ \E f \in Frames : Ask(f)
<1> USE DEF ways, peer, socket, sending, routing, work, proc, vars
<1>1. ASSUME NEW t \in Threads, SendStep(t) PROVE UNCHANGED ways
  BY <1>1 DEF SendStep, LockForWrite, WriteChunk, WriteFails, WriteKills
<1>2. ASSUME NEW t \in Senders, Report(t) PROVE UNCHANGED ways
  BY <1>2 DEF Report
<1>3. CASE \/ ReaderEnds \/ SendHello \/ ReplayDone \/ Stop \/ JoinReader
           \/ CloseFd \/ Listen \/ HangUp \/ Terminated \/ UNCHANGED vars
  BY <1>3 DEF ReaderEnds, SendHello, ReplayDone, Stop, JoinReader, CloseFd,
              Listen, HangUp, Terminated
<1> QED BY <1>1, <1>2, <1>3 DEF Next, Container, ReaderStep, MainStep

\* Only the reader's own steps move it, and only main's steps move main.
LEMMA RoutingStep ==
  ASSUME TypeInv, RoutingInv, [Next]_vars PROVE RoutingInv'
<1> USE DEF RoutingInv, peer, socket, sending, routing, work, proc, vars
<1>1. ASSUME NEW t \in Threads, SendStep(t) PROVE RoutingInv'
  BY <1>1 DEF SendStep, LockForWrite, WriteChunk, WriteFails, WriteKills
<1>2. ASSUME NEW t \in Senders, Report(t) PROVE RoutingInv'
  BY <1>2 DEF Report
<1>3. CASE ReadFrame
  BY <1>3 DEF ReadFrame
<1>4. CASE Route \/ ReaderEnds
  BY <1>4 DEF Route, ReaderEnds
<1>5. CASE DeliverFrame
  BY <1>5 DEF DeliverFrame
<1>6. CASE SendHello \/ SetHandlers \/ ReplayDone \/ Stop \/ JoinReader \/ CloseFd
  BY <1>6 DEF SendHello, SetHandlers, ReplayDone, Stop, JoinReader, CloseFd
<1>7. CASE ReplayFrame
  BY <1>7 DEF ReplayFrame
<1>8. CASE \/ (\E f \in Frames : Ask(f)) \/ Listen \/ HangUp
           \/ Terminated \/ UNCHANGED vars
  BY <1>8 DEF Ask, Listen, HangUp, Terminated
<1> QED BY <1>1, <1>2, <1>3, <1>4, <1>5, <1>6, <1>7, <1>8
        DEF Next, Container, ReaderStep, MainStep

\* The places before a step: what PlaceInv is about are sequences of frames.
LEMMA PlacesAreSequences ==
  ASSUME TypeInv
  PROVE  /\ inbox \in Seq(Frames) /\ backlog \in Seq(Frames)
         /\ replay \in Seq(Frames) /\ handled \in Seq(Frames)
         /\ held \in Seq(Frames) /\ Requests \subseteq Frames
         /\ rstage \in {"frame", "handle"} => rframe \in Requests
         /\ Nobody \notin Frames
<1>1. Requests \subseteq Frames
  BY RequestsAreFrames
<1> QED BY <1>1, NobodyAssumption DEF TypeInv, QueuesInv, StateInv

\* A frame goes from one place to the next, and enters the first only once.
LEMMA PlacesStep ==
  ASSUME TypeInv, RoutingInv, PlacesInv, [Next]_vars PROVE PlacesInv'
<1>1. /\ inbox \in Seq(Frames) /\ backlog \in Seq(Frames)
      /\ replay \in Seq(Frames) /\ handled \in Seq(Frames)
      /\ Requests \subseteq Frames
      /\ rstage \in {"frame", "handle"} => rframe \in Requests
      /\ Nobody \notin Frames
  BY PlacesAreSequences
<1>2. DistinctInv /\ \A f \in Frames : PlaceInv(f)
  BY DEF PlacesInv
<1> USE DEF peer, socket, sending, routing, work, proc
<1>3. CASE UNCHANGED ways
  BY <1>2, <1>3 DEF ways, PlacesInv, DistinctInv, PlaceInv, In, Distinct
<1>4. ASSUME NEW g \in Frames, Ask(g) PROVE PlacesInv'
  <2>1. /\ \A f : In(f, inbox') <=> In(f, inbox) \/ f = g
        /\ ~In(g, inbox)
        /\ Distinct(inbox')
    BY <1>1, <1>2, <1>4, AppendAdds DEF Ask, PlaceInv, DistinctInv
  <2>2. g \notin asked /\ asked' = asked \cup {g}
        /\ UNCHANGED <<rframe, backlog, replay, handled>>
    BY <1>4 DEF Ask
  <2>3. ASSUME NEW f \in Frames PROVE PlaceInv(f)'
    <3>1. PlaceInv(f)
      BY <1>2
    <3> QED BY <2>1, <2>2, <3>1 DEF PlaceInv
  <2> QED BY <1>2, <2>1, <2>2, <2>3 DEF PlacesInv, DistinctInv
<1>5. CASE ReadFrame
  <2> DEFINE g == Head(inbox)
  <2>1. /\ g \in Frames
        /\ \A f : In(f, inbox) <=> f = g \/ In(f, inbox')
        /\ Distinct(inbox') /\ ~In(g, inbox')
    BY <1>1, <1>2, <1>5, TailDrops DEF ReadFrame, DistinctInv
  <2>2. /\ rframe = Nobody
        /\ UNCHANGED <<asked, backlog, replay, handled>>
        /\ \/ rframe' = g
           \/ g \notin Requests /\ rframe' = Nobody
    BY <1>5, OtherAssumption DEF ReadFrame, RoutingInv, Requests
  <2> HIDE DEF g
  <2>3. ASSUME NEW f \in Frames PROVE PlaceInv(f)'
    <3>1. PlaceInv(f) /\ f # Nobody
      BY <1>1, <1>2
    <3> QED BY <2>1, <2>2, <3>1 DEF PlaceInv
  <2> QED BY <1>2, <2>1, <2>2, <2>3 DEF PlacesInv, DistinctInv
<1>6. CASE Route
  <2>1. CASE handlers
    BY <1>2, <1>6, <2>1 DEF Route, PlacesInv, DistinctInv, PlaceInv
  <2>2. CASE ~handlers
    <3>1. rframe \in Frames /\ ~In(rframe, backlog)
      BY <1>1, <1>2, <1>6 DEF Route, PlaceInv
    <3>2. /\ \A f : In(f, backlog') <=> In(f, backlog) \/ f = rframe
          /\ Distinct(backlog')
      <4>1. backlog' = Append(backlog, rframe) /\ Distinct(backlog)
        BY <1>2, <1>6, <2>2 DEF Route, DistinctInv
      <4> QED BY <1>1, <3>1, <4>1, AppendAdds
    <3>3. rframe' = Nobody /\ UNCHANGED <<asked, inbox, replay, handled>>
      BY <1>6, <2>2 DEF Route
    <3>4. ASSUME NEW f \in Frames PROVE PlaceInv(f)'
      <4>1. PlaceInv(f) /\ f # Nobody
        BY <1>1, <1>2
      <4> QED BY <3>2, <3>3, <4>1 DEF PlaceInv
    <3> QED BY <1>2, <3>2, <3>3, <3>4 DEF PlacesInv, DistinctInv
  <2> QED BY <2>1, <2>2
<1>7. CASE DeliverFrame
  <2>1. rframe \in Frames /\ ~In(rframe, handled)
    BY <1>1, <1>2, <1>7 DEF DeliverFrame, PlaceInv
  <2>2. /\ \A f : In(f, handled') <=> In(f, handled) \/ f = rframe
        /\ Distinct(handled')
    BY <1>1, <1>2, <1>7, <2>1, AppendAdds DEF DeliverFrame, Deliver, DistinctInv
  <2>3. rframe' = Nobody /\ UNCHANGED <<asked, inbox, backlog, replay>>
    BY <1>7 DEF DeliverFrame
  <2>4. ASSUME NEW f \in Frames PROVE PlaceInv(f)'
    <3>1. PlaceInv(f) /\ f # Nobody
      BY <1>1, <1>2
    <3> QED BY <2>2, <2>3, <3>1 DEF PlaceInv
  <2> QED BY <1>2, <2>2, <2>3, <2>4 DEF PlacesInv, DistinctInv
<1>8. CASE SetHandlers
  <2>1. /\ replay = <<>> /\ replay' = backlog /\ backlog' = <<>>
        /\ UNCHANGED <<asked, inbox, rframe, handled>>
    BY <1>8 DEF SetHandlers, RoutingInv
  <2>2. ASSUME NEW f \in Frames PROVE PlaceInv(f)'
    <3>1. PlaceInv(f) /\ ~In(f, replay) /\ ~In(f, backlog')
      BY <1>2, <2>1, EmptyHasNone
    <3> QED BY <2>1, <3>1 DEF PlaceInv
  <2> QED BY <1>2, <2>1, <2>2, EmptyHasNone DEF PlacesInv, DistinctInv
<1>9. CASE ReplayFrame
  <2> DEFINE g == Head(replay)
  <2>1. /\ g \in Frames
        /\ \A f : In(f, replay) <=> f = g \/ In(f, replay')
        /\ Distinct(replay') /\ ~In(g, replay')
    BY <1>1, <1>2, <1>9, TailDrops DEF ReplayFrame, DistinctInv
  <2>2. handled' = Append(handled, g) /\ UNCHANGED <<asked, inbox, rframe, backlog>>
    BY <1>9 DEF ReplayFrame, Deliver
  <2> HIDE DEF g
  <2>3. ~In(g, handled)
    BY <1>2, <2>1 DEF PlaceInv
  <2>4. /\ \A f : In(f, handled') <=> In(f, handled) \/ f = g
        /\ Distinct(handled')
    BY <1>1, <1>2, <2>1, <2>2, <2>3, AppendAdds DEF DistinctInv
  <2>5. ASSUME NEW f \in Frames PROVE PlaceInv(f)'
    <3>1. PlaceInv(f)
      BY <1>2
    <3> QED BY <2>1, <2>2, <2>4, <3>1 DEF PlaceInv
  <2> QED BY <1>2, <2>1, <2>2, <2>4, <2>5 DEF PlacesInv, DistinctInv
<1> QED BY WayCases, <1>3, <1>4, <1>5, <1>6, <1>7, <1>8, <1>9

\* Main handles the first that waits, and the reader holds back behind the last.
LEMMA HeldStep ==
  ASSUME OrderInv, [Next]_vars PROVE HeldInv'
<1>1. /\ backlog \in Seq(Frames) /\ replay \in Seq(Frames)
      /\ handled \in Seq(Frames) /\ held \in Seq(Frames)
      /\ rstage \in {"frame", "handle"} => rframe \in Frames
  BY PlacesAreSequences DEF OrderInv
<1>2. Waiting \in Seq(Frames)
  BY <1>1 DEF Waiting
<1>3. /\ RoutingInv /\ \A f \in Frames : PlaceInv(f)
      /\ Gone \in Nat /\ InOrder(held, handled, Gone)
      /\ \A k \in DOMAIN Waiting : Waiting[k] = held[Gone + k]
  BY DEF OrderInv, PlacesInv, HeldInv
<1> USE DEF peer, socket, sending, routing, work, proc
<1>4. ASSUME UNCHANGED <<held, handled>>, Waiting' = Waiting PROVE HeldInv'
  BY <1>3, <1>4 DEF HeldInv, Gone, InOrder, In
<1>5. CASE \/ UNCHANGED ways \/ ReadFrame
           \/ \E f \in Frames : Ask(f)
  BY <1>4, <1>5 DEF ways, ReadFrame, Ask, Waiting
<1>6. CASE SetHandlers
  <2>1. Waiting' = Waiting
    BY <1>3, <1>6 DEF SetHandlers, RoutingInv, Waiting
  <2> QED BY <1>4, <1>6, <2>1 DEF SetHandlers
<1>7. CASE Route
  <2>1. CASE handlers
    BY <1>4, <1>7, <2>1 DEF Route, Waiting
  <2>2. CASE ~handlers
    <3>1. /\ rframe \in Frames
          /\ Waiting' = Append(Waiting, rframe) /\ held' = Append(held, rframe)
          /\ handled' = handled
      BY <1>1, <1>7, <2>2 DEF Route, Waiting
    <3> DEFINE n == Len(Waiting)
               l == Len(held)
    <3>2. /\ n \in Nat /\ l \in Nat /\ Gone = l - n /\ DOMAIN Waiting = 1 .. n
          /\ DOMAIN Waiting' = 1 .. (n + 1) /\ Len(Waiting') = n + 1
          /\ Len(held') = l + 1
          /\ Waiting'[n + 1] = rframe /\ held'[l + 1] = rframe
          /\ \A k \in 1 .. n : Waiting'[k] = Waiting[k]
          /\ \A k \in 1 .. l : held'[k] = held[k]
      BY <1>1, <1>2, <3>1 DEF Gone
    <3> HIDE DEF n, l
    <3>3. Gone' = Gone
      BY <3>2 DEF Gone
    <3>4. ASSUME NEW k \in 1 .. (n + 1) PROVE Waiting'[k] = held'[Gone + k]
      <4>1. CASE k \in 1 .. n
        <5>1. Gone + k \in 1 .. l
          BY <1>3, <3>2, <4>1
        <5> QED BY <1>3, <3>2, <4>1, <5>1
      <4>2. CASE k = n + 1
        <5>1. Gone + k = l + 1
          BY <3>2, <4>2
        <5> QED BY <3>2, <4>2, <5>1
      <4> QED BY <3>2, <4>1, <4>2
    <3>5. \A k \in 1 .. Gone : held'[k] = held[k]
      BY <1>3, <3>2
    <3>6. InOrder(held', handled, Gone)
      <4>1. \A k \in 1 .. Gone : \A j \in 1 .. (k - 1) : j \in 1 .. Gone
        BY <1>3
      <4> QED BY <1>3, <3>5, <4>1 DEF InOrder
    <3> QED BY <1>3, <3>1, <3>2, <3>3, <3>4, <3>6 DEF HeldInv
  <2> QED BY <2>1, <2>2
<1>8. CASE DeliverFrame
  <2>1. rframe \in Frames /\ ~In(rframe, handled)
    BY <1>1, <1>3, <1>8 DEF DeliverFrame, PlaceInv
  <2>2. /\ handled' = Append(handled, rframe) /\ held' = held
        /\ Waiting' = Waiting
    BY <1>8 DEF DeliverFrame, Deliver, Waiting
  <2>3. Gone' = Gone /\ InOrder(held, handled', Gone)
    BY <1>1, <1>3, <2>1, <2>2, OrderGrows DEF Gone
  <2> QED BY <1>3, <2>2, <2>3 DEF HeldInv
<1>9. CASE ReplayFrame
  <2> DEFINE g == Head(Waiting)
             n == Len(Waiting)
  <2>1. /\ handlers /\ Waiting # <<>> /\ Waiting' = Tail(Waiting)
        /\ handled' = Append(handled, g) /\ held' = held
    BY <1>3, <1>9 DEF ReplayFrame, Deliver, RoutingInv, Waiting
  <2>2. /\ n \in Nat \ {0} /\ DOMAIN Waiting = 1 .. n /\ g = Waiting[1]
        /\ g \in Frames
        /\ Len(Waiting') = n - 1 /\ DOMAIN Waiting' = 1 .. (n - 1)
        /\ \A k \in 1 .. (n - 1) : Waiting'[k] = Waiting[k + 1]
    BY <1>2, <2>1
  <2> HIDE DEF g, n
  <2>3. In(g, replay)
    <3>1. Waiting = replay
      BY <2>1 DEF Waiting
    <3>2. 1 \in DOMAIN Waiting
      BY <2>2
    <3> QED BY <2>2, <3>1, <3>2 DEF In
  <2>4. ~In(g, handled) /\ held[Gone + 1] = g
    BY <1>3, <2>2, <2>3 DEF PlaceInv
  <2>5. Len(held) \in Nat /\ Gone = Len(held) - n
    BY <1>1 DEF Gone, n
  <2>6. Gone' = Gone + 1
    BY <2>1, <2>2, <2>5 DEF Gone
  <2>7. InOrder(held, handled', Gone + 1)
    BY <1>1, <1>3, <2>1, <2>2, <2>4, OrderGrows
  <2>8. ASSUME NEW k \in 1 .. (n - 1)
        PROVE  Waiting'[k] = held[(Gone + 1) + k]
    <3>1. k + 1 \in 1 .. n /\ Gone + (k + 1) = (Gone + 1) + k
      BY <1>3, <2>2
    <3> QED BY <1>3, <2>2, <3>1
  <2> QED BY <1>3, <2>1, <2>2, <2>6, <2>7, <2>8 DEF HeldInv
<1> QED BY WayCases, <1>5, <1>6, <1>7, <1>8, <1>9

\* The invariant, of a channel that has just been opened ...
LEMMA OrderInit == Init => OrderInv
<1> SUFFICES ASSUME Init PROVE OrderInv
  OBVIOUS
<1>1. TypeInv
  BY TypeInit
<1>2. /\ inbox = <<>> /\ backlog = <<>> /\ replay = <<>> /\ handled = <<>>
      /\ held = <<>> /\ rframe = Nobody /\ asked = {} /\ Nobody \notin Frames
  BY NobodyAssumption DEF Init
<1>3. RoutingInv
  BY DEF Init, RoutingInv
<1>4. PlacesInv
  BY <1>2, EmptyHasNone DEF PlacesInv, DistinctInv, PlaceInv
<1>5. HeldInv
  <2>1. Waiting = <<>> /\ Gone = 0
    BY <1>2 DEF Waiting, Gone
  <2> QED BY <1>2, <2>1 DEF HeldInv, InOrder
<1> QED BY <1>1, <1>3, <1>4, <1>5 DEF OrderInv

\* ... and after every step.
LEMMA OrderStep == OrderInv /\ [Next]_vars => OrderInv'
<1> SUFFICES ASSUME OrderInv, [Next]_vars PROVE OrderInv'
  OBVIOUS
<1>1. TypeInv'
  BY QueuesStep, StateStep, SendTypeStep DEF TypeInv, OrderInv
<1>2. RoutingInv' /\ PlacesInv' /\ HeldInv'
  BY RoutingStep, PlacesStep, HeldStep DEF OrderInv
<1> QED BY <1>1, <1>2 DEF OrderInv

-----------------------------------------------------------------------------
(* Theorems.                                                               *)

\* For any loads and senders: a request the supervisor has sent is on its way,
\* held back, in the reader's hands or handled, in one of them and there once.
THEOREM FramesAreInOnePlace == Spec => []OnePlace
<1>1. OrderInv => OnePlace
  <2> SUFFICES ASSUME OrderInv, NEW f \in asked,
                      f \in Requests
               PROVE  LET places == inbox \o backlog \o replay \o handled
                                      \o Reading
                      IN  Cardinality({k \in DOMAIN places : places[k] = f}) = 1
    BY DEF OnePlace, Reading
  <2> DEFINE two == inbox \o backlog
             three == two \o replay
             four == three \o handled
             places == four \o Reading
  <2>1. f \in Frames /\ f \in Requests
    BY RequestsAreFrames
  <2>2. /\ inbox \in Seq(Frames) /\ backlog \in Seq(Frames)
        /\ replay \in Seq(Frames) /\ handled \in Seq(Frames)
        /\ Nobody \notin Frames
    BY PlacesAreSequences DEF OrderInv
  <2>3. /\ Reading \in Seq(Frames) /\ AtMostOnce(f, Reading)
        /\ In(f, Reading) <=> rframe = f
    BY <2>1, <2>2 DEF OrderInv, TypeInv, StateInv, Reading, AtMostOnce, In
  <2>4. /\ AtMostOnce(f, inbox) /\ AtMostOnce(f, backlog)
        /\ AtMostOnce(f, replay) /\ AtMostOnce(f, handled)
        /\ PlaceInv(f)
    BY <2>1 DEF OrderInv, PlacesInv, DistinctInv, Distinct, AtMostOnce
  <2> HIDE DEF two, three, four, places
  <2>5. /\ two \in Seq(Frames) /\ AtMostOnce(f, two)
        /\ In(f, two) <=> In(f, inbox) \/ In(f, backlog)
    BY <2>2, <2>4, JoinAdds DEF two, PlaceInv
  <2>6. /\ three \in Seq(Frames) /\ AtMostOnce(f, three)
        /\ In(f, three) <=> In(f, two) \/ In(f, replay)
    BY <2>2, <2>4, <2>5, JoinAdds DEF three, PlaceInv
  <2>7. /\ four \in Seq(Frames) /\ AtMostOnce(f, four)
        /\ In(f, four) <=> In(f, three) \/ In(f, handled)
    BY <2>2, <2>4, <2>5, <2>6, JoinAdds DEF four, PlaceInv
  <2>8. AtMostOnce(f, places) /\ In(f, places)
    BY <2>1, <2>3, <2>4, <2>5, <2>6, <2>7, JoinAdds DEF places, PlaceInv
  <2>9. PICK k \in DOMAIN places : places[k] = f
    BY <2>8 DEF In
  <2>10. {j \in DOMAIN places : places[j] = f} = {k}
    BY <2>8, <2>9 DEF AtMostOnce
  <2>11. Cardinality({k}) = 1
    BY FS_Singleton
  <2> QED BY <2>10, <2>11 DEF places, four, three, two
<1> QED BY <1>1, OrderInit, OrderStep, PTL DEF Spec

\* For any loads and senders: what came before the handlers existed is handled in
\* the order it came in, whatever the reader handles in between.
THEOREM HeldFramesInOrder == Spec => []HeldInOrder
<1>1. OrderInv => HeldInOrder
  <2> SUFFICES ASSUME OrderInv, NEW l \in DOMAIN held, NEW n \in DOMAIN handled,
                      handled[n] = held[l], NEW k \in 1 .. (l - 1)
               PROVE  \E m \in 1 .. (n - 1) : handled[m] = held[k]
    BY DEF HeldInOrder
  <2>1. /\ held \in Seq(Frames) /\ handled \in Seq(Frames)
        /\ backlog \in Seq(Frames) /\ replay \in Seq(Frames)
    BY PlacesAreSequences DEF OrderInv
  <2>2. /\ Waiting \in Seq(Frames) /\ DOMAIN Waiting = 1 .. Len(Waiting)
        /\ Len(Waiting) \in Nat /\ DOMAIN held = 1 .. Len(held)
        /\ Len(held) \in Nat /\ DOMAIN handled = 1 .. Len(handled)
        /\ Len(handled) \in Nat
    BY <2>1 DEF Waiting
  <2>3. /\ Gone \in Nat /\ Gone = Len(held) - Len(Waiting)
        /\ InOrder(held, handled, Gone)
        /\ \A j \in DOMAIN Waiting : Waiting[j] = held[Gone + j]
    BY DEF OrderInv, HeldInv, Gone
  \* What is handled does not wait any more ...
  <2>4. l \in 1 .. Gone
    <3>1. SUFFICES ASSUME l > Gone PROVE FALSE
      BY <2>2, <2>3
    <3>2. l - Gone \in DOMAIN Waiting /\ Gone + (l - Gone) = l
      BY <2>2, <2>3, <3>1
    <3>3. Waiting[l - Gone] = held[l] /\ held[l] \in Frames
      BY <2>1, <2>3, <3>2
    <3>4. In(held[l], Waiting) /\ In(held[l], handled)
      BY <3>2, <3>3 DEF In
    <3>5. PlaceInv(held[l])
      BY <3>3 DEF OrderInv, PlacesInv
    <3> QED BY <3>4, <3>5 DEF Waiting, PlaceInv
  \* ... so what was held before it was handled, and earlier.
  <2>5. k \in 1 .. Gone
    BY <2>3, <2>4
  <2>6. PICK m \in DOMAIN handled : handled[m] = held[k]
    BY <2>3, <2>5 DEF InOrder, In
  <2>7. m < n
    BY <2>3, <2>4, <2>6 DEF InOrder
  <2> QED BY <2>2, <2>6, <2>7
<1> QED BY <1>1, OrderInit, OrderStep, PTL DEF Spec

-----------------------------------------------------------------------------
(* The messages on the wire.                                               *)

\* The messages of a run of chunks: Wire is those of the stream.
Payloads(st) == [k \in 1 .. (Len(st) \div 2) |-> st[2 * k].msg]

\* They are messages, of which each chunk is a part.
LEMMA PayloadsTyped ==
  ASSUME NEW st \in Seq(Chunks)
  PROVE  /\ Len(st) \div 2 \in Nat
         /\ Payloads(st) \in Seq(Messages)
         /\ Len(Payloads(st)) = Len(st) \div 2
         /\ DOMAIN Payloads(st) = 1 .. (Len(st) \div 2)
<1>1. Len(st) \in Nat /\ Len(st) \div 2 \in Nat
  OBVIOUS
<1>2. ASSUME NEW k \in 1 .. (Len(st) \div 2) PROVE st[2 * k].msg \in Messages
  <2>1. 2 * k \in 1 .. Len(st)
    BY <1>1
  <2>2. st[2 * k] \in Chunks
    BY <2>1
  <2> QED BY <2>2 DEF Chunks
<1> QED BY <1>1, <1>2 DEF Payloads

\* A header does not make a message ...
LEMMA HeaderHides ==
  ASSUME NEW st \in Seq(Chunks), NEW c \in Chunks, Len(st) % 2 = 0
  PROVE  Payloads(Append(st, c)) = Payloads(st)
<1>1. /\ Len(st) \in Nat /\ Len(Append(st, c)) = Len(st) + 1
      /\ \A k \in 1 .. Len(st) : Append(st, c)[k] = st[k]
  OBVIOUS
<1>2. (Len(st) + 1) \div 2 = Len(st) \div 2
  BY <1>1
<1>3. \A k \in 1 .. (Len(st) \div 2) : 2 * k \in 1 .. Len(st)
  BY <1>1
<1> QED BY <1>1, <1>2, <1>3 DEF Payloads

\* ... the payload does ...
LEMMA PayloadTells ==
  ASSUME NEW st \in Seq(Chunks), NEW c \in Chunks, Len(st) % 2 = 1
  PROVE  Payloads(Append(st, c)) = Append(Payloads(st), c.msg)
<1> DEFINE after == Append(st, c)
           n == Len(st) \div 2
           old == Payloads(st)
           new == Payloads(after)
<1>1. /\ Len(st) \in Nat /\ n \in Nat /\ Len(st) = 2 * n + 1
      /\ after \in Seq(Chunks) /\ Len(after) = 2 * n + 2
      /\ after[2 * n + 2] = c /\ \A k \in 1 .. (2 * n + 1) : after[k] = st[k]
  OBVIOUS
<1>2. (2 * n + 2) \div 2 = n + 1
  BY <1>1
<1>3. /\ old \in Seq(Messages) /\ Len(old) = n
      /\ new \in Seq(Messages) /\ Len(new) = n + 1
      /\ c.msg \in Messages
  BY <1>1, <1>2, PayloadsTyped DEF Chunks
<1>4. /\ \A k \in 1 .. n : old[k] = st[2 * k].msg
      /\ \A k \in 1 .. (n + 1) : new[k] = after[2 * k].msg
  BY <1>1, <1>2 DEF Payloads
<1> HIDE DEF after, n, old, new
<1>5. ASSUME NEW k \in 1 .. (n + 1) PROVE new[k] = Append(old, c.msg)[k]
  <2>1. CASE k = n + 1
    <3>1. 2 * k = 2 * n + 2
      BY <1>1, <2>1
    <3>2. new[k] = c.msg
      BY <1>1, <1>4, <3>1
    <3> QED BY <1>3, <2>1, <3>2
  <2>2. CASE k \in 1 .. n
    <3>1. 2 * k \in 1 .. (2 * n + 1)
      BY <1>1, <2>2
    <3>2. new[k] = old[k]
      BY <1>1, <1>4, <2>2, <3>1
    <3> QED BY <1>3, <2>2, <3>2
  <2>3. n \in Nat
    BY <1>1
  <2>4. k = n + 1 \/ k \in 1 .. n
    BY <2>3
  <2> QED BY <2>1, <2>2, <2>4
<1>6. Append(old, c.msg) \in Seq(Messages) /\ Len(Append(old, c.msg)) = n + 1
  BY <1>3
<1> QED BY <1>3, <1>5, <1>6, SeqEqual DEF new, after, old

\* ... and who reads it takes the first message.
LEMMA PayloadTaken ==
  ASSUME NEW h \in Chunks, NEW q \in Seq(Chunks), q # <<>>
  PROVE  /\ Payloads(<<h>> \o q) # <<>>
         /\ Head(Payloads(<<h>> \o q)) = q[1].msg
         /\ Payloads(Tail(q)) = Tail(Payloads(<<h>> \o q))
<1> DEFINE all == <<h>> \o q
           rest == Tail(q)
           m == Len(rest)
           n == m \div 2
           old == Payloads(all)
           new == Payloads(rest)
<1>1. /\ m \in Nat /\ n \in Nat /\ all \in Seq(Chunks) /\ rest \in Seq(Chunks)
      /\ Len(all) = m + 2 /\ all[2] = q[1]
      /\ \A k \in 1 .. m : rest[k] = all[k + 2]
  OBVIOUS
<1>2. (m + 2) \div 2 = n + 1 /\ 2 * n <= m
  BY <1>1
<1>3. /\ old \in Seq(Messages) /\ Len(old) = n + 1
      /\ new \in Seq(Messages) /\ Len(new) = n
  BY <1>1, <1>2, PayloadsTyped
<1>4. /\ \A k \in 1 .. (n + 1) : old[k] = all[2 * k].msg
      /\ \A k \in 1 .. n : new[k] = rest[2 * k].msg
  BY <1>1, <1>2 DEF Payloads
<1> HIDE DEF all, rest, m, n, old, new
<1>5. old # <<>> /\ Head(old) = q[1].msg
  <2>1. 1 \in 1 .. (n + 1) /\ old[1] = all[2 * 1].msg
    BY <1>1, <1>4
  <2> QED BY <1>1, <1>3, <2>1
<1>6. Tail(old) \in Seq(Messages) /\ Len(Tail(old)) = n
      /\ \A k \in 1 .. n : Tail(old)[k] = old[k + 1]
  BY <1>1, <1>3, <1>5
<1>7. ASSUME NEW k \in 1 .. n PROVE new[k] = Tail(old)[k]
  <2>1. k + 1 \in 1 .. (n + 1) /\ 2 * k \in 1 .. m /\ 2 * (k + 1) = 2 * k + 2
    BY <1>1, <1>2
  <2> QED BY <1>1, <1>4, <1>6, <2>1
<1>8. new = Tail(old)
  BY <1>3, <1>6, <1>7, SeqEqual
<1> QED BY <1>5, <1>8 DEF new, old, all, rest

\* What is on the wire are messages, and the stream's.
LEMMA WireTyped ==
  ASSUME TypeInv
  PROVE  /\ Stream \in Seq(Chunks) /\ Wire = Payloads(Stream)
         /\ Wire \in Seq(Messages) /\ DOMAIN Wire = 1 .. Len(Wire)
<1>1. Stream \in Seq(Chunks) /\ Wire = Payloads(Stream)
  BY StreamGrows DEF TypeInv, Wire, Payloads
<1> QED BY <1>1, PayloadsTyped

\* A thread that writes its payload puts its message on the wire, and none that
\* writes its header does.
LEMMA WriteTells ==
  ASSUME TypeInv, WriteInv, Boundary, NEW t \in Threads, WriteChunk(t)
  PROVE  /\ heard' = heard
         /\ at[t] = "header" => Wire' = Wire
         /\ at[t] = "payload" => Wire' = Append(Wire, msg[t])
<1> DEFINE c == [part |-> at[t], msg |-> msg[t]]
<1>1. /\ c \in Chunks /\ c.msg = msg[t] /\ ~(peerGone \/ shut)
      /\ \A u \in Threads \ {t} : at[u] \notin {"header", "payload"}
      /\ heard' = heard
  BY DEF WriteChunk, Chunks, TypeInv, SendInv, WriteInv, peer
<1>2. Stream \in Seq(Chunks) /\ Wire = Payloads(Stream) /\ Wire' = Payloads(Stream')
  BY WireTyped DEF Wire, Payloads
<1>3. Stream' = Append(Stream, c)
  BY <1>1, StreamGrows DEF WriteChunk, Stream, Announced, peer, TypeInv
<1>4. ASSUME at[t] = "header" PROVE Wire' = Wire
  <2>1. Len(Stream) % 2 = 0
    BY <1>1, <1>4 DEF Boundary
  <2> QED BY <1>1, <1>2, <1>3, <2>1, HeaderHides
<1>5. ASSUME at[t] = "payload" PROVE Wire' = Append(Wire, c.msg)
  <2>1. Len(Stream) % 2 = 1
    BY <1>1, <1>5 DEF Boundary
  <2> QED BY <1>1, <1>2, <1>3, <2>1, PayloadTells
<1> QED BY <1>1, <1>4, <1>5

\* The supervisor hears the messages in the order they were put on the wire.
LEMMA ListenHears ==
  ASSUME TypeInv, Whole(Stream), Listen
  PROVE  \/ Wire' = Wire /\ heard' = heard
         \/ /\ Wire # <<>>
            /\ Wire' = Tail(Wire) /\ heard' = heard \cup {Head(Wire)}
<1>1. /\ out \in Seq(Chunks) /\ out # <<>> /\ Head(out) \in Chunks
      /\ Head(out) = out[1] /\ out = <<Head(out)>> \o Tail(out)
      /\ out' = Tail(out)
  BY DEF Listen, TypeInv, QueuesInv
<1>2. Wire = Payloads(Stream) /\ Wire' = Payloads(Stream')
  BY DEF Wire, Payloads
<1>3. CASE partial = Nobody
  <2>1. Stream = out
    BY <1>1, <1>3 DEF Stream, Announced
  <2>2. Head(out).part = "header"
    BY <1>1, <2>1 DEF Whole
  <2>3. partial' = Head(out).msg /\ partial' # Nobody /\ heard' = heard
    BY <1>1, <2>2, NobodyAssumption DEF Listen, Chunks
  <2>4. [part |-> "header", msg |-> Head(out).msg] = Head(out)
    BY <1>1, <2>2 DEF Chunks
  <2>5. Stream' = Stream
    BY <1>1, <2>1, <2>3, <2>4 DEF Stream, Announced
  <2> QED BY <1>2, <2>3, <2>5
<1>4. CASE partial # Nobody
  <2> DEFINE h == [part |-> "header", msg |-> partial]
  <2>1. h \in Chunks /\ Stream = <<h>> \o out
    BY <1>4 DEF Stream, Announced, TypeInv, StateInv, Chunks
  <2>2. Head(out).part = "payload"
    BY <1>1, <2>1, FrameRead
  <2>3. partial' = Nobody /\ heard' = heard \cup {Head(out).msg}
    BY <2>2 DEF Listen
  <2>4. Stream' = Tail(out)
    BY <1>1, <2>3 DEF Stream, Announced
  <2>5. Wire # <<>> /\ Head(Wire) = Head(out).msg /\ Wire' = Tail(Wire)
    BY <1>1, <1>2, <2>1, <2>4, PayloadTaken
  <2> QED BY <2>3, <2>5
<1> QED BY <1>3, <1>4

-----------------------------------------------------------------------------
(* Why each message is sent.                                               *)

\* What was said to the supervisor, whether it has heard it or not.
Said == heard \cup {Wire[k] : k \in DOMAIN Wire}

\* The request that m answers was handled; a report and the greeting have begun.
Caused(m) == /\ CauseOf(m) \in Requests => In(CauseOf(m), handled)
             /\ m.kind = "report" => m.of \in reported
             /\ m.kind = "hello" => mstage # "hello"

\* What was said had its cause, and what is about to be said has one that nobody
\* has spoken of or is about to.
SaidInv ==
  /\ \A m \in Said : Caused(m)
  /\ \A t \in Threads : at[t] # "idle" =>
       /\ Caused(msg[t])
       /\ \A m \in Said : CauseOf(m) # CauseOf(msg[t])
       /\ \A u \in Threads \ {t} : at[u] # "idle" => CauseOf(msg[u]) # CauseOf(msg[t])

ContractInv ==
  OrderInv /\ WriteInv /\ Whole(Stream) /\ Boundary /\ SaidInv

\* A message answers a request, or is its own cause.
LEMMA CausesAre ==
  ASSUME NEW m \in Messages
  PROVE  \/ m.kind \in {"accepted", "rejected", "known", "unknown", "settled"}
            /\ CauseOf(m) \in Requests
         \/ m.kind \in {"report", "hello"} /\ CauseOf(m) = m
BY DEF Messages, CauseOf, Requests

\* A cause does not go away.
LEMMA CauseStays ==
  ASSUME TypeInv, [Next]_vars, NEW m, Caused(m) PROVE Caused(m)'
<1>1. \A f : In(f, handled) => In(f, handled')
  <2>1. handled \in Seq(Frames) /\ Requests \subseteq Frames
    BY PlacesAreSequences
  <2>2. ASSUME NEW g \in Frames, handled' = Append(handled, g)
        PROVE  \A f : In(f, handled) => In(f, handled')
    BY <2>1, <2>2, AppendAdds
  <2>3. CASE DeliverFrame
    BY <2>1, <2>2, <2>3, PlacesAreSequences DEF DeliverFrame, Deliver
  <2>4. CASE ReplayFrame
    <3>1. Head(replay) \in Frames
      BY <2>4, PlacesAreSequences DEF ReplayFrame
    <3> QED BY <2>2, <2>4, <3>1 DEF ReplayFrame, Deliver
  <2>5. CASE \/ UNCHANGED ways \/ ReadFrame \/ Route \/ SetHandlers
             \/ \E f \in Frames : Ask(f)
    <3>1. handled' = handled
      BY <2>5 DEF ways, ReadFrame, Route, SetHandlers, Ask, work
    <3> QED BY <3>1
  <2> QED BY <2>3, <2>4, <2>5, WayCases
<1>2. reported \subseteq reported' /\ (mstage' = "hello" => mstage = "hello")
  <2> USE DEF peer, socket, sending, routing, work, proc, vars
  <2>1. ASSUME NEW t \in Threads, SendStep(t) PROVE UNCHANGED <<reported, mstage>>
    BY <2>1 DEF SendStep, LockForWrite, WriteChunk, WriteFails, WriteKills
  <2>2. ASSUME NEW t \in Senders, Report(t)
        PROVE  reported \subseteq reported' /\ mstage' = mstage
    BY <2>2 DEF Report
  <2>3. CASE ReaderStep
    BY <2>3 DEF ReaderStep, ReadFrame, Route, DeliverFrame, ReaderEnds
  <2>4. CASE MainStep \/ Stop
    BY <2>4 DEF MainStep, Stop, SendHello, SetHandlers, ReplayFrame, ReplayDone,
                JoinReader, CloseFd
  <2>5. CASE \/ (\E f \in Frames : Ask(f)) \/ Listen \/ HangUp
             \/ Terminated \/ UNCHANGED vars
    BY <2>5 DEF Ask, Listen, HangUp, Terminated
  <2> QED BY <2>1, <2>2, <2>3, <2>4, <2>5 DEF Next, Container
<1> QED BY <1>1, <1>2 DEF Caused

\* A step that says nothing new and starts no message keeps the causes apart ...
LEMMA GoOn ==
  ASSUME TypeInv, SaidInv, [Next]_vars, Said' = Said,
         \A t \in Threads : at'[t] # "idle" => at[t] # "idle" /\ msg'[t] = msg[t]
  PROVE  SaidInv'
BY CauseStays DEF SaidInv

\* ... and so does one that starts a message whose cause comes with it.
LEMMA StartNew ==
  ASSUME TypeInv, SaidInv, [Next]_vars, Said' = Said, Said \subseteq Messages,
         NEW t \in Threads, at[t] = "idle", NEW m \in Messages, StartSend(t, m),
         Caused(m)', \A n \in Messages : Caused(n) => CauseOf(n) # CauseOf(m)
  PROVE  SaidInv'
<1>1. \A u \in Threads : at[u] # "idle" => msg[u] \in Messages
  BY DEF TypeInv, SendInv
<1>2. /\ \A u \in Threads \ {t} : at'[u] = at[u] /\ msg'[u] = msg[u]
      /\ at'[t] = "idle" \/ msg'[t] = m
  BY DEF StartSend, TypeInv, SendInv
<1>3. \A n \in Said : Caused(n)' /\ CauseOf(n) # CauseOf(m)
  BY CauseStays DEF SaidInv
<1>4. ASSUME NEW u \in Threads \ {t}, at'[u] # "idle"
      PROVE  /\ Caused(msg[u])' /\ CauseOf(msg'[u]) # CauseOf(m)
             /\ \A n \in Said : CauseOf(n) # CauseOf(msg'[u])
             /\ \A v \in Threads \ {t, u} :
                  at'[v] # "idle" => CauseOf(msg'[v]) # CauseOf(msg'[u])
  BY <1>1, <1>2, <1>4, CauseStays DEF SaidInv
<1>5. ASSUME NEW u \in Threads, at'[u] # "idle"
      PROVE  /\ Caused(msg[u])'
             /\ \A n \in Said : CauseOf(n) # CauseOf(msg'[u])
             /\ \A v \in Threads \ {u} :
                  at'[v] # "idle" => CauseOf(msg'[v]) # CauseOf(msg'[u])
  BY <1>2, <1>3, <1>4, <1>5
<1> QED BY <1>3, <1>5 DEF SaidInv

\* A handler answers a request nobody has handled before, or says nothing.
LEMMA AnswerIsNew ==
  ASSUME TypeInv, SaidInv, [Next]_vars, Said' = Said, Said \subseteq Messages,
         NEW t \in {"reader", "main"}, NEW f \in Requests, Deliver(t, f),
         ~In(f, handled)
  PROVE  SaidInv'
<1>1. t \in Threads /\ at[t] = "idle"
  BY DEF Threads, Deliver
<1>2. f.kind \in {"load", "query", "cancel"} /\ f.seq \in Seqs
      /\ f = [kind |-> f.kind, seq |-> f.seq]
  BY DEF Requests
<1>3. ASSUME NEW kind \in Answers(f), StartSend(t, [kind |-> kind, of |-> f.seq])
      PROVE  SaidInv'
  <2> DEFINE m == [kind |-> kind, of |-> f.seq]
  <2>1. /\ m \in Messages /\ CauseOf(m) = f
        /\ m.kind # "report" /\ m.kind # "hello"
    BY <1>2 DEF Answers, Messages, CauseOf
  <2>2. In(f, handled')
    <3>1. handled' = Append(handled, f) /\ handled \in Seq(Frames) /\ f \in Frames
      BY PlacesAreSequences DEF Deliver
    <3> QED BY <3>1, AppendAdds
  <2> HIDE DEF m
  <2>3. Caused(m)'
    BY <2>1, <2>2 DEF Caused
  <2>4. \A n \in Messages : Caused(n) => CauseOf(n) # CauseOf(m)
    BY <2>1 DEF Caused
  <2> QED BY <1>1, <1>3, <2>1, <2>3, <2>4, StartNew DEF m
<1>4. CASE UNCHANGED <<at, msg>>
  BY <1>4, GoOn
<1> QED BY <1>3, <1>4 DEF Deliver

\* Every step keeps the causes apart.
LEMMA SaidStep == ContractInv /\ [Next]_vars => SaidInv'
<1> SUFFICES ASSUME ContractInv, [Next]_vars PROVE SaidInv'
  OBVIOUS
<1> USE DEF peer, socket, sending, routing, work, proc, vars
<1>1. /\ TypeInv /\ SaidInv /\ OrderInv /\ RoutingInv
      /\ \A f \in Frames : PlaceInv(f)
      /\ Wire \in Seq(Messages) /\ DOMAIN Wire = 1 .. Len(Wire)
      /\ heard \subseteq Messages
      /\ at \in [Threads -> {"idle", "lock", "header", "payload"}]
      /\ msg \in [Threads -> Messages \cup {Nobody}]
      /\ Senders \subseteq Threads /\ "reader" \in Threads /\ "main" \in Threads
  BY WireTyped
     DEF ContractInv, OrderInv, PlacesInv, TypeInv, StateInv, SendInv, Threads
<1>2. Said \subseteq Messages
  BY <1>1 DEF Said
<1>3. ASSUME UNCHANGED <<partial, out, heard>> PROVE Said' = Said
  BY <1>3 DEF Said, Wire, Stream, Announced
\* Messages on their way ...
<1>4. ASSUME NEW t \in Threads, WriteChunk(t) PROVE SaidInv'
  <2>1. /\ \A u \in Threads \ {t} : at'[u] = at[u] /\ msg'[u] = msg[u]
        /\ at[t] = "header" => msg'[t] = msg[t]
        /\ at[t] = "payload" => at'[t] = "idle"
        /\ at[t] # "idle"
    BY <1>1, <1>4 DEF WriteChunk, EndSend
  <2>2. \/ Said' = Said
        \/ at[t] = "payload" /\ Said' = Said \cup {msg[t]}
    <3>1. /\ heard' = heard
          /\ \/ Wire' = Wire
             \/ at[t] = "payload" /\ Wire' = Append(Wire, msg[t])
      BY <1>1, <1>4, WriteTells DEF ContractInv, WriteChunk
    <3>2. CASE Wire' = Wire
      BY <3>1, <3>2 DEF Said
    <3>3. CASE at[t] = "payload" /\ Wire' = Append(Wire, msg[t])
      <4>1. msg[t] \in Messages
        BY <1>1, <2>1 DEF TypeInv, SendInv
      <4>2. \A m : In(m, Wire') <=> In(m, Wire) \/ m = msg[t]
        BY <1>1, <3>3, <4>1, AppendAdds
      <4> QED BY <3>1, <3>3, <4>2 DEF Said, In
    <3> QED BY <3>1, <3>2, <3>3
  <2>3. CASE Said' = Said
    <3>1. \A u \in Threads : at'[u] # "idle" => at[u] # "idle" /\ msg'[u] = msg[u]
      BY <1>4, <2>1 DEF WriteChunk
    <3> QED BY <1>1, <2>3, <3>1, GoOn
  <2>4. CASE at[t] = "payload" /\ Said' = Said \cup {msg[t]}
    <3>1. \A m \in Said' : Caused(m)'
      BY <1>1, <2>1, <2>4, CauseStays DEF SaidInv
    <3>2. ASSUME NEW u \in Threads, at'[u] # "idle"
          PROVE  /\ u # t /\ at[u] # "idle" /\ msg'[u] = msg[u]
                 /\ Caused(msg[u])'
                 /\ \A m \in Said' : CauseOf(m) # CauseOf(msg[u])
                 /\ \A v \in Threads \ {u} :
                      at'[v] # "idle" => CauseOf(msg'[v]) # CauseOf(msg[u])
      BY <1>1, <2>1, <2>4, <3>2, CauseStays DEF SaidInv
    <3> QED BY <3>1, <3>2 DEF SaidInv
  <2> QED BY <2>2, <2>3, <2>4
<1>5. CASE Listen
  <2>1. Said' = Said
    <3>1. CASE Wire' = Wire /\ heard' = heard
      BY <3>1 DEF Said
    <3>2. CASE /\ Wire # <<>>
               /\ Wire' = Tail(Wire) /\ heard' = heard \cup {Head(Wire)}
      <4>1. \A m : In(m, Wire) <=> m = Head(Wire) \/ In(m, Wire')
        BY <1>1, <3>2, TailDrops
      <4> QED BY <3>2, <4>1 DEF Said, In
    <3> QED BY <1>1, <1>5, <3>1, <3>2, ListenHears DEF ContractInv
  <2> QED BY <1>1, <1>5, <2>1, GoOn DEF Listen
<1>6. ASSUME NEW t \in Threads, LockForWrite(t) \/ WriteFails(t) \/ WriteKills(t)
      PROVE  SaidInv'
  <2>1. /\ UNCHANGED <<partial, out, heard>>
        /\ \A u \in Threads : at'[u] # "idle" => at[u] # "idle" /\ msg'[u] = msg[u]
    BY <1>1, <1>6 DEF LockForWrite, WriteFails, WriteKills, EndSend
  <2> QED BY <1>1, <1>3, <2>1, GoOn
\* ... messages that are new ...
<1>7. ASSUME NEW t \in Senders, Report(t) PROVE SaidInv'
  <2> DEFINE m == [kind |-> "report", of |-> t]
  <2>1. /\ UNCHANGED <<partial, out, heard>> /\ StartSend(t, m)
        /\ at[t] = "idle" /\ t \notin reported /\ reported' = reported \cup {t}
    BY <1>1, <1>7 DEF Report, TypeInv, SendInv
  <2>2. m \in Messages /\ m.kind = "report" /\ m.of = t /\ CauseOf(m) = m
    BY DEF Messages, CauseOf
  <2> HIDE DEF m
  <2>3. CauseOf(m) \notin Requests
    BY <2>2 DEF Requests
  <2>4. Caused(m)'
    BY <2>1, <2>2, <2>3 DEF Caused
  <2>5. \A n \in Messages : Caused(n) => CauseOf(n) # CauseOf(m)
    BY <2>1, <2>2, <2>3, CausesAre DEF Caused
  <2> QED BY <1>1, <1>2, <1>3, <2>1, <2>2, <2>4, <2>5, StartNew
<1>8. CASE SendHello
  <2> DEFINE m == [kind |-> "hello", of |-> Nobody]
  <2>1. /\ UNCHANGED <<partial, out, heard>> /\ StartSend("main", m)
        /\ at["main"] = "idle" /\ mstage = "hello" /\ mstage' = "setup"
    BY <1>1, <1>8 DEF SendHello, TypeInv, SendInv
  <2>2. m \in Messages /\ m.kind = "hello" /\ CauseOf(m) = m
    BY DEF Messages, CauseOf
  <2> HIDE DEF m
  <2>3. CauseOf(m) \notin Requests
    BY <2>2 DEF Requests
  <2>4. Caused(m)'
    BY <2>1, <2>2, <2>3 DEF Caused
  <2>5. \A n \in Messages : Caused(n) => CauseOf(n) # CauseOf(m)
    BY <2>1, <2>2, <2>3, CausesAre DEF Caused
  <2> QED BY <1>1, <1>2, <1>3, <2>1, <2>2, <2>4, <2>5, StartNew
\* ... of the reader and of main ...
<1>9. CASE DeliverFrame
  <2>1. /\ UNCHANGED <<partial, out, heard>>
        /\ Deliver("reader", rframe) /\ rframe \in Requests
        /\ ~In(rframe, handled)
    BY <1>1, <1>9, RequestsAreFrames
       DEF DeliverFrame, TypeInv, StateInv, PlaceInv
  <2> QED BY <1>1, <1>2, <1>3, <2>1, AnswerIsNew
<1>10. CASE ReplayFrame
  <2>1. /\ UNCHANGED <<partial, out, heard>>
        /\ Deliver("main", Head(replay))
        /\ replay \in Seq(Requests) /\ replay # <<>>
    BY <1>1, <1>10 DEF ReplayFrame, TypeInv, QueuesInv
  <2>2. Head(replay) \in Requests /\ In(Head(replay), replay)
    BY <2>1, TailDrops
  <2>3. ~In(Head(replay), handled)
    BY <1>1, <2>2, RequestsAreFrames DEF PlaceInv
  <2> QED BY <1>1, <1>2, <1>3, <2>1, <2>2, <2>3, AnswerIsNew
\* ... and none at all.
<1>11. CASE \/ ReadFrame \/ Route \/ ReaderEnds \/ SetHandlers \/ ReplayDone
            \/ Stop \/ JoinReader \/ CloseFd \/ (\E f \in Frames : Ask(f))
            \/ HangUp \/ Terminated \/ UNCHANGED vars
  <2>1. UNCHANGED <<partial, out, heard, at, msg>>
    BY <1>11 DEF ReadFrame, Route, ReaderEnds, SetHandlers, ReplayDone, Stop,
                 JoinReader, CloseFd, Ask, HangUp, Terminated
  <2> QED BY <1>1, <1>3, <2>1, GoOn
<1> QED
  BY <1>4, <1>5, <1>6, <1>7, <1>8, <1>9, <1>10, <1>11
     DEF Next, Container, SendStep, ReaderStep, MainStep

-----------------------------------------------------------------------------
(* The contract.                                                           *)

Handled == {handled[k] : k \in DOMAIN handled}

\* ContractInv holds of a channel that has just been opened, which is one the
\* contract starts with ...
LEMMA ContractInit == Init => ContractInv /\ Contract!Init
<1> SUFFICES ASSUME Init PROVE ContractInv /\ Contract!Init
  OBVIOUS
<1>1. OrderInv /\ WriteInv
  BY OrderInit, WriteInit
<1>2. Stream = <<>>
  BY DEF Init, Stream, Announced
<1>3. Whole(Stream) /\ Boundary
  BY <1>2 DEF Whole, Boundary, Init
<1>4. Wire = <<>>
  BY <1>2 DEF Wire
<1>5. Said = {} /\ SaidInv
  BY <1>4 DEF Said, SaidInv, Init
<1>6. Contract!Init
  BY <1>4 DEF Contract!Init, Init
<1> QED BY <1>1, <1>3, <1>5, <1>6 DEF ContractInv

\* ... and after every step.
LEMMA ContractInvStep == ContractInv /\ [Next]_vars => ContractInv'
<1> SUFFICES ASSUME ContractInv, [Next]_vars PROVE ContractInv'
  OBVIOUS
<1>1. OrderInv' /\ WriteInv'
  BY OrderStep, WriteStep DEF ContractInv
<1>2. Whole(Stream)' /\ Boundary'
  BY FramesStep DEF ContractInv, OrderInv
<1>3. SaidInv'
  BY SaidStep
<1> QED BY <1>1, <1>2, <1>3 DEF ContractInv

\* A request is handled after it was asked, and once: it is the reader's or the
\* first of those that wait.
LEMMA HandlesOnce ==
  ASSUME ContractInv, NEW f \in Requests, handled' = Append(handled, f),
         In(f, replay) \/ rframe = f, UNCHANGED <<asked, Wire, heard>>
  PROVE  Contract!Next
<1>1. handled \in Seq(Frames) /\ f \in Frames
  BY PlacesAreSequences DEF ContractInv, OrderInv
<1>2. f \in asked /\ ~In(f, handled)
  BY <1>1 DEF ContractInv, OrderInv, PlacesInv, PlaceInv
<1>3. \A g : In(g, handled') <=> In(g, handled) \/ g = f
  BY <1>1, AppendAdds
<1>4. f \notin Handled /\ Handled' = Handled \cup {f}
  BY <1>2, <1>3 DEF Handled, In
<1>5. Contract!Handle(f)
  BY <1>2, <1>4 DEF Contract!Handle, Handled
<1> QED BY <1>5 DEF Contract!Next

\* A message is said after its cause, and there is no other with that cause.
LEMMA SaysOnce ==
  ASSUME ContractInv, NEW t \in Threads, at[t] = "payload",
         Wire' = Append(Wire, msg[t]), UNCHANGED <<asked, handled, heard>>
  PROVE  Contract!Next
<1> DEFINE m == msg[t]
           Cause == [n \in Messages |-> CauseOf(n)]
<1>1. /\ m \in Messages /\ heard \subseteq Messages
      /\ Wire \in Seq(Messages) /\ DOMAIN Wire = 1 .. Len(Wire)
  BY WireTyped DEF ContractInv, OrderInv, TypeInv, SendInv, StateInv
<1>2. Said \subseteq Messages
  BY <1>1 DEF Said
<1>3. Caused(m) /\ \A n \in Said : CauseOf(n) # CauseOf(m)
  BY DEF ContractInv, SaidInv
<1>4. Cause[m] = CauseOf(m) /\ \A n \in Said : Cause[n] = CauseOf(n)
  BY <1>1, <1>2
<1>5. /\ Cause[m] \in Requests => Cause[m] \in Handled
      /\ \A n \in Said : Cause[n] # Cause[m]
  BY <1>3, <1>4 DEF Caused, Handled, In
<1>6. Contract!Said = Said
  BY DEF Contract!Said, Said
<1>7. Contract!Say(m)
  BY <1>5, <1>6 DEF Contract!Say, Handled
<1> QED BY <1>1, <1>7 DEF Contract!Next

\* Every step is one of the contract's, or none.
LEMMA ContractStep ==
  ContractInv /\ [Next]_vars => [Contract!Next]_(Contract!cvars)
<1> SUFFICES ASSUME ContractInv, [Next]_vars
             PROVE  [Contract!Next]_(Contract!cvars)
  OBVIOUS
<1> USE DEF peer, socket, sending, routing, work, proc, vars
<1>1. TypeInv /\ RoutingInv /\ WriteInv /\ Whole(Stream) /\ Boundary
  BY DEF ContractInv, OrderInv
<1>2. ASSUME UNCHANGED <<partial, out, heard>> PROVE Wire' = Wire
  BY <1>2 DEF Wire, Stream, Announced
<1>3. ASSUME UNCHANGED <<asked \cap Requests, handled, heard, Wire>>
      PROVE  UNCHANGED Contract!cvars
  BY <1>3 DEF Contract!cvars
<1>4. ASSUME NEW f \in Frames, Ask(f) PROVE [Contract!Next]_(Contract!cvars)
  <2>1. /\ Wire' = Wire /\ UNCHANGED <<handled, heard>>
        /\ asked' = asked \cup {f} /\ f \notin asked
    BY <1>2, <1>4 DEF Ask
  <2>2. CASE f \notin Requests
    BY <1>3, <2>1, <2>2
  <2>3. CASE f \in Requests
    <3>1. Contract!Ask(f)
      BY <2>1, <2>3 DEF Contract!Ask
    <3> QED BY <2>3, <3>1 DEF Contract!Next
  <2> QED BY <2>2, <2>3
<1>5. CASE DeliverFrame
  <2>1. /\ rframe \in Requests /\ handled' = Append(handled, rframe)
        /\ UNCHANGED <<asked, heard, partial, out>>
    BY <1>1, <1>5 DEF DeliverFrame, Deliver, TypeInv, StateInv
  <2> QED BY <1>2, <2>1, HandlesOnce
<1>6. CASE ReplayFrame
  <2>1. /\ replay \in Seq(Requests) /\ replay # <<>>
        /\ handled' = Append(handled, Head(replay))
        /\ UNCHANGED <<asked, heard, partial, out>>
    BY <1>1, <1>6 DEF ReplayFrame, Deliver, TypeInv, QueuesInv
  <2>2. Head(replay) \in Requests /\ In(Head(replay), replay)
    BY <2>1, TailDrops
  <2> QED BY <1>2, <2>1, <2>2, HandlesOnce
<1>7. ASSUME NEW t \in Threads, WriteChunk(t)
      PROVE  [Contract!Next]_(Contract!cvars)
  <2>1. UNCHANGED <<asked, handled>>
    BY <1>7 DEF WriteChunk
  <2> QED BY <1>1, <1>3, <1>7, <2>1, WriteTells, SaysOnce DEF WriteChunk
<1>8. CASE Listen
  <2>1. UNCHANGED <<asked, handled>>
    BY <1>8 DEF Listen
  <2>2. CASE /\ Wire # <<>>
             /\ Wire' = Tail(Wire) /\ heard' = heard \cup {Head(Wire)}
    <3>1. Contract!Hear
      BY <2>1, <2>2 DEF Contract!Hear
    <3> QED BY <3>1 DEF Contract!Next
  <2> QED BY <1>1, <1>3, <1>8, <2>1, <2>2, ListenHears
<1>9. ASSUME UNCHANGED <<asked, handled, partial, out, heard>>
      PROVE  [Contract!Next]_(Contract!cvars)
  BY <1>2, <1>3, <1>9
<1>10. ASSUME NEW t \in Threads, LockForWrite(t) \/ WriteFails(t) \/ WriteKills(t)
       PROVE  [Contract!Next]_(Contract!cvars)
  BY <1>9, <1>10 DEF LockForWrite, WriteFails, WriteKills
<1>11. ASSUME NEW t \in Senders, Report(t)
       PROVE  [Contract!Next]_(Contract!cvars)
  BY <1>9, <1>11 DEF Report
<1>12. CASE ReadFrame \/ Route \/ ReaderEnds
  BY <1>9, <1>12 DEF ReadFrame, Route, ReaderEnds
<1>13. CASE SendHello \/ SetHandlers \/ ReplayDone \/ Stop \/ JoinReader \/ CloseFd
  BY <1>9, <1>13 DEF SendHello, SetHandlers, ReplayDone, Stop, JoinReader, CloseFd
<1>14. CASE HangUp \/ Terminated \/ UNCHANGED vars
  BY <1>9, <1>14 DEF HangUp, Terminated
<1> QED
  BY <1>4, <1>5, <1>6, <1>7, <1>8, <1>10, <1>11, <1>12, <1>13, <1>14
     DEF Next, Container, SendStep, ReaderStep, MainStep

\* For any loads, senders and room: with its threads, its chunks and its backlog
\* the channel is a wire of whole messages, on which each request is handled once
\* at most and answered once at most, in that order.
THEOREM KeepsContract == Spec => ImplementsContract
<1>1. Init => Contract!Init
  BY ContractInit
<1>2. Init => ContractInv
  BY ContractInit
<1> QED
  BY <1>1, <1>2, ContractInvStep, ContractStep, PTL
     DEF Spec, ImplementsContract, Contract!Spec

=============================================================================
