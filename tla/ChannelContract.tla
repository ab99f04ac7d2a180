--------------------------- MODULE ChannelContract ---------------------------
(***************************************************************************)
(* What the control channel promises the supervisor, with none of the      *)
(* threads, locks, chunks and backlogs that keep the promise:              *)
(*   - a request is handled once at most, and not before it was sent;      *)
(*   - it is answered once at most, and not before it was handled; a       *)
(*     greeting and a report come once at most;                            *)
(*   - messages arrive whole, and in the order they were sent in.          *)
(***************************************************************************)
EXTENDS Sequences

CONSTANTS Requests,     \* what the supervisor may send
          Messages,     \* what it may be sent
          Cause         \* per message: the request it answers, or itself

VARIABLES asked,        \* requests that were sent
          handled,      \* requests that were handled
          wire,         \* messages that were sent and did not arrive yet
          heard         \* messages that arrived

cvars == <<asked, handled, wire, heard>>

Said == heard \cup {wire[k] : k \in DOMAIN wire}

Init == asked = {} /\ handled = {} /\ wire = <<>> /\ heard = {}

Ask(f) == /\ f \notin asked
          /\ asked' = asked \cup {f}
          /\ UNCHANGED <<handled, wire, heard>>

Handle(f) == /\ f \in asked \ handled
             /\ handled' = handled \cup {f}
             /\ UNCHANGED <<asked, wire, heard>>

Say(m) == /\ Cause[m] \in Requests => Cause[m] \in handled
          /\ \A n \in Said : Cause[n] # Cause[m]
          /\ wire' = Append(wire, m)
          /\ UNCHANGED <<asked, handled, heard>>

Hear == /\ wire # <<>>
        /\ heard' = heard \cup {Head(wire)} /\ wire' = Tail(wire)
        /\ UNCHANGED <<asked, handled>>

Next == \/ \E f \in Requests : Ask(f) \/ Handle(f)
        \/ \E m \in Messages : Say(m)
        \/ Hear

Spec == Init /\ [][Next]_cvars
=============================================================================
