---------------------------- MODULE LoadContract ----------------------------
(***************************************************************************)
(* What the container promises the supervisor about one load, with none of *)
(* the threads, locks and processes that keep the promise:                 *)
(*   - a load is accepted once, runs at most once and, once over, never    *)
(*     comes back under the same id;                                       *)
(*   - the supervisor is given leave to send the load again only when the  *)
(*     load is over.  clone_isolated_component_manager.cpp:1334-1341 calls  *)
(*     `unknown` "the ONLY answer that lets the supervisor resend" and     *)
(*     control_channel.hpp:71-74 says the same of a confirmed cancel.      *)
(***************************************************************************)
CONSTANT Ids            \* the unique ids of one container process

VARIABLES status,       \* where each load is, as an outside observer sees it
          resendOk      \* loads the supervisor has been told it may resend

cvars == <<status, resendOk>>

Init == /\ status = [i \in Ids |-> "none"]
        /\ resendOk = {}

\* reserve_node_id: the id is given out and the load is tracked.
Accept(i) == /\ status[i] = "none"
             /\ status' = [status EXCEPT ![i] = "pending"]
             /\ UNCHANGED resendOk

\* The load ends well: its process is the container's from now on.
Start(i) == /\ status[i] = "pending"
            /\ status' = [status EXCEPT ![i] = "running"]
            /\ UNCHANGED resendOk

\* The load fails, is cancelled, or its process is unloaded, stopped or dead.
End(i) == /\ status[i] \in {"pending", "running"}
          /\ status' = [status EXCEPT ![i] = "over"]
          /\ UNCHANGED resendOk

\* `status{unknown}`, or `load_failed{cancelled}`.
AllowResend(i) == /\ status[i] = "over"
                  /\ resendOk' = resendOk \cup {i}
                  /\ UNCHANGED status

Next == \E i \in Ids : Accept(i) \/ Start(i) \/ End(i) \/ AllowResend(i)

Spec == Init /\ [][Next]_cvars
=============================================================================
