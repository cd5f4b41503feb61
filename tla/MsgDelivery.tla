---------------------------- MODULE MsgDelivery ----------------------------
(***************************************************************************)
(* What the driver promises the callers of SendMsg, without queues, locks, *)
(* acknowledgements or retries: an accepted message waits, at most one     *)
(* message is in progress at any time, a message for a sleeping node may   *)
(* be parked and comes back when the node wakes up, and every message      *)
(* leaves the driver once.                                                 *)
(***************************************************************************)
CONSTANTS Msg, Sleepy   \* Sleepy: the messages for nodes that sleep

VARIABLE status

Status == {"unsent", "waiting", "inProgress", "parked", "gone"}

TypeOK == status \in [Msg -> Status]

Init == status = [m \in Msg |-> "unsent"]

Idle == \A m \in Msg : status[m] # "inProgress"

Accept(m) ==
    /\ status[m] = "unsent"
    /\ status' = [status EXCEPT ![m] = "waiting"]

Start(m) ==
    /\ status[m] = "waiting" /\ Idle
    /\ status' = [status EXCEPT ![m] = "inProgress"]

(* Completed, given up, or dropped before it was ever started. *)
Finish(m) ==
    /\ status[m] \in {"waiting", "inProgress"}
    /\ status' = [status EXCEPT ![m] = "gone"]

(***************************************************************************)
(* Parking may take the place of one equal message that is parked already. *)
(***************************************************************************)
Park(m, superseded) ==
    /\ m \in Sleepy
    /\ status[m] \in {"unsent", "waiting", "inProgress"}
    /\ superseded \subseteq {o \in Sleepy : status[o] = "parked"}
    /\ \A o, p \in superseded : o = p
    /\ status' = [o \in Msg |-> IF o = m THEN "parked"
                                ELSE IF o \in superseded THEN "gone" ELSE status[o]]

WakeUp(m) ==
    /\ status[m] = "parked"
    /\ status' = [status EXCEPT ![m] = "waiting"]

Next == \E m \in Msg :
           \/ Accept(m) \/ Start(m) \/ Finish(m) \/ WakeUp(m)
           \/ \E superseded \in SUBSET Sleepy : Park(m, superseded)

Spec == Init /\ [][Next]_status
=============================================================================
