----------------------------- MODULE MCCommand ------------------------------
(***************************************************************************)
(* Instances of ControllerCommand for TLC: which commands are begun, for   *)
(* which node and with which callback.                                     *)
(***************************************************************************)
EXTENDS ControllerCommand, TLC
CONSTANTS c1, c2, c3, c4, c5, n1, n2, s1, app

Commands == {c1, c2, c3}
Items == 1..9
OwnCallback == [c \in Commands |-> c]

\* Inclusion, exclusion, and the learn mode of the controller, which may delete every
\* node and ends with a message without a callback.
NetworkKind == c1 :> "AddDevice" @@ c2 :> "RemoveDevice" @@ c3 :> "ReceiveConfiguration"
NetworkNode == [c \in Commands |-> Broadcast]

\* A sleeping node, a failed one, the removal that a reset leads to, and two commands
\* that go on by several statuses.
FailedCommands == {c1, c2, c3, c4, c5}
FailedKind == c1 :> "AssignReturnRoute" @@ c2 :> "HasNodeFailed" @@ c3 :> "RemoveFailedNode"
              @@ c4 :> "RequestNodeNeighborUpdate" @@ c5 :> "AddDevice"
FailedNode == c1 :> s1 @@ c2 :> n1 @@ c3 :> n1 @@ c4 :> n1 @@ c5 :> Broadcast
FailedCallback == [c \in FailedCommands |-> c]
=============================================================================
