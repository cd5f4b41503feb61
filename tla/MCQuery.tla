------------------------------ MODULE MCQuery -------------------------------
(***************************************************************************)
(* Instances of NodeQuery for TLC: which nodes are interviewed, and in     *)
(* which of the optional stages each has something to ask.                 *)
(***************************************************************************)
EXTENDS NodeQuery, TLC
CONSTANTS n1, s1

ListenerAndSleeper == n1 :> {Configuration} @@ s1 :> {Versions}
=============================================================================
