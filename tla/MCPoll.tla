------------------------------- MODULE MCPoll -------------------------------
(***************************************************************************)
(* Instances of PollList for TLC: a listening node n1 with value v1, a     *)
(* sleeping node s1 with value w1, and, in some runs, a second value v2 of *)
(* the listening node.                                                     *)
(***************************************************************************)
EXTENDS PollList, TLC
CONSTANTS n1, s1, v1, v2, w1, a1, a2

Owner == [v \in Value |-> IF v = w1 THEN s1 ELSE n1]
RestoredOne == <<v1>>
RestoredBoth == <<v1, w1>>
RestoredNone == <<>>
=============================================================================
