------------------------------ MODULE MCValues ------------------------------
(***************************************************************************)
(* Instances of ValueRefresh for TLC: a verified value that was read       *)
(* before, and a new one with a target.                                    *)
(***************************************************************************)
EXTENDS ValueRefresh, TLC
CONSTANTS v1, v2, a1, a2

Levels == v1 :> 0..2 @@ v2 :> 0..1
=============================================================================
