-------------------------------- MODULE Lists --------------------------------
(***************************************************************************)
(* Erasing elements of a list, as the models of the queues do it.          *)
(***************************************************************************)
EXTENDS Integers, Sequences, FiniteSets

\* What is left of a list when all places but those in the set kept are erased;
\* most often that is the list itself.
Sublist(list, kept) ==
    LET Place(j) == CHOOSE k \in kept : Cardinality({l \in kept : l <= k}) = j
    IN IF kept = DOMAIN list THEN list ELSE [j \in 1..Cardinality(kept) |-> list[Place(j)]]
=============================================================================
