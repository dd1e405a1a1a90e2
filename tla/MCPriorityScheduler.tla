------------------------- MODULE MCPriorityScheduler -------------------------
(* Small instances of the priority scheduler for TLC.                       *)
EXTENDS PriorityScheduler, TLC

Symmetry == Permutations(Workers)
=============================================================================
