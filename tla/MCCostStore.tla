---------------------------- MODULE MCCostStore ----------------------------
(* CostStore on small sets.  Workers and outcomes are                       *)
(* interchangeable: no action or property names one of them.               *)
EXTENDS CostStore, TLC

Symmetry == Permutations(Workers) \cup Permutations(OutcomeIds)

OutcomeSymmetry == Permutations(OutcomeIds)

=============================================================================
