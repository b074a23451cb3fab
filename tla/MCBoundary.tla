----------------------------- MODULE MCBoundary -----------------------------
(* Boundary on one outcome, one tier without and one with a profile, and   *)
(* two rate cards.                                                         *)
EXTENDS Boundary, TLC

MCCards == {[input |-> 2, output |-> 3, cached |-> 1], [input |-> 5, output |-> 3, cached |-> 1]}

MCCounts == {[input |-> 1, output |-> 1]}

CONSTANTS b1, b2, small, large

\* One row, which stops at instant 1.
MCClosedSeed == <<[price_basis_id |-> b1, model_tier |-> small,
             card |-> [input |-> 2, output |-> 3, cached |-> 1],
             effective_from |-> 0, effective_to |-> 1]>>

BoundarySymmetry == Permutations(Workers) \cup Permutations(EventIds)

=============================================================================
