----------------------------- MODULE MCTraffic -----------------------------
(* Traffic with one rate card.  A row that stops before the last instant a *)
(* retry can reach makes late attempts unpriceable.                        *)
EXTENDS Traffic, TLC

CONSTANTS o1, o2, b1, small

MCCards == {[input |-> 2, output |-> 3, cached |-> 1]}

MCCounts == {[input |-> 1, output |-> 1]}

MCSeed == <<[price_basis_id |-> b1, model_tier |-> small,
             card |-> [input |-> 2, output |-> 3, cached |-> 1],
             effective_from |-> 0, effective_to |-> Active]>>

MCClosedSeed == <<[MCSeed[1] EXCEPT !.effective_to = 2]>>

MCEventIds == 1 .. Cardinality(OutcomeIds) * MAX_ATTEMPTS

MCAttempts == 1 .. MAX_ATTEMPTS

BatchSymmetry == Permutations(Batches) \cup Permutations(OutcomeIds)

=============================================================================
