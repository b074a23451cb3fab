------------------------------ MODULE MCBudgets ------------------------------
(* Budgets at instant 2 on ledgers of instants 0 (baseline) and 1 (recent).*)
EXTENDS Budgets, TLC

MCFeatures == {"checkout-assistant", UNKNOWN}

MCModelTiers == {"small"}

\* A spend and a unit-cost budget on one feature.
MCBudgetSet ==
  {[dimension |-> "feature", value |-> "checkout-assistant", metric |-> m,
    threshold |-> 1, window |-> 1] : m \in {SPEND, COST_PER_OUTCOME}}

MCUnitBudget == {b \in MCBudgetSet : b.metric = COST_PER_OUTCOME}

\* ratio_threshold = 1.5
MCRatio == [num |-> 3, den |-> 2]

BudgetSymmetry == Permutations(OutcomeIds)

=============================================================================
