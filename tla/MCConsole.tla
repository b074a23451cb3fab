----------------------------- MODULE MCConsole -----------------------------
(* The console over ledgers of two events; the budgets are MCBudgets'.     *)
EXTENDS Console, TLC

MCFeatures == {"checkout-assistant", UNKNOWN}

MCBudgetSet ==
  {[dimension |-> "feature", value |-> "checkout-assistant", metric |-> m,
    threshold |-> 1, window |-> 1] : m \in {SPEND, COST_PER_OUTCOME}}

\* ratio_threshold = 1.5
MCRatio == [num |-> 3, den |-> 2]

ConsoleSymmetry == Permutations(OutcomeIds)

=============================================================================
