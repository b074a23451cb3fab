\* A retry storm in which every task fails, under a unit-cost budget.
CONSTANTS
  Times = {0}
  Windows = {1}
  OutcomeIds = {o1, o2}
  Features <- MCFeatures
  ModelTiers <- MCModelTiers
  CostsOfCalls = {1, 2}
  Micro = 2
  Instants = {0, 1}
  MaxEvents = 3
  BudgetSet <- MCUnitBudget
  Now = 2
  RecentWindow = 1
  BaselineWindow = 1
  Ratio <- MCRatio
  MinOutcomes = 1
SPECIFICATION LedgerSpec
SYMMETRY BudgetSymmetry
INVARIANTS StormsTripSomething
CHECK_DEADLOCK FALSE
