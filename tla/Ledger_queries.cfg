\* Every ledger of up to three events: the queries and both detectors.
CONSTANTS
  Times = {0}
  Windows = {1}
  OutcomeIds = {o1, o2}
  Features <- MCFeatures
  ModelTiers <- MCModelTiers
  CostsOfCalls = {1, 7}
  Micro = 3
  Instants = {0, 1}
  MaxEvents = 3
  BudgetSet <- MCBudgetSet
  Now = 2
  RecentWindow = 1
  BaselineWindow = 1
  Ratio <- MCRatio
  MinOutcomes = 1
SPECIFICATION LedgerSpec
SYMMETRY BudgetSymmetry
INVARIANTS LedgerTypeOK SlicesSumToTotal WindowsPartition UnitCostIsTheContracts BucketsPartition AlarmsErrByRoundingOnly
PROPERTIES RetriesRaiseUnitCost RecentNeverDilutesBaseline SpendBreachesStand
CHECK_DEADLOCK FALSE
