\* One request at a time over every ledger of up to two events, growing meanwhile.
CONSTANTS
  Times = {0}
  Windows = {1}
  OutcomeIds = {o1, o2}
  Features <- MCFeatures
  ModelTiers = {"small"}
  CostsOfCalls = {2, 7}
  Micro = 2
  Instants = {0, 1}
  MaxEvents = 2
  BudgetSet <- MCBudgetSet
  Now = 2
  RecentWindow = 1
  BaselineWindow = 1
  Ratio <- MCRatio
  MinOutcomes = 1
  Day = 2
  FEATURES = {"checkout-assistant"}
SPECIFICATION ConsoleSpec
SYMMETRY ConsoleSymmetry
INVARIANTS SummaryIsBracketed SpendReportsAreBracketed
PROPERTIES BlendedErrsByRoundingOnly LiveAlarmsAreTrue
