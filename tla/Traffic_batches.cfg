\* Two batches on one connection, a crash, no sweep job.
CONSTANTS
  Workers = {w1, w2}
  Batches = {w1, w2}
  Sweepers = {}
  OutcomeIds = {o1, o2}
  EventIds <- MCEventIds
  Events <- CostEvents
  Times = {0, 1, 2, 3, 4}
  Instants = {0, 1, 2, 3, 4}
  Windows = {1}
  RESOLUTION_WINDOW = 1
  Persistent = TRUE
  Tiers = {small}
  Profiles = {small}
  BasisIds = {b1}
  Cards <- MCCards
  Counts <- MCCounts
  MaxRows = 1
  MAX_ATTEMPTS = 3
  Attempts <- MCAttempts
  SeedRates <- MCClosedSeed
  OpeningTimes = {0}
  Delays = {0, 1}
  MaxDelay = 1
  SweepTimes = {1}
  MaxCrashes = 1
  o1 = o1
  o2 = o2
  b1 = b1
  small = small
SPECIFICATION TrafficSpec
SYMMETRY BatchSymmetry
INVARIANTS TrafficTypeOK DurableStory CallerSeesDurableEvent
PROPERTIES OwnersNeverCollide
CHECK_DEADLOCK FALSE
