\* A batch and a sweep job racing for its outcomes, fairly scheduled, and a crash.
CONSTANTS
  Workers = {w1, s1}
  Batches = {w1}
  Sweepers = {s1}
  OutcomeIds = {o1, o2}
  EventIds <- MCEventIds
  Events <- CostEvents
  Times = {0, 1, 2, 3, 4, 5, 6}
  Instants = {0, 1, 2, 3, 4, 5, 6}
  Windows = {1}
  RESOLUTION_WINDOW = 1
  Persistent = TRUE
  Tiers = {small}
  Profiles = {small}
  BasisIds = {b1}
  Cards <- MCCards
  Counts <- MCCounts
  MaxRows = 1
  MAX_ATTEMPTS = 2
  Attempts <- MCAttempts
  SeedRates <- MCClosedSeed
  OpeningTimes = {0}
  Delays = {1, 2}
  MaxDelay = 2
  SweepTimes = {1}
  MaxCrashes = 1
  o1 = o1
  o2 = o2
  b1 = b1
  small = small
SPECIFICATION FairTrafficSpec
INVARIANTS DurableStory
PROPERTIES EveryOutcomeCloses SharesTheStore
CHECK_DEADLOCK FALSE
