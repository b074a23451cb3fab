\* Calls with every argument while a rate is added; an in-memory database, which a restart
\* empties together with the rate table.
CONSTANTS
  Workers = {w1, w2}
  OutcomeIds = {o1}
  EventIds = {e1, e2}
  Events <- CostEvents
  Times = {0}
  Windows = {1}
  Persistent = FALSE
  Tiers = {small, large}
  BasisIds = {b1, b2}
  Cards <- MCCards
  Instants = {0, 1}
  MaxRows = 2
  Attempts = {0, 1}
  Counts <- MCCounts
  Profiles = {small}
  SeedRates <- MCClosedSeed
  b1 = b1
  b2 = b2
  small = small
  large = large
SPECIFICATION BoundarySpec
SYMMETRY BoundarySymmetry
INVARIANTS BoundaryTypeOK BilledIsAccountedFor CostsAreReproducible
