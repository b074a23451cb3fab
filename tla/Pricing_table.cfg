\* Every table of up to three rows over two tiers and two ids.
CONSTANTS
  Tiers = {small, large}
  BasisIds = {b1, b2}
  Cards <- OneCard
  Instants = {0, 1, 2}
  MaxRows = 3
SPECIFICATION RateSpec
INVARIANTS RateTypeOK HandoverIsExact
PROPERTIES NeverRepriced
CHECK_DEADLOCK FALSE
