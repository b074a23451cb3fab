\* Two threads on one connection and a file database.
CONSTANTS
  Workers = {w1, w2}
  OutcomeIds = {o1, o2}
  Events = {e1}
  Times = {0, 1}
  Windows = {1}
  Persistent = TRUE
SPECIFICATION StoreSpec
SYMMETRY Symmetry
INVARIANTS StoreTypeOK RowsCoherent ReturnedIsDurable
PROPERTIES DurableNeverReopens
