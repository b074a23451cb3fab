\* One thread and a file database: each method is atomic and crash-safe.
CONSTANTS
  Workers = {w1}
  OutcomeIds = {o1, o2}
  Events = {e1}
  Times = {0, 1, 2}
  Windows = {0, 1}
  Persistent = TRUE
SPECIFICATION StoreSpec
SYMMETRY OutcomeSymmetry
PROPERTIES ImplementsContract
