\* Two threads on one outcome: the second resolution overwrites the first.
CONSTANTS
  Workers = {w1, w2}
  OutcomeIds = {o1}
  Events = {e1}
  Times = {0, 1}
  Windows = {1}
  Persistent = TRUE
SPECIFICATION StoreSpec
PROPERTIES ResolvedIsImmutable
