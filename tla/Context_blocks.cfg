\* Two threads, blocks nested two deep, on two dimensions.
CONSTANTS
  Threads = {w1, w2}
  Dims = {"feature", "outcome_id"}
  Values = {"unset", "set"}
  Sentinels <- MCSentinels
  MaxDepth = 2
SPECIFICATION ContextSpec
SYMMETRY ContextSymmetry
INVARIANTS ContextTypeOK NothingLeaks
PROPERTIES ImplementsScopes
