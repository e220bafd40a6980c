SPECIFICATION Spec
CONSTANTS
  Ids = {i1, i2}
  Exports = {e1}
  Builders = {b1, b2, b3}
  Promoters = {}
  Collectors = {g1}
  Checkers = {}
  Servers = {}
  None = None
  HasExchange = FALSE
  Keep = 1
  MaxRuns = 1
  MaxEdits = 2
  MaxCrashes = 1
SYMMETRY Symmetry
PROPERTIES
  NoBuildLost
  GcKeepsNewest
CHECK_DEADLOCK FALSE
