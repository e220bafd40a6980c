SPECIFICATION Spec
CONSTANTS
  Ids = {i1, i2}
  Exports = {e1}
  Builders = {b1, b2}
  Promoters = {}
  Collectors = {g1}
  Checkers = {c1}
  Servers = {s1}
  None = None
  HasExchange = FALSE
  Keep = 1
  MaxRuns = 1
  MaxEdits = 1
  MaxCrashes = 1
SYMMETRY Symmetry
PROPERTIES
  HeldBuildStays
CHECK_DEADLOCK FALSE
