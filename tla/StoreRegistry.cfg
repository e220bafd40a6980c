SPECIFICATION Spec
CONSTANTS
  Ids = {i1, i2}
  Exports = {e1, e2}
  Builders = {b1}
  Promoters = {p1}
  Collectors = {}
  Checkers = {c1}
  Servers = {}
  None = None
  HasExchange = TRUE
  Keep = 1
  MaxRuns = 2
  MaxEdits = 1
  MaxCrashes = 1
SYMMETRY Symmetry
PROPERTIES
  ImplementsRegistry
CHECK_DEADLOCK FALSE
