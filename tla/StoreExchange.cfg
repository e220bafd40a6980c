SPECIFICATION Spec
CONSTANTS
  Ids = {i1, i2}
  Exports = {e1, e2}
  Builders = {b1, b2}
  Promoters = {p1}
  Collectors = {g1}
  Checkers = {c1}
  Servers = {}
  None = None
  HasExchange = TRUE
  Keep = 1
  MaxRuns = 1
  MaxEdits = 1
  MaxCrashes = 1
SYMMETRY Symmetry
INVARIANTS
  TypeOK
  MutualExclusion
  PassIsEarned
  LinksResolve
PROPERTIES
  PromotesPassing
  ImplementsRegistry
CHECK_DEADLOCK FALSE
