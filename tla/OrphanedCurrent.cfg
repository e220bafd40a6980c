SPECIFICATION StandingSpec
CONSTANTS
  Ids = {i1, i2}
  Exports = {e1}
  Builders = {b1}
  Promoters = {}
  Collectors = {g1}
  Checkers = {}
  Servers = {}
  None = None
  HasExchange = FALSE
  Keep = 1
  MaxRuns = 1
  MaxEdits = 0
  MaxCrashes = 1
PROPERTIES
  GcSparesLinked
CHECK_DEADLOCK FALSE
