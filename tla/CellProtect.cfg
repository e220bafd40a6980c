SPECIFICATION Spec
CONSTANTS
  PlanOrder <- TwoPlans
  RouteOrder <- ThreeRoutes
  RouteNames <- ThreeNames
  MinCell = 3
  Window = 2
  Truths <- SmallTables
INVARIANTS
  TypeOK
  NeverRaises
  TruthIsFeasible
  NothingSmallShown
  NullsAreOpen
CHECK_DEADLOCK FALSE
