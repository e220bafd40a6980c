SPECIFICATION Spec
CONSTANTS
  PlanOrder <- TwoPlans
  RouteOrder <- ThreeRoutes
  RouteNames <- ThreeNames
  MinCell = 3
  Window = 2
  Truths <- EndlessTables
PROPERTY
  Ends
CHECK_DEADLOCK FALSE
