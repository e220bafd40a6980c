SPECIFICATION Spec
CONSTANTS
  InputOrder <- Order
  Publishers = {p1, p2}
  None = None
  MaxRuns = 1
  MaxMoves = 1
  MaxExpiries = 1
  MaxCrashes = 1
SYMMETRY Symmetry
INVARIANTS
  TypeOK
  FinishedIsTagged
  FinishedIsReadable
PROPERTIES
  ImplementsLedger
CHECK_DEADLOCK FALSE
