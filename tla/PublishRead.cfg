SPECIFICATION StandingSpec
CONSTANTS
  InputOrder <- Order
  Publishers = {p1, p2}
  Readers = {r1}
  None = None
  MaxRuns = 1
  MaxMoves = 1
  MaxExpiries = 0
  MaxCrashes = 0
  MaxReads = 2
  MaxMeddles = 1
SYMMETRY Symmetry
INVARIANTS
  BuiltFromOnePublish
  VerifiedIsTheSame
CHECK_DEADLOCK FALSE
