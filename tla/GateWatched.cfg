SPECIFICATION Spec
CONSTANTS
  Calls = {c1, c2}
  None = None
  MaxQueries = 2
  Watched = TRUE
INVARIANTS
  TypeOK
  OneBodyAtATime
  InterruptsOwnOrLeft
  DogBitesOwn
  AnswerIsAudited
PROPERTIES
  GateIsFreed
CHECK_DEADLOCK FALSE
