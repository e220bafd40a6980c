SPECIFICATION Spec
CONSTANTS
  Subs = {1, 2, 3}
  Worlds <- SmallWorlds
  Changes = {2, 4}
  Notice = 1
  Lead = 2
  HitWindow = 2
  ChangeWindow = 4
  Retries = {0, 1, 2}
  Period = 7
  K = 1
  MaxDay = 10
  None = None
INVARIANTS
  TypeOK
  AsOfViewIsPast
  PitParity
  ShownWasKnown
  SimilarIsTopK
  OutcomesSettle
  EvidenceHolds
  EvidenceIsPast
PROPERTY
  OutcomeIsFinal
CHECK_DEADLOCK FALSE
