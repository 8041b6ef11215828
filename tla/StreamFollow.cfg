SPECIFICATION FairSpec
CHECK_DEADLOCK FALSE
CONSTANTS
  MaxBatch = 1
  MaxRows = 2
  MaxLen = 3
  MaxExpiries = 1
  PageSize = 2
INVARIANTS EndIsAnnounced ClientMissesNothing NoHoleInAnswer
PROPERTY ClientLearnsOutcome
