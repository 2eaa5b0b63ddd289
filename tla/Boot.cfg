SPECIFICATION Spec
CONSTANTS
  NumRanks = 3
  MaxBoots = 2
  MaxTries = 2
INVARIANTS TypeOK
PROPERTIES HealthyIsOneBoot WorkersBeforeHead ServingSurvives BootEnds
CHECK_DEADLOCK FALSE
