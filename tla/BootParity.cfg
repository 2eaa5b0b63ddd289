SPECIFICATION Spec
CONSTANTS
  NumRanks = 3
  MaxBoots = 1
  MaxTries = 1
INVARIANT LaunchersAgree
CHECK_DEADLOCK FALSE
