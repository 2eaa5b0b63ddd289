SPECIFICATION Spec
CONSTANTS
  N = 4
  TILE = 2
  BLOCK = 4
  Setups <- MCSetups
INVARIANTS TypeOK CollectivesMatch SumIsWhole
PROPERTY ForwardEnds
CHECK_DEADLOCK FALSE
