SPECIFICATION HashSpec
CONSTANTS
  Requests = {r1, r2}
  Prompts <- MCTwoInTail
  Generated = {0}
  hash_block_size = 3
  TargetSizes = {3}
  MaxLen = 6
  MaxNew = 2
INVARIANT HashesFingerprintPrefix
CHECK_DEADLOCK FALSE
