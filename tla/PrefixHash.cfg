SPECIFICATION HashSpec
CONSTANTS
  Requests = {r1, r2}
  Prompts <- MCPrompts
  Generated = {0, 1}
  hash_block_size = 2
  TargetSizes = {2, 4}
  MaxLen = 6
  MaxNew = 2
INVARIANTS HashTypeOK HashesFingerprintPrefix SamePrefixHits CoarseHitsExact
CHECK_DEADLOCK FALSE
