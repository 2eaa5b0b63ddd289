SPECIFICATION Spec
CONSTANTS
  r1 = r1
  r2 = r2
  b1 = b1
  b2 = b2
  b3 = b3
  Requests = {r1, r2}
  Blocks = {b1, b2, b3}
  NullBlock = NullBlock
  TokenIds = {0, 1, 2}
  Sampled = {1}
  Drafted = {0}
  BlockSize = 2
  MaxNgram = 3
  Window = 3
  MaxLen = 5
  MaxDraft = 2
  Prompts <- MCPrompts
  Deployments <- MCDeployments
INVARIANTS TypeOK SlotHistory
PROPERTIES LookbackExact CacheFitsKv
VIEW StateView
SYMMETRY Symmetry
CHECK_DEADLOCK FALSE
