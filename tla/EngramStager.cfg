SPECIFICATION Spec
CONSTANTS
  NumLayers = 2
  MaxTokens = 2
  MaxSteps = 3
INVARIANTS TypeOK ForwardReadsOwnStep HashesAreCurrent
PROPERTIES PinnedBuffersQuiescent StagingEnds
CHECK_DEADLOCK FALSE
