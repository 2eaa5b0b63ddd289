SPECIFICATION Spec
CONSTANTS
  HeadSizes <- MCHeadSizes
  NumRanks = 2
  NumLayers = 2
  Batches <- MCBatches
  HotSets <- MCHotSets
  Threads = 7
  MaxChunk = 3
INVARIANTS TypeOK GatherExact TasksPartitionMisses ShardsCoverHeads
CHECK_DEADLOCK FALSE
