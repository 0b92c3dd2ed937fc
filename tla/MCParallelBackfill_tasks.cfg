SPECIFICATION FairSpec
CONSTANTS
  Keys <- MCKeys
  Vals = {v1}
  NoRow = NoRow
  NoKey = NoKey
  Ops = {"insert", "delete"}
  MaxInt = 7
  NumWorkers = 3
  ChunkSize = 1
  PoolSize = 2
  OverflowChecks = TRUE
  MaxRows = 4
  MaxWrites = 1
INVARIANTS
  RangesPartition
  CopiedOrRecorded
  BackfillInv
PROPERTIES
  Completes
