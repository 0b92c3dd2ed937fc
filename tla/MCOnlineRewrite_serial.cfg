SPECIFICATION FairSpec
CONSTANTS
  Keys = {1, 2, 3, 4}
  Vals = {v1, v2}
  NoRow = NoRow
  Idle = Idle
  NoKey = NoKey
  Writers = {w1}
  Ops = {"append"}
  ChunkSize = 1
  ChunkMin = 1
  ChunkMax = 1
  MaxRounds = 1
  MaxWrites = 3
PROPERTIES
  ImplementsLiveTable
  AttemptEnds
  WritersUnblocked
