SPECIFICATION Spec
CONSTANTS
  Keys = {1, 2}
  Vals = {v1}
  NoRow = NoRow
  Idle = Idle
  NoKey = NoKey
  Writers = {w1, w2}
  Ops = {"insert", "delete"}
  ChunkSize = 1
  ChunkMin = 1
  ChunkMax = 1
  MaxRounds = 2
  MaxWrites = 2
PROPERTIES
  RowCountKept
