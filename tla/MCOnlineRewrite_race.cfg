SPECIFICATION Spec
CONSTANTS
  Keys = {1, 2, 3}
  Vals = {v1, v2}
  NoRow = NoRow
  Idle = Idle
  NoKey = NoKey
  Writers = {w1, w2}
  Ops = {"insert", "update", "delete", "rekey"}
  ChunkSize = 1
  ChunkMin = 1
  ChunkMax = 1
  MaxRounds = 2
  MaxWrites = 3
SYMMETRY MCSymmetry
INVARIANTS
  DivergenceRecorded
  RewriteInv
PROPERTIES
  SwapFaithful
  LiveTableStep
  BackupFrozen
