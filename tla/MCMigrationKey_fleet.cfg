SPECIFICATION FairSpec
CONSTANTS
  Slots <- MCSlots
  Migrators = {m1, m2}
  Writers = {w1, w2}
  Absent = Absent
  Unkeyed = Unkeyed
  Idle = Idle
  ChunkSize = 2
  MaxWrites = 2
  MaxCalls = 1
INVARIANTS
  KeyInv
PROPERTIES
  KeyStable
  NullsShrink
  Ends
