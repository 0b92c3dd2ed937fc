\* Two migrators and a retry, in two seconds.
CONSTANTS
  m1 = m1
  m2 = m2
  Migrators <- MCMigrators
  Keys = {1, 2}
  Vals = {v}
  NoRow = NoRow
  Ops = {"insert", "delete"}
  Seconds = {1, 2}
  Nil = Nil
  MaxAttempts = 3
  MaxWrites = 2
SYMMETRY MCSymmetry
VIEW MCView
SPECIFICATION Spec
CHECK_DEADLOCK FALSE
INVARIANTS
  FleetInv
  TriggersWork
  SomeoneSwaps
PROPERTIES
  UsedTablesKept
  SwapFaithful
  OvertakenNeverSwaps
