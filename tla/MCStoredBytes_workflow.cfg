\* One row in a batch with room for three.
CONSTANTS
  Schema <- MCSchema
  Names <- MCNames
  Capacity = 3
  Null = Null
  InlineLimit = 1
  MaxTotal = 8
  BatchMagic <- MCBatchMagic
  BatchVersion = 1
  ByteBits = 2
  VectorMagic = 3
  VectorVersion = 1
  MaxU32 = 8
  Modulus = 5
  FixedValues = {1}
  Texts <- MCTexts
  VectorTypes = {"i32", "f64"}
  Vectors <- MCVectors
  Changed = {0, 2}
  MaxCells = 2
  MaxEncodings = 0
SPECIFICATION Spec
CHECK_DEADLOCK FALSE
INVARIANTS
  ReadBatchEncodes
