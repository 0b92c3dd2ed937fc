\* Batches of up to three rows, two bits to a byte of validity.
CONSTANTS
  Schema <- MCSchema
  Names <- MCNames
  Capacity = 3
  Null = Null
  InlineLimit = 1
  MaxTotal = 8
  BatchMagic <- MCBatchMagic
  BatchVersion = 1
  ByteBits = 2
  VectorMagic = 3
  VectorVersion = 1
  MaxU32 = 8
  Modulus = 5
  FixedValues = {1}
  Texts <- MCTexts
  VectorTypes = {"i32", "f64"}
  Vectors <- MCVectors
  Changed = {0, 2}
  MaxCells = 6
  MaxEncodings = 2
SPECIFICATION Spec
CHECK_DEADLOCK FALSE
INVARIANTS
  BatchTravels
  NothingElseLoads
  DecodedSound
  VectorTravels
