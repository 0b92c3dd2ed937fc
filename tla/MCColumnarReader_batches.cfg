SPECIFICATION FairSpec
CONSTANTS
  Schema <- MCSchema
  Capacity = 2
  Null = Null
  InlineLimit = 1
  MaxTotal = 2
  Base = 4
  Signature <- MCSignature
  MaxExtension = 1
  MaxField = 3
  MinCompact = 4
  Epoch = 2
  Unreadable = Unreadable
  Extensions <- MCExtensions
  Results <- MCResults
  Modes <- MCModes
  MaxCalls = 3
INVARIANTS
  TypeOK
  BatchSound
PROPERTIES
  StreamConsumed
  DeliversRows
  Returns
