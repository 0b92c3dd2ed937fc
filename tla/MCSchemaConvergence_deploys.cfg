SPECIFICATION FairSpec
CONSTANTS
  Names <- MCNames
  MigKey <- MCMigKey
  BigInt = "bigint"
  Types = {"text", "bigint"}
  NoCol = NoCol
  NoName = NoName
  Fresh = Fresh
  Specs <- MCSpecs
  Cfgs <- MCCfgs
  Tables <- MCTables
  HasRows = TRUE
  MaxCalls = 3
INVARIANTS
  OkAsDeclared
  RewriteSettles
  RenamedKeepsData
PROPERTIES
  NoSecondRewrite
  ExactKeepsData
  Returns
