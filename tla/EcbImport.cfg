CONSTANTS
  ReleaseId <- Releases
  ReleaseDate <- Dates
  ReleaseType <- RTypes
  MaxDate = 2
  None = None
  Code <- Codes
  Parent <- Parents
  Gate = {"g", "h"}
  GateCode <- GateCodes
  Text = {"t", "u"}
  Tables = {"u"}
  ScopesOf <- Scopes
  Base = 10
  Margin = 2
  Files <- SmallFiles
  Databases <- SmallDatabases
  MaxImports = 3
SPECIFICATION Spec
INVARIANTS
  TypeOK
  OkMeansPersisted
  IdsDoNotDrift
  GateIsRowsOwn
  RepeatAddsNothing
CHECK_DEADLOCK FALSE
