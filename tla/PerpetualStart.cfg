CONSTANTS
  ReleaseId <- Releases
  ReleaseDate <- Dates
  ReleaseType <- RTypes
  MaxDate = 3
  None = None
  Module = {"m", "n", "o"}
  Code = {"a", "b", "c", "i", "x"}
  Indicator = {"i"}
  Dictionaries <- OneModule
  Queries <- SmallQueries
  Released = {3, 1, 5}
  IsCurrent = {1}
SPECIFICATION ScopeSpec
INVARIANTS
  ValidationsAreReadAlways
CHECK_DEADLOCK FALSE
