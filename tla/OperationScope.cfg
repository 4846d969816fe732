CONSTANTS
  ReleaseId <- Releases
  ReleaseDate <- Dates
  ReleaseType <- RTypes
  MaxDate = 3
  None = None
  Module = {"m", "n", "o"}
  Code = {"a", "b", "c", "i", "x"}
  Indicator = {"i"}
  Dictionaries <- Small
  Queries <- SmallQueries
  Released = {3, 1, 5}
  IsCurrent = {1}
SPECIFICATION ScopeSpec
INVARIANTS
  OneVersionPerModule
  SweepLeavesNoneOut
  ValidationsAreRead
  ScopesSupplyEveryOperand
  ScopesNameTargets
  SelfSufficientStandsAlone
CHECK_DEADLOCK FALSE
