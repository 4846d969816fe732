\* Two updaters, no fault: the second lists the active tables before the first
\* commits a load that brings a table of its own.
CONSTANTS
  plain = plain
  extended = extended
  broken = broken
  Updater = {u1, u2}
  Reader = {r}
  Source = {plain, extended, broken}
  OrmOrder <- OrmTables
  ExtraOrder <- OtherTables
  CsvOf <- CsvFiles
  Option <- SomeOptions
  Required <- RequiredTables
  Old = plain
  None = None
  MaxClock = 2
  SameSecond = FALSE
  FaultKind = {}
  MaxFaults = 0
SPECIFICATION FairSpec
PROPERTIES
  SwapMovesAll
