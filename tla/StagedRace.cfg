\* Two updaters and a reader, and every kind of fault.
CONSTANTS
  plain = plain
  extended = extended
  broken = broken
  Updater = {u1, u2}
  Reader = {r}
  Source = {plain, extended, broken}
  OrmOrder <- OrmTables
  ExtraOrder <- OtherTables
  CsvOf <- CsvFiles
  Option <- SomeOptions
  Required <- RequiredTables
  Old = plain
  None = None
  MaxClock = 2
  SameSecond = FALSE
  FaultKind = {"error", "interrupt", "crash", "drop", "reply"}
  MaxFaults = 1
SPECIFICATION FairSpec
INVARIANTS
  TypeOK
  ReadersSeeOneLoad
  NoSchemaLeft
  KeptIsComplete
PROPERTIES
  ActiveChangesWhole
  EveryRunEnds
