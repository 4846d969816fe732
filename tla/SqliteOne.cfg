\* One updater, its runs one after the other, every kind of fault.
CONSTANTS
  Updater = {u1}
  Source = {s1, s2, broken}
  Valid = {s1, s2}
  Option <- SomeOptions
  Inode = {f1, f2, f3}
  None = None
  MaxClock = 2
  SameSecond = FALSE
  FaultKind = {"error", "interrupt", "crash"}
  MaxFaults = 2
SPECIFICATION FairSpec
INVARIANTS
  TypeOK
  OriginalRecoverable
  ReturnIsTruthful
  ActiveIsWhole
  NoLitter
PROPERTIES
  DatabaseComesBack
  PromiseKept
