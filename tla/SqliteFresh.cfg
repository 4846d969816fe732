\* One updater whose steps may raise: does a failed run leave the target as it was?
CONSTANTS
  Updater = {u1}
  Source = {s1, s2, broken}
  Valid = {s1, s2}
  Option <- SomeOptions
  Inode = {f1, f2, f3}
  None = None
  MaxClock = 1
  SameSecond = FALSE
  FaultKind = {"error"}
  MaxFaults = 1
SPECIFICATION FairSpec
INVARIANTS
  FailureLeavesActive
