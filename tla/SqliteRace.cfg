\* Two updaters at once, started in different seconds, and every kind of fault.
CONSTANTS
  Updater = {u1, u2}
  Source = {s1, s2}
  Valid = {s1, s2}
  Option <- PlainOption
  Inode = {f1, f2, f3, f4, f5}
  None = None
  MaxClock = 2
  SameSecond = FALSE
  FaultKind = {"error", "interrupt", "crash"}
  MaxFaults = 2
SYMMETRY Files
SPECIFICATION Spec
INVARIANTS
  LiveNotBeingWritten
  TwoRunsLeaveOne
  QuietIsWhole
