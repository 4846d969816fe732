\* Two updaters without faults, three runs: can the database be lost?
CONSTANTS
  Updater = {u1, u2}
  Source = {s1, s2}
  Valid = {s1, s2}
  Option <- PlainOption
  Inode = {f1, f2, f3, f4}
  None = None
  MaxClock = 3
  SameSecond = FALSE
  FaultKind = {}
  MaxFaults = 0
SYMMETRY Files
SPECIFICATION Spec
INVARIANTS
  DatabaseSurvives
