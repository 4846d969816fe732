\* One exporter, three tables and two threads, and every kind of fault.
CONSTANTS
  t1 = t1
  t2 = t2
  t3 = t3
  s0 = s0
  s1 = s1
  s2 = s2
  Exporter = {e1}
  Source = {s0, s1, s2}
  Table = {t1, t2, t3}
  TablesOf <- ThreeFiles
  Workers = 2
  None = None
  MaxRuns = 2
  FaultKind = {"error", "remove", "interrupt", "crash"}
  MaxFaults = 2
SPECIFICATION FairSpec
INVARIANTS
  TypeOK
  ReturnIsTruthful
PROPERTIES
  OutputComesBack
  EveryRunEnds
