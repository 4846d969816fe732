\* Two exporters at once, and every kind of fault but that of a deletion.
CONSTANTS
  t1 = t1
  t2 = t2
  t3 = t3
  s0 = s0
  s1 = s1
  s2 = s2
  Exporter = {e1, e2}
  Source = {s1, s2}
  Table = {t1, t2}
  TablesOf <- TwoFiles
  Workers = 2
  None = None
  MaxRuns = 2
  FaultKind = {"error", "interrupt", "crash"}
  MaxFaults = 2
SPECIFICATION Spec
INVARIANTS
  OutIsWhole
  ExportSurvives
  NoLitter
