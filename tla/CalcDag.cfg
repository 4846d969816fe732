CONSTANTS
  Cell <- SmallCells
  Scripts <- SmallScripts
SPECIFICATION FairSpec
INVARIANTS
  TypeOK
  KahnInv
  OrderRespectsReads
  NamedAreOnCycle
  ResultsAreDetermined
PROPERTIES
  Decides
