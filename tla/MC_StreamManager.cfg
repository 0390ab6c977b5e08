SPECIFICATION Spec
CONSTANTS
  None = none
  Space <- MCSpace
  Stem <- MCStem
  MaxOps = 3
  MaxFinds = 1
  MaxStops = 1
  MaxFails = 1
INVARIANTS
  RecordsKept
  CatalogSound
  NamesAnswered
  ScanFindsFile
CHECK_DEADLOCK FALSE
