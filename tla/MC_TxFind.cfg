SPECIFICATION FSpec
CONSTANTS
  Tx = {t1}
  Main = main
  None = none
  Net = net
  Mon = mon
  BufCap = 2
  Slots = {0, 1, 2, 3, 4, 5}
  MaxBuffers = 6
  MaxOps = 4
  MaxFinds = 2
INVARIANTS
  WriterOwnsTail
PROPERTIES
  FindComplete
CHECK_DEADLOCK FALSE
