SPECIFICATION FairSpec
CONSTANTS
  Tx = {t1}
  Main = main
  None = none
  Net = net
  Mon = mon
  BufCap = 2
  Slots = {0, 1, 2, 3, 4, 5, 6}
  MaxBuffers = 7
  MaxOps = 5
PROPERTIES
  ImplementsLog
  FlushProgress
CHECK_DEADLOCK FALSE
