SPECIFICATION RSpec
CONSTANTS
  Tx = {t1}
  Main = main
  None = none
  Net = net
  Mon = mon
  BufCap = 1
  Slots = {0, 1, 2, 3, 4, 5}
  MaxBuffers = 8
  MaxOps = 3
  MaxCrashes = 1
INVARIANTS
  CommittedKept
CHECK_DEADLOCK FALSE
