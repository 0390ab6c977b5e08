SPECIFICATION Spec
CONSTANTS
  Tx = {t1, t2}
  Main = main
  None = none
  Net = net
  Mon = mon
  BufCap = 1
  Slots = {0, 1, 2, 3, 4, 5, 6}
  MaxBuffers = 7
  MaxOps = 4
SYMMETRY TxSymmetry
INVARIANTS
  LogInv
  NoBufferLeaked
  AppliedInOrder
  NothingLost
  LogFileLifetime
PROPERTIES
  TruncatedOnlyWhenApplied
CHECK_DEADLOCK FALSE
