CONSTANTS
    None = none
    MaxConn = 2
    MaxAnswer = 2
    MaxRequests = 4
    MaxTx = 1
SPECIFICATION Spec
INVARIANTS
  WireInStep
  FindConsistent
  ClosedByAnother
  TransactionsEnd
  ServerOutlives
CHECK_DEADLOCK FALSE
