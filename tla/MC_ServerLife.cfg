CONSTANTS
    Conn = {1, 2}
    MaxRequests = 2
    MaxBacklog = 2
SPECIFICATION Spec
INVARIANTS
  SafeAlone
  StopInOrder
PROPERTIES
  StopEnds
  BacklogShrinks
  EveryRequestRead
CHECK_DEADLOCK FALSE
