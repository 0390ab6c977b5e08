SPECIFICATION Spec
CONSTANTS
  Id = {d1, d2}
  Val = {v1, v2}
  Rev = {r1, r2}
  None = none
  MaxOps = 4
  MaxRestarts = 1
SYMMETRY StoreSymmetry
INVARIANTS
  FindIsCurrent
  StoreSound
  LimitedFind
  SelectedFind
  IndexFindLatest
CHECK_DEADLOCK FALSE
