CONSTANTS
    IntMax = 1
    Filter <- MCFilter
    Age <- MCAge
    A <- MCA
    None = none
SPECIFICATION Spec
INVARIANTS
  FindAnswers
  SameAfterFlush
  ComparisonsSurvive
  NumberMatches
CHECK_DEADLOCK FALSE
