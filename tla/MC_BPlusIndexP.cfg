CONSTANTS
    BUCKET_MAX_ELEMENTS = 3
    Keys = {1, 2, 3, 4, 5, 6, 7, 8, 9, 10, 11, 12, 13, 14, 15, 16, 17}
    Preloads <- MCPreloads
    MaxAdds = 3
    MaxUpdates = 1
    MaxRestarts = 1
SPECIFICATION Spec
INVARIANTS
  FindsEveryKey
  PagesSound
  CopiesKnown
  FileHasTree
CHECK_DEADLOCK FALSE
