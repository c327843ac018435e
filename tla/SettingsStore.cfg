\* One thread loads and saves while file operations fail and the process crashes.
SPECIFICATION Spec
CONSTANTS
  t1 = t1
  t2 = t2
  None = None
  Torn = Torn
  Threads = {t1}
  MaxVersion = 3
  MaxCrashes = 2
  IoFails = TRUE
INVARIANTS
  NothingLost
  StaleTempNeverBlocks
  CleanMeansSaved
