\* Four jobs, waves cut by a budget of two, two clears, panics anywhere.
SPECIFICATION FairSpec
CONSTANTS
  Jobs = {j1, j2, j3, j4}
  None = None
  MaxPerDrain = 2
  MaxClears = 2
PROPERTIES
  KeepsPromise
  EveryJobServed
