\* One thread loads the file again while another one saves.
SPECIFICATION Spec
CONSTANTS
  t1 = t1
  t2 = t2
  None = None
  Torn = Torn
  Threads = {t1, t2}
  MaxVersion = 2
  MaxCrashes = 0
  IoFails = FALSE
INVARIANTS
  FailedSaveKeepsSome
