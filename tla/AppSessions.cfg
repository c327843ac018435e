\* A window is opened, jobs are posted to it and two themes are set while windows close and the application shuts down.
SPECIFICATION FairSpec
CONSTANTS
  w0 = w0
  w1 = w1
  p1 = p1
  x1 = x1
  s1 = s1
  s2 = s2
  None = None
  Windows = {w0, w1}
  Main = w0
  Jobs = {p1, x1}
  Target <- ToEach
  ContextJobs = {x1}
  Setters = {s1, s2}
INVARIANTS
  NothingOutlivesShutdown
  OpenHandlesHaveSession
  AcceptedJobsEnd
PROPERTIES
  RequestsServed
\* After shutdown_all nothing is left to do.
CHECK_DEADLOCK FALSE
