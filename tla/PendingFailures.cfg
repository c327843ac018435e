\* Two sources share a queue of two while callbacks flood one of them and both close.
SPECIFICATION FailuresSpec
CONSTANTS
  s1 = s1
  s2 = s2
  f1 = f1
  f2 = f2
  f3 = f3
  f4 = f4
  Nobody = Nobody
  Sources = {s1, s2}
  Failures = {f1, f2, f3, f4}
  Of <- Flood
  Capacity = 2
INVARIANTS
  OwnFailuresAccounted
  ClosedLeavesNothing
\* Every callback is over and every source closed.
CHECK_DEADLOCK FALSE
