\* Two connections wait while the window is registered again, presented and closed.
SPECIFICATION BridgeFairSpec
CONSTANTS
  r = r
  p = p
  None = None
  Waits <- Both
  Condition <- Wants
  MaxGen = 2
  MaxRevision = 2
INVARIANTS
  NoLostNotify
PROPERTIES
  RevisionsGrow
  WaitsEnd
\* A closed application whose connections have their answers does nothing more.
CHECK_DEADLOCK FALSE
