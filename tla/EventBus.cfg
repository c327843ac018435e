\* Handlers subscribe, unsubscribe, publish and close from inside each other.
SPECIFICATION Spec
CONSTANTS
  a = a
  b = b
  c = c
  t = t
  u = u
  None = None
  Handlers = {a, b, c}
  Types = {t, u}
  TypeOf <- KindOf
  Owns <- Captured
  MaxDepth = 2
  MaxPublishes = 4
INVARIANTS
  TypeOK
  CellsMatchCalls
PROPERTIES
  PublishServesRegistered
\* A closed bus, or one whose publishes are used up.
CHECK_DEADLOCK FALSE
