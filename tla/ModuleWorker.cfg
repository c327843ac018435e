SPECIFICATION WorkerSpec
CONSTANTS
  Callers <- MCCallers
  Stages <- MCStages
  Kinds <- MCKinds
  ModuleCapacity = 2
  MaxSeq = 3
  MaxAwaits = 2
  MaxCancels = 1
INVARIANTS
  AnswerIsVisible
  CoveredIsDecided
  TerminalStaysClear
PROPERTIES
  EveryRequestEnds
\* A worker that has ended, with every request taken, does nothing more.
CHECK_DEADLOCK FALSE
