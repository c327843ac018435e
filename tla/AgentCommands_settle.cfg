\* Reads and a window command queued behind each other, with timeouts and a surface that comes and goes.
SPECIFICATION FairSpec
CONSTANTS
  c1 = c1
  c2 = c2
  c3 = c3
  c4 = c4
  c5 = c5
  NoCmd = NoCmd
  AnyRev = AnyRev
  NoReply = NoReply
  Cmds <- Three
  Req <- ReqSettle
  Connection <- SettleThreads
  Capacity = 2
  MaxSettlePasses = 2
  MaxRev = 0
  Outside = {"hide", "timeout"}
  ConfirmUi = TRUE
INVARIANTS
  WithdrawnNeverRuns
PROPERTIES
  SettleBarrier
  EveryCommandAnswered
\* A closed window whose connections are done has no step left.
CHECK_DEADLOCK FALSE
