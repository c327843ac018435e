\* A guarded action, its confirmation and three decisions of the user, until the window closes.
SPECIFICATION Spec
CONSTANTS
  c1 = c1
  c2 = c2
  c3 = c3
  c4 = c4
  c5 = c5
  NoCmd = NoCmd
  AnyRev = AnyRev
  NoReply = NoReply
  Cmds <- Five
  Req <- ReqUser
  Connection <- UserThreads
  Capacity = 1
  MaxSettlePasses = 2
  MaxRev = 1
  Outside = {"ttl", "tree", "close"}
  ConfirmUi = TRUE
SYMMETRY Alike
INVARIANTS
  NoAnswerLost
  ClosedAnswersAll
  GuardedNeedsUser
PROPERTIES
  ClientContract
  FreshDispatch
  ApprovalWithinTtl
\* A closed window whose connections are done has no step left.
CHECK_DEADLOCK FALSE
