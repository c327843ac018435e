SPECIFICATION Spec
CONSTANTS
  MaxRecoveryAttempts = 2
  Ids <- MCIds
  WindowEvents <- MCEvents
INVARIANTS
  TicketHasRequest
  SubmittedIsUnderway
  OpportunityFollowsPresent
  TornDownIsOwed
  GivenUpIsTerminal
PROPERTIES
  FramesKeepComing
