\* An interval and a one-shot fall due together under a budget of one callback a turn.
SPECIFICATION FairSpec
CONSTANTS
  i1 = i1
  a1 = a1
  w1 = w1
  None = None
  Forever = Forever
  Stale = Stale
  Widgets = {w1}
  Asked <- OneAsked
  Timers <- Pair
  Intervals = {i1}
  Delay <- PairDelays
  Budget = 1
  Epochs = 3
INVARIANTS
  CancelledStaysOut
  TeardownIsFinal
  SleepsToDeadline
PROPERTIES
  DueTimersFire
