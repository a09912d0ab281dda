SPECIFICATION FairSpec
CONSTANTS
  MAX_RESTARTS = 2
  MaxReports = 2
INVARIANTS
  RestartBudget
  TimersFollowState
  OnlineIsServed
  StopIsFinal
PROPERTIES
  Settles
CHECK_DEADLOCK FALSE
