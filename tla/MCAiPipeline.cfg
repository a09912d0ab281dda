SPECIFICATION FairSpec
CONSTANTS
  MAX_RESTARTS = 2
  MaxServers = 3
PROPERTIES
  AnswersFromOwnServer
  OutageShown
  StopsCleanly
CHECK_DEADLOCK FALSE
