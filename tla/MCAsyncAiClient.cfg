SPECIFICATION FairSpec
CONSTANTS
  QUEUE_CAPACITY = 1
  MaxFlows = 4
  MaxGeneration = 3
INVARIANTS
  CurrentGenerationOnly
  NoLostWakeup
  NoSilentLoss
  SentOnOwnSocket
  OneReportPerConnection
PROPERTIES
  RefinesAbs
  HealthyConnectionSurvives
  WorkerExits
  QueuedFlowsTaken
