SPECIFICATION FairSpec
CONSTANTS
  Packet <- MCPacket
  FlowBucket <- MCFlowBucket
  SourceBucket <- MCSourceBucket
  WINDOW = 2
  FLOW_TIMEOUT = 1
  MAX_FLOWS = 2
  MAX_SOURCES = 1
  BUCKETS = 2
  MIN_QUOTA = 1
  SYN_CAP = 1
  MaxTime = 2
INVARIANTS
  IndexExact
  OneFlowPerConversation
PROPERTIES
  WindowsDoNotMix
  SilentFlowsLeave
