SPECIFICATION FairSpec
CONSTANTS
  Packet <- MCPacket
  FlowBucket <- MCFlowBucket
  SourceBucket <- MCSourceBucket
  WHITELIST = {"admin"}
  PORT_THRESHOLD = 2
  SYN_THRESHOLD = 2
  TTL = 2
  MAX_EXPIRY_CLEANUPS_PER_TICK = 1
  WINDOW = 1
  FLOW_TIMEOUT = 2
  MAX_FLOWS = 2
  MAX_SOURCES = 1
  BUCKETS = 2
  MIN_QUOTA = 1
  CLIENT_CAPACITY = 2
  MaxTime = 3
INVARIANTS
  BlockedHasNoFlows
  DropIffBlocked
  ThresholdBlocks
PROPERTIES
  RunningBlockKept
  SubmittedAfterBlock
  
