SPECIFICATION FairSpec
CONSTANTS
  IP = {a, b}
  TTL = 2
  MAX_EXPIRY_CLEANUPS_PER_TICK = 2
  MaxTime = 5
  MaxHeap = 4
PROPERTIES
  RefinesAbs
  ExpiredReleased
