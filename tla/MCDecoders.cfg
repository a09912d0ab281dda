SPECIFICATION Spec
CONSTANTS
  RawPackets <- MCRawPackets
  INT_MAX = 8388607
  UINT32_MAX = 16777215
  Documents <- MCDocuments
  FlowIds = {f1, f2}
  ModelVersions = {m1, m2}
  Counts = {0, 1, 2, 3}
  Times = {0, 999, 1000, 1999}
  Anchors = {0, 1}
  Scores = {0, 1, 2}
  THRESHOLD = 1
INVARIANTS
  ParserSound
  ConfigSound
  ExchangeAgrees
CHECK_DEADLOCK FALSE
