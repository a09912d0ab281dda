SPECIFICATION ControllerFairSpec
INVARIANTS
  WiredOnce
  DivertedToCompleteChain
  CleanStop
  DestroyedAlone
  UnheardIsReported
PROPERTIES
  ForeignUntouched
  ShutdownCompletes
  CaptureEndIsNoticed
