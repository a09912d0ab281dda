SPECIFICATION ControllerSpec
INVARIANTS
  FailureGivesCodeOne
