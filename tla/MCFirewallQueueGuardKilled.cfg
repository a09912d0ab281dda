SPECIFICATION GuardSpec
INVARIANTS
  LeftoverIsRemovable
