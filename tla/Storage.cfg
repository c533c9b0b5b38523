SPECIFICATION SSpec
CONSTANTS
  LastAddr = 6
  MaxLength = 4
INVARIANTS
  CopyExact
  ZeroExact
  RefusesOnlyTheImpossible
PROPERTIES
  Returns
CHECK_DEADLOCK FALSE
