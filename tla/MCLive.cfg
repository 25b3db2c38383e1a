SPECIFICATION LiveSpec
CONSTANTS
  a1 = a1
  Accounts = {a1}
  ReserveStates <- TestReserves
  Settings <- TestSettings
  Unset = Unset
  Invalid = Invalid
  DEFAULT_LOG_STEP = 1
  PERCENTAGE_FACTOR = 10000
  MaxBlock = 2
  MaxListed = 2
CHECK_DEADLOCK FALSE
INVARIANTS
  VerdictIsOfTarget
PROPERTIES
  CheckEnds
