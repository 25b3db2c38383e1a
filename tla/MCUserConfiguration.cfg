SPECIFICATION UserConfigSpec
CONSTANTS
  MAX_RESERVES_COUNT = 5
INVARIANTS
  GettersTellTheSets
PROPERTIES
  ImplementsSets
