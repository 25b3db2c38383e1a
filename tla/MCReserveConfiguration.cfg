SPECIFICATION ConfigSpec
CONSTANTS
  Samples = {0, 7}
  MaxSetFields = 2
INVARIANTS
  ReadsBack
PROPERTIES
  ImplementsFields
