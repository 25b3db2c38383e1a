SPECIFICATION Spec
CONSTANTS
  a1 = a1
  a2 = a2
  a3 = a3
  a4 = a4
  zero = zero
  Assets = {a1, a2, a3, a4}
  ZeroAddress = zero
  MaxReserves = 3
INVARIANTS
  ListIsDense
  ListedIsInitialized
  OnlyListedAreActive
PROPERTIES
  IdsArePermanent
