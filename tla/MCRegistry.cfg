SPECIFICATION Spec
CONSTANTS
  p1 = p1
  p2 = p2
  p3 = p3
  p4 = p4
  zero = zero
  Providers = {p1, p2, p3, p4, zero}
  Ids = {0, 1, 2, 3}
  ZeroAddress = zero
INVARIANTS
  ListIsIndexed
PROPERTIES
  ImplementsRegistry
