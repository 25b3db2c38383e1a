SPECIFICATION TokensSpec
CONSTANTS
  u1 = u1
  u2 = u2
  RAY = 10
  WAD = 10
  PERCENTAGE_FACTOR = 100
  SECONDS_PER_YEAR = 2
  Users = {u1, u2}
  NoOne = NoOne
  InfiniteAmount = 1000000
  Amounts = {0, 1, 4}
  Allowances = {4}
  Incomes = {10, 13, 17}
  Debts = {10, 14, 19}
  MaxScaled = 5
SYMMETRY TwoUsers
VIEW WithoutReceipt
CONSTRAINT OneToken
CHECK_DEADLOCK FALSE
PROPERTIES
  EventsAsExpected
  EventsTellTheChange
  TransferFromIsPaid
