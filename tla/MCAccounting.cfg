SPECIFICATION Spec
CONSTANTS
  u1 = u1
  u2 = u2
  treasury = treasury
  x = x
  y = y
  RAY = 1000
  WAD = 1000
  PERCENTAGE_FACTOR = 100
  SECONDS_PER_YEAR = 2
  WAD_RAY_RATIO = 1000
  MAX_UINT = 1000000
  CLOSE_FACTOR_HF_THRESHOLD = 950
  DEFAULT_LIQUIDATION_CLOSE_FACTOR = 50
  Users = {u1, u2}
  Treasury = treasury
  Assets <- OneAsset
  Categories = {}
  PriceSources = {}
  NoSource = "none"
  AssetUnit <- OneUnit
  IsolationUnit <- OneUnit
  Strategy <- SteepStrategy
  IsolatedCollateralSuppliers = {}
  CallChoices <- AccountingCalls
  Beneficiaries <- OwnAccountOnly
  PriceChoices <- NoPriceChoices
  AdminAssets <- OneAsset
  AdminChoices <- AccountingAdmin
  MaxTime = 3
  InitialConfig <- AccountingConfig
  InitialCategories <- EmptyFunction
  InitialPrice <- AccountingPrice
  InitialWallet <- AccountingWallet
  NewAssets = {}
  InitialIndexes <- AccountingIndexes
INVARIANTS
  TypeOK
  BooksBalance
  RatesFresh
  InterestIsShared
PROPERTIES
  EquityNeverFalls
  IndexesNeverFall
  TreasuryGetsItsAccrual
  FullExitLeavesNothing
SYMMETRY TwoUsers
