SPECIFICATION Spec
CONSTANTS
  u1 = u1
  u2 = u2
  treasury = treasury
  x = x
  y = y
  RAY = 1000
  WAD = 1000
  PERCENTAGE_FACTOR = 100
  SECONDS_PER_YEAR = 2
  WAD_RAY_RATIO = 1000
  MAX_UINT = 1000000
  CLOSE_FACTOR_HF_THRESHOLD = 950
  DEFAULT_LIQUIDATION_CLOSE_FACTOR = 50
  Users = {u1, u2}
  Treasury = treasury
  Assets <- TwoAssets
  Categories = {}
  PriceSources = {}
  NoSource = "none"
  AssetUnit <- TwoUnits
  IsolationUnit <- TwoUnits
  Strategy <- FlatStrategy
  IsolatedCollateralSuppliers = {}
  CallChoices <- RiskCalls
  Beneficiaries <- OwnAccountOnly
  PriceChoices <- RiskPriceChoices
  AdminAssets <- TwoAssets
  AdminChoices <- NoAdmin
  MaxTime = 1
  InitialConfig <- RiskConfig
  InitialCategories <- EmptyFunction
  InitialPrice <- RiskPrice
  InitialWallet <- RiskWallet
  NewAssets = {}
  InitialIndexes <- RiskIndexes
INVARIANTS
  BorrowingBitsMatchDebts
  RatesFresh
  UnhealthyCanBeLiquidated
PROPERTIES
  EquityNeverFalls
  HealthyStaysHealthy
  LiquidationPaysItsWay
  BitDropsWithLastUnit
