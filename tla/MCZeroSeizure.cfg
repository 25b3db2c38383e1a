SPECIFICATION Spec
CONSTANTS
  u1 = u1
  u2 = u2
  treasury = treasury
  x = x
  y = y
  RAY = 1000
  WAD = 1000
  PERCENTAGE_FACTOR = 100
  SECONDS_PER_YEAR = 2
  WAD_RAY_RATIO = 1000
  MAX_UINT = 1000000
  CLOSE_FACTOR_HF_THRESHOLD = 950
  DEFAULT_LIQUIDATION_CLOSE_FACTOR = 50
  Users = {u1, u2}
  Treasury = treasury
  Assets <- TwoAssets
  Categories = {}
  PriceSources = {}
  NoSource = "none"
  AssetUnit <- TwoUnits
  IsolationUnit <- TwoUnits
  Strategy <- FlatStrategy
  IsolatedCollateralSuppliers = {}
  CallChoices <- CoarseCalls
  Beneficiaries <- OwnAccountOnly
  PriceChoices <- CoarsePriceChoices
  AdminAssets <- TwoAssets
  AdminChoices <- NoAdmin
  MaxTime = 1
  InitialConfig <- CoarseConfig
  InitialCategories <- EmptyFunction
  InitialPrice <- CoarsePrice
  InitialWallet <- CoarseWallet
  NewAssets <- TwoAssets
  InitialIndexes <- RiskIndexes
PROPERTIES
  BitsComeWithTokens
