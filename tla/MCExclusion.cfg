SPECIFICATION Spec
CONSTANTS
  u1 = u1
  u2 = u2
  treasury = treasury
  x = x
  y = y
  RAY = 1000
  WAD = 1000
  PERCENTAGE_FACTOR = 100
  SECONDS_PER_YEAR = 2
  WAD_RAY_RATIO = 1000
  MAX_UINT = 1000000
  CLOSE_FACTOR_HF_THRESHOLD = 950
  DEFAULT_LIQUIDATION_CLOSE_FACTOR = 50
  Users = {u1, u2}
  Treasury = treasury
  Assets <- TwoAssets
  Categories = {1}
  PriceSources = {"feed"}
  NoSource = "none"
  AssetUnit <- TwoUnits
  IsolationUnit <- TwoUnits
  Strategy <- FlatStrategy
  IsolatedCollateralSuppliers = {u1}
  CallChoices <- ExclusionCalls
  Beneficiaries <- FirstForTheSecond
  PriceChoices <- FallingPrice
  AdminAssets <- TwoAssets
  AdminChoices <- ExclusionAdmin
  MaxTime = 1
  InitialConfig <- ExclusionConfig
  InitialCategories <- OneCategory
  InitialPrice <- EvenPrice
  InitialWallet <- SmallWallet
  NewAssets = {}
  InitialIndexes <- RiskIndexes
INVARIANTS
  SiloedDebtIsAlone
PROPERTIES
  DebtsStayInCategory
  IsolationIsKept
