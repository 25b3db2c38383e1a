SPECIFICATION CoveredSpec
CONSTANTS
  u1 = u1
  u2 = u2
  treasury = treasury
  x = x
  RAY = 10000
  WAD = 1000
  PERCENTAGE_FACTOR = 100
  SECONDS_PER_YEAR = 20
  WAD_RAY_RATIO = 10
  MAX_UINT = 1000000
  CLOSE_FACTOR_HF_THRESHOLD = 950
  DEFAULT_LIQUIDATION_CLOSE_FACTOR = 50
  Users = {u1, u2}
  Treasury = treasury
  Assets <- OneAsset
  Categories = {}
  PriceSources = {}
  NoSource = "none"
  AssetUnit <- OneUnit
  IsolationUnit <- OneUnit
  Strategy <- TestStrategy
  IsolatedCollateralSuppliers = {}
  CallChoices <- NoCalls
  Beneficiaries <- Nobody
  PriceChoices <- NoPrices
  AdminAssets <- OneAsset
  AdminChoices <- NoAdmin
  MaxTime = 7
  InitialConfig <- TestConfig
  InitialCategories <- EmptyFunction
  InitialPrice <- TestPrice
  InitialWallet <- TestWallet
  NewAssets = {}
  InitialIndexes <- TestIndexes
  RAY_RATIO_TOLERANCE = 10
  AMOUNT_TOLERANCE = 3
  StoryActions <- StoryOfOneBorrower
  MaxTravel = 1
  NoAction = NoAction
CHECK_DEADLOCK FALSE
INVARIANTS
  ReserveAsExpected
  UserAsExpected
PROPERTIES
  DelegationIsSpent
