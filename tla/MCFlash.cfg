SPECIFICATION FlashSpec
CONSTANTS
  u1 = u1
  u2 = u2
  treasury = treasury
  x = x
  y = y
  RAY = 1000
  WAD = 1000
  PERCENTAGE_FACTOR = 100
  SECONDS_PER_YEAR = 2
  WAD_RAY_RATIO = 1000
  MAX_UINT = 1000000
  CLOSE_FACTOR_HF_THRESHOLD = 950
  DEFAULT_LIQUIDATION_CLOSE_FACTOR = 50
  Users = {u1}
  Treasury = treasury
  Assets <- TwoAssets
  Categories = {1}
  PriceSources = {"feed"}
  NoSource = "none"
  AssetUnit <- TwoUnits
  IsolationUnit <- TwoUnits
  Strategy <- FlatStrategy
  IsolatedCollateralSuppliers = {}
  CallChoices <- FlashCalls
  Beneficiaries <- OwnAccount
  PriceChoices <- NoFlashPriceChoices
  AdminAssets <- OneOfTwo
  AdminChoices <- FlashAdmin
  MaxTime = 1
  InitialConfig <- BothPlain
  InitialCategories <- OneCategory
  InitialPrice <- FlashPrice
  InitialWallet <- FlashWallet
  NewAssets = {}
  InitialIndexes <- RiskIndexes
  FlashChoices <- FlashLoans
  FlashBorrowers = {u1}
  FlashAdminChoices <- FlashSettings
  MaxDepth = 2
  InitialPremium = 50
INVARIANTS
  SettledRatesAreFresh
  InactiveReserveHasNoSupply
PROPERTIES
  LentEquityNeverFalls
  CollateralStaysSeizable
CHECK_DEADLOCK FALSE
