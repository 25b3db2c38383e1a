---------------------------- MODULE PoolStorage ----------------------------
(***************************************************************************)
(* The storage the pool's logic libraries share (PoolStorage, DataTypes),  *)
(* together with the token ledgers they write: the scaled balances of the  *)
(* aToken and the variable debt token of each reserve, and the underlying  *)
(* held by the aToken contract and by the users.                           *)
(*                                                                         *)
(* A call is an EVM transaction, so a call is one step; what interleaves   *)
(* is the order of the calls of different users, the oracle and time.      *)
(***************************************************************************)
EXTENDS RayMath, FiniteSets

CONSTANTS
    Users,           \* accounts that call the pool
    Treasury,        \* RESERVE_TREASURY_ADDRESS of every aToken
    Assets,          \* underlying assets of the initialised reserves
    Categories,      \* identifiers of the eMode categories (non-zero)
    PriceSources,    \* custom eMode price feeds
    NoSource,        \* category without a custom feed (address(0))
    AssetUnit,       \* per asset, 10^decimals
    IsolationUnit,   \* per asset, 10^(decimals - DEBT_CEILING_DECIMALS)
    MAX_UINT         \* type(uint256).max: "everything", and infinity

Accounts == Users \cup {Treasury}
Feeds    == Assets \cup PriceSources

ASSUME StorageAssumption ==
    /\ IsFiniteSet(Users)      \* an address has 160 bits
    /\ IsFiniteSet(Assets)     \* and a pool no more than maxNumberReserves
    /\ 0 \notin Categories
    /\ Categories \subseteq Nat
    /\ NoSource \notin PriceSources
    /\ AssetUnit \in [Assets -> Nat \ {0}]
    /\ IsolationUnit \in [Assets -> Nat \ {0}]
    /\ MAX_UINT \in Nat
    /\ WAD < MAX_UINT

VARIABLES
    reserve,           \* DataTypes.ReserveData, per asset
    config,            \* DataTypes.ReserveConfigurationMap, per asset
    eModeCategories,   \* DataTypes.EModeCategory, per category
    aBalance,          \* scaled aToken balances: asset -> account
    aSupply,           \* scaled aToken total supply, per asset
    vBalance,          \* scaled variable debt: asset -> account
    vSupply,           \* scaled variable debt supply, per asset
    borrowAllowance,   \* credit delegation: asset -> delegator -> delegatee
    cash,              \* underlying held by the aToken contract, per asset
    wallet,            \* underlying held by the accounts: asset -> account
    usingAsCollateral, \* UserConfigurationMap, collateral bits: account -> assets
    borrowing,         \* UserConfigurationMap, borrowing bits: account -> assets
    userEMode,         \* _usersEModeCategory
    price,             \* oracle prices, per feed
    now                \* block.timestamp

ledgerVars == <<aBalance, aSupply, vBalance, vSupply, cash, wallet>>
bitVars    == <<usingAsCollateral, borrowing>>
adminVars  == <<config, eModeCategories>>
worldVars  == <<price, now>>
vars       == <<reserve, adminVars, ledgerVars, borrowAllowance, bitVars,
                userEMode, worldVars>>

-----------------------------------------------------------------------------
ReserveData ==
    [liquidityIndex: Nat, variableBorrowIndex: Nat,
     currentLiquidityRate: Nat, currentVariableBorrowRate: Nat,
     lastUpdateTimestamp: Nat, accruedToTreasury: Nat,
     isolationModeTotalDebt: Nat]

(* A bonus is above one hundred percent, or zero for no collateral.        *)
Bonus == {b \in Nat : b = 0 \/ b > PERCENTAGE_FACTOR}

ReserveConfiguration ==
    [active: BOOLEAN, paused: BOOLEAN, frozen: BOOLEAN,
     borrowingEnabled: BOOLEAN, borrowableInIsolation: BOOLEAN,
     siloedBorrowing: BOOLEAN,
     ltv: Nat, liquidationThreshold: Nat, liquidationBonus: Bonus,
     reserveFactor: 0..PERCENTAGE_FACTOR,
     liquidationProtocolFee: 0..PERCENTAGE_FACTOR,
     supplyCap: Nat, borrowCap: Nat, debtCeiling: Nat,
     eModeCategory: Categories \cup {0}]

EModeCategory ==
    [ltv: Nat, liquidationThreshold: Nat, liquidationBonus: Bonus,
     priceSource: PriceSources \cup {NoSource}]

ReservesOK ==
    /\ reserve \in [Assets -> ReserveData]
    /\ \A a \in Assets : /\ reserve[a].liquidityIndex >= RAY
                         /\ reserve[a].variableBorrowIndex >= RAY
                         /\ reserve[a].lastUpdateTimestamp <= now

LedgersOK ==
    /\ aBalance \in [Assets -> [Accounts -> Nat]]
    /\ aSupply \in [Assets -> Nat]
    /\ vBalance \in [Assets -> [Accounts -> Nat]]
    /\ vSupply \in [Assets -> Nat]
    /\ cash \in [Assets -> Nat]
    /\ wallet \in [Assets -> [Accounts -> Nat]]

AccountsOK ==
    /\ borrowAllowance \in [Assets -> [Accounts -> [Accounts -> Nat]]]
    /\ usingAsCollateral \in [Accounts -> SUBSET Assets]
    /\ borrowing \in [Accounts -> SUBSET Assets]
    /\ userEMode \in [Accounts -> Categories \cup {0}]

SettingsOK ==
    /\ config \in [Assets -> ReserveConfiguration]
    /\ eModeCategories \in [Categories -> EModeCategory]

WorldOK ==
    /\ price \in [Feeds -> Nat \ {0}]
    /\ now \in Nat

(* Every variable has the type the Solidity declarations give it: no       *)
(* balance goes below zero, an index is never below one RAY.               *)
TypeOK == ReservesOK /\ LedgersOK /\ AccountsOK /\ SettingsOK /\ WorldOK

-----------------------------------------------------------------------------
(* UserConfiguration: the bitmap of a user as two sets of assets.          *)
isBorrowingAny(u) == borrowing[u] # {}

isEmpty(u) == usingAsCollateral[u] = {} /\ borrowing[u] = {}

(* getIsolationModeState: the only collateral of u has a debt ceiling.     *)
InIsolation(u, a) == usingAsCollateral[u] = {a} /\ config[a].debtCeiling # 0

isolationModeActive(u) == \E a \in Assets : InIsolation(u, a)

(* getSiloedBorrowingState: the only debt of u is in a siloed asset.       *)
SiloedIn(u, a) == borrowing[u] = {a} /\ config[a].siloedBorrowing

(* Mutants: a credit that overwrites, a bit that is never cleared.         *)
CreditMutant(f, a, u, n) == [f EXCEPT ![a][u] = n]
WithoutBitMutant(f, u, a) == f

Credit(f, a, u, n) == [f EXCEPT ![a][u] = @ + n]
Debit(f, a, u, n)  == [f EXCEPT ![a][u] = @ - n]

(* A token burns at least one scaled unit, and its subtractions, from the  *)
(* balance and from the total supply, are checked.                         *)
Burnable(scaled, balance, supply) ==
    scaled # 0 /\ scaled <= balance /\ scaled <= supply

WithBit(f, u, a)    == [f EXCEPT ![u] = @ \cup {a}]
WithoutBit(f, u, a) == [f EXCEPT ![u] = @ \ {a}]
=============================================================================
