-------------------------------- MODULE Pool --------------------------------
(***************************************************************************)
(* The pool: every call of Pool.sol that changes state, the calls of the   *)
(* PoolConfigurator on a live pool, the oracle that moves prices and the   *)
(* clock.  One step is one transaction.                                    *)
(***************************************************************************)
EXTENDS SupplyLogic, LiquidationLogic, PoolLogic, PoolConfigurator

CONSTANTS
    CallChoices,       \* per user and call, the amounts the user asks for
    Beneficiaries,     \* whom a user supplies, withdraws, transfers... to
    PriceChoices,      \* per feed, the prices the oracle may report
    AdminChoices,      \* per configurator call, the values it may set
    AdminAssets,       \* the assets whose settings the admins change
    MaxTime,           \* the clock, which starts at 1, stops here
    InitialConfig, InitialCategories, InitialPrice, InitialWallet,
    NewAssets,         \* assets whose reserve no call has used yet
    InitialIndexes     \* the indexes the other reserves have kept

ASSUME PoolAssumption ==
    /\ CallChoices \in [Users ->
          [supply: SUBSET Nat, withdraw: SUBSET Nat, transfer: SUBSET Nat,
           borrow: SUBSET Nat, repay: SUBSET Nat, repayWithATokens: SUBSET Nat,
           liquidate: SUBSET Nat, delegate: SUBSET Nat,
           useAsCollateral: SUBSET BOOLEAN, receiveAToken: SUBSET BOOLEAN]]
    /\ Beneficiaries \in [Users -> SUBSET Users]
    /\ AdminChoices \in
          [active: SUBSET BOOLEAN, paused: SUBSET BOOLEAN, frozen: SUBSET BOOLEAN,
           borrowing: SUBSET BOOLEAN, supplyCap: SUBSET Nat, borrowCap: SUBSET Nat,
           siloed: SUBSET BOOLEAN, debtCeiling: SUBSET Nat, reserveFactor: SUBSET Nat,
           collateral: SUBSET [ltv: Nat, liquidationThreshold: Nat,
                               liquidationBonus: Bonus],
           protocolFee: SUBSET Nat, isolated: SUBSET BOOLEAN,
           category: SUBSET (Categories \cup {0}), poolPaused: SUBSET BOOLEAN,
           eMode: SUBSET EModeCategory]
    /\ AdminAssets \subseteq Assets
    /\ PriceChoices \in [Feeds -> SUBSET (Nat \ {0})]
    /\ MaxTime \in Nat
    /\ InitialConfig \in [Assets -> ReserveConfiguration]
    /\ InitialCategories \in [Categories -> EModeCategory]
    /\ \A p \in {InitialConfig[a] : a \in Assets}
             \cup {InitialCategories[c] : c \in Categories} :
          \* what configureReserveAsCollateral and setEModeCategory leave
          /\ p.ltv <= p.liquidationThreshold
          /\ p.liquidationThreshold # 0 => p.liquidationBonus > PERCENTAGE_FACTOR
    /\ \A c \in Categories : InitialCategories[c].ltv = 0 =>
          InitialCategories[c].liquidationThreshold = 0
    /\ InitialPrice \in [Feeds -> Nat \ {0}]
    /\ InitialWallet \in [Assets -> [Accounts -> Nat]]
    /\ InitialIndexes \in [Assets -> [liquidityIndex: Nat, variableBorrowIndex: Nat]]
    /\ \A a \in Assets : /\ InitialIndexes[a].liquidityIndex >= RAY
                         /\ InitialIndexes[a].variableBorrowIndex >= RAY

(* ReserveLogic.init: a reserve no call has used yet (timestamp zero).     *)
NewReserve ==
    [liquidityIndex |-> RAY, variableBorrowIndex |-> RAY,
     currentLiquidityRate |-> 0, currentVariableBorrowRate |-> 0,
     lastUpdateTimestamp |-> 0, accruedToTreasury |-> 0,
     isolationModeTotalDebt |-> 0]

(* A reserve whose last user has left: its life left its indexes behind,   *)
(* and the last call the rates of an empty reserve.                        *)
EmptiedReserve(a) ==
    LET rates == InterestRates(a, 0, 0, InitialConfig[a].reserveFactor)
    IN  [liquidityIndex |-> InitialIndexes[a].liquidityIndex,
         variableBorrowIndex |-> InitialIndexes[a].variableBorrowIndex,
         currentLiquidityRate |-> rates.liquidity,
         currentVariableBorrowRate |-> rates.variable,
         lastUpdateTimestamp |-> 1, accruedToTreasury |-> 0,
         isolationModeTotalDebt |-> 0]

Init ==
    /\ reserve = [a \in Assets |-> IF a \in NewAssets THEN NewReserve
                                   ELSE EmptiedReserve(a)]
    /\ config = InitialConfig
    /\ eModeCategories = InitialCategories
    /\ aBalance = [a \in Assets |-> [u \in Accounts |-> 0]]
    /\ aSupply = [a \in Assets |-> 0]
    /\ vBalance = [a \in Assets |-> [u \in Accounts |-> 0]]
    /\ vSupply = [a \in Assets |-> 0]
    /\ borrowAllowance =
          [a \in Assets |-> [u \in Accounts |-> [d \in Accounts |-> 0]]]
    /\ cash = [a \in Assets |-> 0]
    /\ wallet = InitialWallet
    /\ usingAsCollateral = [u \in Accounts |-> {}]
    /\ borrowing = [u \in Accounts |-> {}]
    /\ userEMode = [u \in Accounts |-> 0]
    /\ price = InitialPrice
    /\ now = 1

-----------------------------------------------------------------------------
(* AaveOracle.getAssetPrice reports another price.                         *)
SetPrice(f, p) ==
    /\ price' = [price EXCEPT ![f] = p]
    /\ UNCHANGED <<reserve, adminVars, ledgerVars, borrowAllowance, bitVars,
                   userEMode, now>>

(* The next block.                                                         *)
Tick ==
    /\ now < MaxTime
    /\ now' = now + 1
    /\ UNCHANGED <<reserve, adminVars, ledgerVars, borrowAllowance, bitVars,
                   userEMode, price>>

UserStep ==
    \E u \in Users : \E v \in Beneficiaries[u], a \in Assets :
        \/ \E n \in CallChoices[u].supply : Supply(u, a, n, v)
        \/ \E n \in CallChoices[u].withdraw : Withdraw(u, a, n, v)
        \/ \E n \in CallChoices[u].transfer : Transfer(u, a, n, v)
        \/ \E n \in CallChoices[u].borrow : Borrow(u, a, n, v)
        \/ \E n \in CallChoices[u].repay : Repay(u, a, n, v)
        \/ \E n \in CallChoices[u].delegate : ApproveDelegation(u, a, v, n)

OwnStep ==
    \E u \in Users, a \in Assets :
        \/ \E n \in CallChoices[u].repayWithATokens : RepayWithATokens(u, a, n)
        \/ \E b \in CallChoices[u].useAsCollateral : SetUserUseReserveAsCollateral(u, a, b)

Liquidate ==
    \E liquidator \in Users : \E u \in Users, c, d \in Assets,
       n \in CallChoices[liquidator].liquidate,
       b \in CallChoices[liquidator].receiveAToken :
           LiquidationCall(liquidator, u, c, d, n, b)

AdminStep ==
    \E a \in AdminAssets :
        \/ \E b \in AdminChoices.active : SetReserveActive(a, b)
        \/ \E b \in AdminChoices.paused : SetReservePause(a, b)
        \/ \E b \in AdminChoices.frozen : SetReserveFreeze(a, b)
        \/ \E b \in AdminChoices.borrowing : SetReserveBorrowing(a, b)
        \/ \E n \in AdminChoices.supplyCap : SetSupplyCap(a, n)
        \/ \E n \in AdminChoices.borrowCap : SetBorrowCap(a, n)
        \/ \E b \in AdminChoices.siloed : SetSiloedBorrowing(a, b)
        \/ \E n \in AdminChoices.debtCeiling : SetDebtCeiling(a, n)
        \/ \E n \in AdminChoices.reserveFactor : SetReserveFactor(a, n)
        \/ \E p \in AdminChoices.collateral : ConfigureReserveAsCollateral(a, p)
        \/ \E n \in AdminChoices.protocolFee : SetLiquidationProtocolFee(a, n)
        \/ \E b \in AdminChoices.isolated : SetBorrowableInIsolation(a, b)
        \/ \E c \in AdminChoices.category : SetAssetEModeCategory(a, c)

(* The calls the pool takes from anyone.                                   *)
UserCall ==
    \/ UserStep
    \/ OwnStep
    \/ Liquidate
    \/ \E a \in Assets : MintToTreasury(a)
    \/ \E u \in Users, c \in Categories \cup {0} : SetUserEMode(u, c)

(* What happens to the pool: its admins, its oracle and time.              *)
WorldStep ==
    \/ AdminStep
    \/ \E b \in AdminChoices.poolPaused : SetPoolPause(b)
    \/ \E c \in Categories, p \in AdminChoices.eMode : SetEModeCategory(c, p)
    \/ \E f \in Feeds : \E p \in PriceChoices[f] : SetPrice(f, p)
    \/ Tick

Next == UserCall \/ WorldStep

Spec == Init /\ [][Next]_vars
=============================================================================
