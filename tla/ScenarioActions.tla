--------------------------- MODULE ScenarioActions ---------------------------
(***************************************************************************)
(* What an action of the scenario tests reads from the chain, what it then *)
(* expects to read, and how the two are compared (actions.ts and the data  *)
(* getters of utils/helpers.ts).  The chain is the module Pool; the oracle *)
(* is ExpectedData, with the units of the pool.                            *)
(*                                                                         *)
(* Stable debt cannot be minted in this release: its fields read zero.     *)
(* The rate a stable loan would pay is not part of Pool, so the market's   *)
(* stable slopes and its market rate are taken to be zero.                 *)
(***************************************************************************)
EXTENDS Pool

CONSTANTS
    RAY_RATIO_TOLERANCE,   \* what two rates or ratios may differ by
    AMOUNT_TOLERANCE       \* what two amounts or indexes may differ by: 3

VARIABLES
    phase,    \* of the running action: idle, prepared, mined, read, failed
    action,   \* the action being executed
    before,   \* the data read before its call, and when
    expectedData  \* the data the oracle expects after it

runnerVars == <<phase, action, before, expectedData>>

(* AaveConfig.ReservesConfig, the parameters the market was deployed with. *)
ReservesConfig ==
    [a \in Assets |->
        [strategy |->
            [optimalUsageRatio |-> Strategy[a].optimalUsageRatio,
             baseVariableBorrowRate |-> Strategy[a].base,
             variableRateSlope1 |-> Strategy[a].slope1,
             variableRateSlope2 |-> Strategy[a].slope2,
             stableRateSlope1 |-> 0, stableRateSlope2 |-> 0,
             stableRateExcessOffset |-> 0, optimalStableToTotalDebtRatio |-> 0],
         reserveFactor |-> InitialConfig[a].reserveFactor]]

Oracle == INSTANCE ExpectedData WITH ONE_YEAR <- SECONDS_PER_YEAR,
                                     MAX_UINT_AMOUNT <- MAX_UINT,
                                     reservesParams <- ReservesConfig

-----------------------------------------------------------------------------
(* getReserveData: the record the data provider gives for reserve a.       *)
ReserveDataOf(a) ==
    LET debt  == VTokenBalance(vSupply[a], NormalizedDebt(a))
        usage == IF debt = 0 THEN 0 ELSE Oracle!rayDiv(debt, cash[a] + debt)
    IN  [reserveFactor |-> config[a].reserveFactor, unbacked |-> 0,
         accruedToTreasuryScaled |-> reserve[a].accruedToTreasury,
         availableLiquidity |-> cash[a], totalLiquidity |-> cash[a],
         borrowUsageRatio |-> usage, supplyUsageRatio |-> usage,
         totalStableDebt |-> 0, principalStableDebt |-> 0,
         averageStableBorrowRate |-> 0, stableBorrowRate |-> 0,
         marketStableRate |-> 0, totalStableDebtLastUpdated |-> 0,
         totalVariableDebt |-> debt, scaledVariableDebt |-> vSupply[a],
         liquidityRate |-> reserve[a].currentLiquidityRate,
         variableBorrowRate |-> reserve[a].currentVariableBorrowRate,
         liquidityIndex |-> reserve[a].liquidityIndex,
         variableBorrowIndex |-> reserve[a].variableBorrowIndex,
         lastUpdateTimestamp |-> reserve[a].lastUpdateTimestamp]

(* getUserData: the position of u in reserve a, and the wallet of sender.  *)
UserDataOf(a, u, sender) ==
    [scaledATokenBalance |-> aBalance[a][u],
     currentATokenBalance |-> ATokenBalance(aBalance[a][u], NormalizedIncome(a)),
     currentStableDebt |-> 0, principalStableDebt |-> 0,
     stableBorrowRate |-> 0, stableRateLastUpdated |-> 0,
     currentVariableDebt |-> VTokenBalance(vBalance[a][u], NormalizedDebt(a)),
     scaledVariableDebt |-> vBalance[a][u],
     liquidityRate |-> reserve[a].currentLiquidityRate,
     usageAsCollateralEnabled |-> a \in usingAsCollateral[u],
     walletBalance |-> wallet[a][sender]]

(* Whose position an action reads, and whose wallet.                       *)
Subject(c) ==
    IF c.name \in {"deposit", "supplyWithPermit", "borrow", "repay", "repayWithPermit",
                   "rebalanceStableBorrowRate"}
      THEN c.onBehalfOf ELSE c.user

Sender(c) ==
    IF c.name \in {"deposit", "supplyWithPermit", "borrow"} THEN c.user ELSE Subject(c)

(* getContractsData before the call.                                       *)
ContractsData(c) ==
    [reserve |-> ReserveDataOf(c.asset),
     user |-> UserDataOf(c.asset, Subject(c), Sender(c)),
     borrowAllowance |-> borrowAllowance[c.asset][c.onBehalfOf][c.user],
     timestamp |-> now,
     txTimestamp |-> 0]     \* getTxCostAndTimestamp: set once the call is mined

-----------------------------------------------------------------------------
(* What the oracle makes of the data b read before action c; the data      *)
(* after it is read now.                                                   *)
ExpectedReserve(c, b) ==
    CASE c.name \in {"deposit", "supplyWithPermit"} ->
           Oracle!calcExpectedReserveDataAfterDeposit(c.asset, c.amount, b.reserve,
                                                      b.txTimestamp)
      [] c.name = "withdraw" ->
           Oracle!calcExpectedReserveDataAfterWithdraw(c.asset, c.amount, b.reserve,
                                                       b.user, b.txTimestamp)
      [] c.name = "borrow" ->
           Oracle!calcExpectedReserveDataAfterBorrow(c.asset, c.amount, c.rateMode,
                                                     b.reserve, b.txTimestamp, now)
      [] c.name \in {"repay", "repayWithPermit"} ->
           Oracle!calcExpectedReserveDataAfterRepay(c.asset, c.amount, c.rateMode,
                                                    b.reserve, b.user, b.txTimestamp)

ExpectedUser(c, b, e) ==
    CASE c.name \in {"deposit", "supplyWithPermit"} ->
           Oracle!calcExpectedUserDataAfterDeposit(c.amount, b.reserve, e, b.user,
                                                   b.txTimestamp)
      [] c.name = "withdraw" ->
           Oracle!calcExpectedUserDataAfterWithdraw(c.amount, b.reserve, e, b.user,
                                                    b.txTimestamp)
      [] c.name = "borrow" ->
           Oracle!calcExpectedUserDataAfterBorrow(c.amount, c.rateMode, b.reserve, e,
                                                  b.user, b.txTimestamp, now)
      [] c.name \in {"repay", "repayWithPermit"} ->
           Oracle!calcExpectedUserDataAfterRepay(c.amount, c.rateMode, b.reserve, e,
               b.user, c.user, c.onBehalfOf, b.txTimestamp, now)

(* The actions that compare both records once their call was mined;        *)
(* setUseAsCollateral compares the user only, the others neither.          *)
ComparesReserve(c) == c.name \in {"deposit", "supplyWithPermit", "withdraw", "borrow",
                                  "repay", "repayWithPermit"}
ComparesUser(c)    == ComparesReserve(c) \/ c.name = "setUseAsCollateral"

BothExpected(c, b, e) == [reserve |-> e, user |-> ExpectedUser(c, b, e)]

ExpectedDataAfter(c, b) ==
    IF ComparesReserve(c) THEN BothExpected(c, b, ExpectedReserve(c, b))
    ELSE IF ComparesUser(c)
      THEN [user |-> Oracle!calcExpectedUserDataAfterSetUseAsCollateral(
                         c.useAsCollateral, b.user)]
    ELSE <<>>

-----------------------------------------------------------------------------
(* almostEqualOrEqual: every field of the data read, but the accessory     *)
(* ones, within its tolerance.                                             *)
AccessoryFields == {"lastUpdateTimestamp", "marketStableRate",
                    "totalStableDebtLastUpdated"}

RAY_RATIO_KEYS == {"borrowUsageRatio", "supplyUsageRatio", "liquidityRate",
                   "variableBorrowRate", "averageStableBorrowRate", "stableBorrowRate"}

isAlmostEqual(actual, expected, tolerance) ==
    /\ actual <= expected + tolerance
    /\ expected <= actual + tolerance

almostEqualOrEqual(actual, expected) ==
    \A k \in DOMAIN actual \ AccessoryFields :
        IF k = "usageAsCollateralEnabled" THEN actual[k] = expected[k]
        ELSE isAlmostEqual(actual[k], expected[k],
                           IF k \in RAY_RATIO_KEYS THEN RAY_RATIO_TOLERANCE
                                                   ELSE AMOUNT_TOLERANCE)

ReserveAgrees ==
    ComparesReserve(action) =>
        almostEqualOrEqual(ReserveDataOf(action.asset), expectedData.reserve)

UserAgrees ==
    ComparesUser(action) =>
        almostEqualOrEqual(UserDataOf(action.asset, Subject(action), Sender(action)),
                           expectedData.user)

(* borrow: the delegatee has spent exactly what it borrowed.               *)
AllowanceAgrees ==
    action.name = "borrow" /\ action.user # action.onBehalfOf =>
        borrowAllowance[action.asset][action.onBehalfOf][action.user]
            = before.borrowAllowance - action.amount

(* delegateBorrowAllowance: the allowance is the amount delegated.         *)
DelegationAgrees ==
    action.name = "delegateBorrowAllowance" =>
        borrowAllowance[action.asset][action.user][action.onBehalfOf] = action.amount
=============================================================================
