---------------------------- MODULE Calculations ----------------------------
(***************************************************************************)
(* The oracle of the scenario tests (calculations.ts): from the data of a  *)
(* reserve and of a user read before a call, the data expected after it.   *)
(* A second, independent writing of the protocol's formulas, stable debt   *)
(* included, rounding half up where the contracts choose a direction.      *)
(*                                                                         *)
(* A reserve is a ReserveData record and a user a UserReserveData record   *)
(* (utils/interfaces), without the addresses, the symbol (passed as the    *)
(* asset) and the decimals.  A field an expected record does not set keeps *)
(* the value it had before; those fields are never compared.               *)
(***************************************************************************)
EXTENDS BigNumberMath

CONSTANTS
    reservesParams,   \* per asset: strategy and reserveFactor of the market
    MAX_UINT_AMOUNT   \* helpers/constants: stands for "everything"

Stable   == "1"       \* RateMode.Stable
Variable == "2"       \* RateMode.Variable

-----------------------------------------------------------------------------
(* Interest and normalized indexes.                                        *)
calcLinearInterest(rate, timestamp, lastUpdate) ==
    Quot(rate * (timestamp - lastUpdate), ONE_YEAR) + RAY

calcCompoundedInterest(rate, timestamp, lastUpdate) ==
    LET dt         == timestamp - lastUpdate
        minusTwo   == IF dt > 2 THEN dt - 2 ELSE 0
        powerTwo   == Quot(rayMul(rate, rate), ONE_YEAR * ONE_YEAR)
        powerThree == Quot(rayMul(powerTwo, rate), ONE_YEAR)
    IN  IF dt = 0 THEN RAY
        ELSE RAY + Quot(rate * dt, ONE_YEAR)
                 + Quot(dt * (dt - 1) * powerTwo, 2)
                 + Quot(dt * (dt - 1) * minusTwo * powerThree, 6)

calcExpectedReserveNormalizedIncome(r, timestamp) ==
    IF r.liquidityRate = 0 THEN r.liquidityIndex
    ELSE rayMul(calcLinearInterest(r.liquidityRate, timestamp, r.lastUpdateTimestamp),
                r.liquidityIndex)

calcExpectedReserveNormalizedDebt(rate, index, lastUpdate, timestamp) ==
    IF rate = 0 THEN index
    ELSE rayMul(calcCompoundedInterest(rate, timestamp, lastUpdate), index)

calcExpectedLiquidityIndex(r, timestamp) ==
    IF r.supplyUsageRatio = 0 THEN r.liquidityIndex
    ELSE rayMul(calcLinearInterest(r.liquidityRate, timestamp, r.lastUpdateTimestamp),
                r.liquidityIndex)

calcExpectedVariableBorrowIndex(r, timestamp) ==
    IF r.totalVariableDebt = 0 THEN r.variableBorrowIndex
    ELSE rayMul(calcCompoundedInterest(r.variableBorrowRate, timestamp,
                                       r.lastUpdateTimestamp),
                r.variableBorrowIndex)

-----------------------------------------------------------------------------
(* Balances.                                                               *)
calcExpectedScaledATokenBalance(u, index, added, taken) ==
    u.scaledATokenBalance + rayDiv(added, index) - rayDiv(taken, index)

calcExpectedATokenBalance(r, u, timestamp) ==
    rayMul(u.scaledATokenBalance, calcExpectedReserveNormalizedIncome(r, timestamp))

calcExpectedVariableDebtTokenBalance(r, u, timestamp) ==
    rayMul(u.scaledVariableDebt,
           calcExpectedReserveNormalizedDebt(r.variableBorrowRate, r.variableBorrowIndex,
                                             r.lastUpdateTimestamp, timestamp))

calcExpectedStableDebtTokenBalance(principal, rate, lastUpdated, timestamp) ==
    IF rate = 0 \/ timestamp = lastUpdated \/ lastUpdated = 0 THEN principal
    ELSE rayMul(principal, calcCompoundedInterest(rate, timestamp, lastUpdated))

(* The stable debt of user u, at the user's own rate.                      *)
StableDebtOf(u, timestamp) ==
    calcExpectedStableDebtTokenBalance(u.principalStableDebt, u.stableBorrowRate,
                                       u.stableRateLastUpdated, timestamp)

calcExpectedTotalStableDebt(principal, averageRate, lastUpdate, timestamp) ==
    rayMul(calcCompoundedInterest(averageRate, timestamp, lastUpdate), principal)

(* The stable debt of reserve r, at the average rate of its borrowers.     *)
TotalStableDebtOf(r, timestamp) ==
    calcExpectedTotalStableDebt(r.principalStableDebt, r.averageStableBorrowRate,
                                r.totalStableDebtLastUpdated, timestamp)

calcExpectedTotalVariableDebt(r, index) == rayMul(r.scaledVariableDebt, index)

-----------------------------------------------------------------------------
(* Stable rates: weighted by the debts they are paid on.                   *)
calcExpectedAverageStableBorrowRate(averageRate, total, change, rate) ==
    IF total + change = 0 THEN 0
    ELSE Quot(averageRate * total + rate * change, total + change)

calcExpectedAverageStableBorrowRateRebalance(averageRate, total, change, rate) ==
    LET newTotal == total + wadToRay(change)
    IN  IF newTotal = 0 THEN 0
        ELSE rayDiv(rayMul(averageRate, total) + rayMul(rate, wadToRay(change)), newTotal)

calcExpectedUserStableRate(balance, rate, amount, newRate) ==
    Quot(balance * rate + amount * newRate, balance + amount)

-----------------------------------------------------------------------------
(* Usage ratios and rates.                                                 *)
calcExpectedUsageRatios(stableDebt, variableDebt, available, total) ==
    LET debt == stableDebt + variableDebt
    IN  [borrow |-> IF debt = 0 THEN 0 ELSE rayDiv(debt, available + debt),
         supply |-> IF debt = 0 THEN 0 ELSE rayDiv(debt, total + debt)]

calcExpectedOverallBorrowRate(stableDebt, variableDebt, variableRate, averageRate) ==
    LET debt == stableDebt + variableDebt
    IN  IF debt = 0 THEN 0
        ELSE rayDiv(rayMul(wadToRay(variableDebt), variableRate)
                      + rayMul(wadToRay(stableDebt), averageRate),
                    wadToRay(debt))

(* The part of a rate that depends on the usage of the reserve: the first  *)
(* slope up to the optimal usage, the second one beyond it.                *)
SlopedRate(slope1, slope2, usage, optimal) ==
    IF usage > optimal
      THEN slope1 + rayMul(slope2, rayDiv(usage - optimal, RAY - optimal))
      ELSE rayDiv(rayMul(slope1, usage), optimal)

(* What a share of stable debt above the optimal one adds to its rate.     *)
StableExcess(s, stableDebt, variableDebt) ==
    LET optimal == s.optimalStableToTotalDebtRatio
        ratio   == IF stableDebt > 0 THEN rayDiv(stableDebt, stableDebt + variableDebt)
                                     ELSE 0
    IN  IF ratio > optimal
          THEN rayMul(s.stableRateExcessOffset, rayDiv(ratio - optimal, RAY - optimal))
          ELSE 0

calcExpectedInterestRates(a, market, debtS, debtV, average, available, total) ==
    LET s        == reservesParams[a].strategy
        usage    == calcExpectedUsageRatios(debtS, debtV, available, total)
        variable == s.baseVariableBorrowRate
                      + SlopedRate(s.variableRateSlope1, s.variableRateSlope2,
                                   usage.borrow, s.optimalUsageRatio)
        stable   == market + SlopedRate(s.stableRateSlope1, s.stableRateSlope2,
                                            usage.borrow, s.optimalUsageRatio)
                      + StableExcess(s, debtS, debtV)
        overall  == calcExpectedOverallBorrowRate(debtS, debtV, variable, average)
    IN  [liquidity |-> percentMul(rayMul(overall, usage.supply),
                                  PERCENTAGE_FACTOR - reservesParams[a].reserveFactor),
         stable    |-> stable,
         variable  |-> variable]
=============================================================================
