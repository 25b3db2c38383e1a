---------------------------- MODULE ReserveLogic ----------------------------
(***************************************************************************)
(* ReserveLogic and DefaultReserveInterestRateStrategy: how the indexes of *)
(* a reserve accrue with time, how the treasury gets its share, and how    *)
(* the rates are recomputed.  Stable debt is disabled in this release, so  *)
(* the stable terms of the formulas are zero and left out; unbacked is     *)
(* zero too, because mintUnbacked reverts.                                 *)
(***************************************************************************)
EXTENDS PoolStorage

CONSTANTS
    Strategy,        \* per asset: optimalUsageRatio, base, slope1, slope2
    WAD_RAY_RATIO    \* the factor of wadToRay

ASSUME StrategyAssumption ==
    /\ Strategy \in [Assets -> [optimalUsageRatio: 1..(RAY - 1), base: Nat,
                                slope1: Nat, slope2: Nat]]
    /\ WAD_RAY_RATIO \in Nat \ {0}

-----------------------------------------------------------------------------
wadToRay(a) == a * WAD_RAY_RATIO

(* _getOverallBorrowRate with no stable debt.                              *)
OverallBorrowRate(debt, variableRate) ==
    IF debt = 0 THEN 0
    ELSE rayDiv(rayMul(wadToRay(debt), variableRate), wadToRay(debt))

(* calculateInterestRates: the rates for a total debt, the liquidity that  *)
(* will be available once the call has moved its funds, and the factor.    *)
InterestRates(a, totalDebt, availableLiquidity, reserveFactor) ==
    LET s == Strategy[a]
        usage == IF totalDebt = 0 THEN 0
                 ELSE rayDiv(totalDebt, availableLiquidity + totalDebt)
        excess == rayDiv(usage - s.optimalUsageRatio, RAY - s.optimalUsageRatio)
        variableRate ==
            IF usage > s.optimalUsageRatio
              THEN s.base + s.slope1 + rayMul(s.slope2, excess)
              ELSE s.base + rayDiv(rayMul(s.slope1, usage), s.optimalUsageRatio)
    IN  [liquidity |-> percentMul(rayMul(OverallBorrowRate(totalDebt, variableRate),
                                         usage),
                                  PERCENTAGE_FACTOR - reserveFactor),
         variable |-> variableRate]

-----------------------------------------------------------------------------
(* getNormalizedIncome and getNormalizedDebt of a reserve record: its      *)
(* indexes as of now.                                                      *)
IncomeOf(r) ==
    IF r.lastUpdateTimestamp = now THEN r.liquidityIndex
    ELSE rayMul(LinearInterest(r.currentLiquidityRate,
                               now - r.lastUpdateTimestamp),
                r.liquidityIndex)

DebtIndexOf(r) ==
    IF r.lastUpdateTimestamp = now THEN r.variableBorrowIndex
    ELSE rayMul(CompoundedInterest(r.currentVariableBorrowRate,
                                   now - r.lastUpdateTimestamp),
                r.variableBorrowIndex)

NormalizedIncome(a) == IncomeOf(reserve[a])
NormalizedDebt(a)   == DebtIndexOf(reserve[a])

(* _updateIndexes: the liquidity index moves only while a liquidity rate   *)
(* is set, the borrow index only while there is debt.                      *)
NextLiquidityIndex(r) ==
    IF r.currentLiquidityRate = 0 THEN r.liquidityIndex ELSE IncomeOf(r)

(* Mutant: an index that starts afresh when the last debt is gone.         *)
NextVariableBorrowIndexMutant(a, r) ==
    IF vSupply[a] = 0 THEN RAY ELSE DebtIndexOf(r)

NextVariableBorrowIndex(a, r) ==
    IF vSupply[a] = 0 THEN r.variableBorrowIndex ELSE DebtIndexOf(r)

(* Mutant: a share of the whole debt instead of its increase.              *)
TreasuryAccrualMutant(a, r) ==
    LET debtAccrued == rayMulFloor(vSupply[a], NextVariableBorrowIndex(a, r))
    IN  rayDivFloor(percentMul(debtAccrued, config[a].reserveFactor),
                    NextLiquidityIndex(r))

(* _accrueToTreasury: the scaled amount the reserve factor sets aside.     *)
TreasuryAccrual(a, r) ==
    LET debtAccrued == rayMulFloor(vSupply[a], NextVariableBorrowIndex(a, r)
                                               - r.variableBorrowIndex)
    IN  rayDivFloor(percentMul(debtAccrued, config[a].reserveFactor),
                    NextLiquidityIndex(r))

(* updateState: what the record r of reserve a is once the elapsed time is *)
(* settled.  When no time has passed every component is what it was.       *)
UpdatedState(a, r) ==
    [r EXCEPT !.liquidityIndex = NextLiquidityIndex(r),
              !.variableBorrowIndex = NextVariableBorrowIndex(a, r),
              !.accruedToTreasury = @ + TreasuryAccrual(a, r),
              !.lastUpdateTimestamp = now]

UpdatedReserve(a) == UpdatedState(a, reserve[a])

(* Mutant: rates for the cash there is before the funds move.              *)
WithRatesMutant(a, r, scaledDebt, liquidity) ==
    LET rates == InterestRates(a, VTokenBalance(scaledDebt, r.variableBorrowIndex),
                               cash[a], config[a].reserveFactor)
    IN  [r EXCEPT !.currentLiquidityRate = rates.liquidity,
                  !.currentVariableBorrowRate = rates.variable]

(* updateInterestRates on reserve record r: scaledDebt is the debt supply  *)
(* after the call, liquidity the cash of the aToken after the call.        *)
WithRates(a, r, scaledDebt, liquidity) ==
    LET rates == InterestRates(a, VTokenBalance(scaledDebt, r.variableBorrowIndex),
                               liquidity, config[a].reserveFactor)
    IN  [r EXCEPT !.currentLiquidityRate = rates.liquidity,
                  !.currentVariableBorrowRate = rates.variable]
=============================================================================
