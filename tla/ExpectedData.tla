---------------------------- MODULE ExpectedData ----------------------------
(***************************************************************************)
(* What the scenario tests expect of a reserve and of a user after each    *)
(* call (the calcExpected...After... functions of calculations.ts).        *)
(* In every operator b is the reserve before the call, u the user before   *)
(* it, e the reserve expected after it, tx the timestamp of the call and   *)
(* current the timestamp at which the data after the call is read.         *)
(***************************************************************************)
EXTENDS Calculations

(* Mutant: the treasury's share is a share of the debt, not of its growth. *)
calcExpectedAccrueToTreasuryMutant(b, next) ==
    LET accrued == rayMul(next.scaledVariableDebt, next.variableBorrowIndex)
                     + next.totalStableDebt
        toMint  == percentMul(accrued, b.reserveFactor)
    IN  b.accruedToTreasuryScaled + rayDiv(toMint, next.liquidityIndex)

(* The indexes, the debts and the treasury's share at tx.                  *)
calcExpectedAccrueToTreasury(b, next) ==
    LET debtBefore   == rayMul(b.scaledVariableDebt, b.variableBorrowIndex)
        stableBefore == rayMul(b.principalStableDebt,
                               calcCompoundedInterest(b.averageStableBorrowRate,
                                                      b.lastUpdateTimestamp,
                                                      b.totalStableDebtLastUpdated))
        accrued      == rayMul(next.scaledVariableDebt, next.variableBorrowIndex)
                          + next.totalStableDebt - debtBefore - stableBefore
        toMint       == percentMul(accrued, b.reserveFactor)
    IN  IF b.reserveFactor = 0 \/ toMint <= 0 THEN b.accruedToTreasuryScaled
        ELSE b.accruedToTreasuryScaled + rayDiv(toMint, next.liquidityIndex)

updateState(b, tx) ==
    LET index == calcExpectedVariableBorrowIndex(b, tx)
        next  == [b EXCEPT !.liquidityIndex = calcExpectedLiquidityIndex(b, tx),
                           !.variableBorrowIndex = index,
                           !.totalStableDebt = TotalStableDebtOf(b, tx),
                           !.totalVariableDebt = calcExpectedTotalVariableDebt(b, index)]
    IN  [next EXCEPT !.accruedToTreasuryScaled = calcExpectedAccrueToTreasury(b, next)]

updateTotalLiquidityAndUsageRatio(e) ==
    LET total == e.availableLiquidity + e.unbacked
        usage == calcExpectedUsageRatios(e.totalStableDebt, e.totalVariableDebt,
                                         e.availableLiquidity, total)
    IN  [e EXCEPT !.totalLiquidity = total, !.borrowUsageRatio = usage.borrow,
                  !.supplyUsageRatio = usage.supply]

updateLiquidityAndUsageRatios(b, e, added, taken) ==
    updateTotalLiquidityAndUsageRatio(
        [e EXCEPT !.availableLiquidity = b.availableLiquidity + added - taken])

(* The rates of reserve e of asset a; the market rate is the one read      *)
(* before the call.                                                        *)
WithExpectedRates(a, b, e) ==
    LET rates == calcExpectedInterestRates(a, b.marketStableRate, e.totalStableDebt,
                    e.totalVariableDebt, e.averageStableBorrowRate,
                    e.availableLiquidity, e.totalLiquidity)
    IN  [e EXCEPT !.liquidityRate = rates.liquidity,
                  !.stableBorrowRate = rates.stable,
                  !.variableBorrowRate = rates.variable]

(* The end of every reserve function but borrow's.                         *)
Settled(a, b, e) ==
    updateTotalLiquidityAndUsageRatio(WithExpectedRates(a, b, e))

(* The start of every reserve function.                                    *)
Touched(b, tx, added, taken) ==
    updateLiquidityAndUsageRatios(b, updateState(b, tx), added, taken)

-----------------------------------------------------------------------------
(* Supply side.                                                            *)
calcExpectedReserveDataAfterDeposit(a, amount, b, tx) ==
    Settled(a, b, Touched(b, tx, amount, 0))

(* The stable principal is assigned twice, last with the variable debt.    *)
calcExpectedUserDataAfterDeposit(amount, b, e, u, tx) ==
    LET variableDebt == calcExpectedVariableDebtTokenBalance(b, u, tx)
    IN  [u EXCEPT
            !.currentStableDebt    = StableDebtOf(u, tx),
            !.currentVariableDebt  = variableDebt,
            !.principalStableDebt  = variableDebt,
            !.liquidityRate        = e.liquidityRate,
            !.scaledATokenBalance  = calcExpectedScaledATokenBalance(u, e.liquidityIndex,
                                                                     amount, 0),
            !.currentATokenBalance = calcExpectedATokenBalance(b, u, tx) + amount,
            !.usageAsCollateralEnabled = @ \/ u.currentATokenBalance = 0,
            !.walletBalance        = @ - amount]

(* Mutant: "everything" is the balance read before the call.               *)
WithdrawnAmountMutant(amount, b, u, tx) ==
    IF amount = MAX_UINT_AMOUNT THEN u.currentATokenBalance ELSE amount

(* "Everything" is the balance at tx.                                      *)
WithdrawnAmount(amount, b, u, tx) ==
    IF amount = MAX_UINT_AMOUNT THEN calcExpectedATokenBalance(b, u, tx) ELSE amount

calcExpectedReserveDataAfterWithdraw(a, amount, b, u, tx) ==
    Settled(a, b, Touched(b, tx, 0, WithdrawnAmount(amount, b, u, tx)))

calcExpectedUserDataAfterWithdraw(amount, b, e, u, tx) ==
    LET withdrawn == WithdrawnAmount(amount, b, u, tx)
        remaining == calcExpectedATokenBalance(b, u, tx) - withdrawn
    IN  [u EXCEPT
            !.scaledATokenBalance  = calcExpectedScaledATokenBalance(u, e.liquidityIndex,
                                                                     0, withdrawn),
            !.currentATokenBalance = remaining,
            !.currentStableDebt    = StableDebtOf(u, tx),
            !.currentVariableDebt  = calcExpectedVariableDebtTokenBalance(b, u, tx),
            !.liquidityRate        = e.liquidityRate,
            !.usageAsCollateralEnabled =
                u.currentATokenBalance = 0 \/ (remaining # 0 /\ @),
            !.walletBalance        = @ + withdrawn]

calcExpectedUserDataAfterSetUseAsCollateral(useAsCollateral, u) ==
    [u EXCEPT !.usageAsCollateralEnabled = useAsCollateral]

-----------------------------------------------------------------------------
(* The bridge.                                                             *)
UnchangedStableRate(b) ==
    calcExpectedAverageStableBorrowRate(b.averageStableBorrowRate, b.totalStableDebt,
                                        0, b.stableBorrowRate)

calcExpectedReserveDataAfterMintUnbacked(a, amount, b, tx) ==
    LET e == [updateState(b, tx) EXCEPT !.unbacked = @ + amount]
    IN  Settled(a, b, [updateLiquidityAndUsageRatios(b, e, 0, 0)
                         EXCEPT !.averageStableBorrowRate = UnchangedStableRate(b)])

(* The liquidity providers' part of the fee raises the index only once the *)
(* supply at the old index has been taken.                                 *)
calcExpectedReserveDataAfterBackUnbacked(a, scaledSupply, amount, fee, protocolFee, b, tx) ==
    LET s          == updateState(b, tx)
        backing    == IF amount < b.unbacked THEN amount ELSE b.unbacked
        toProtocol == percentMul(fee, protocolFee)
        supply     == rayMul(scaledSupply, s.liquidityIndex)
                        + rayMul(s.accruedToTreasuryScaled, s.liquidityIndex)
        perSupply  == rayDiv(wadToRay(fee - toProtocol), wadToRay(supply))
        index      == rayMul(perSupply + RAY, s.liquidityIndex)
        e          == [s EXCEPT !.liquidityIndex = index,
                                !.accruedToTreasuryScaled = @ + rayDiv(toProtocol, index),
                                !.unbacked = b.unbacked - backing]
    IN  Settled(a, b, [updateLiquidityAndUsageRatios(b, e, backing + fee, 0)
                         EXCEPT !.averageStableBorrowRate = UnchangedStableRate(b)])

-----------------------------------------------------------------------------
(* Borrow: the rates are set for the debts at tx, the debts are those at   *)
(* current, when time may have been advanced.                              *)
StableBorrowed(b, e, amount, tx) ==
    LET untilTx == TotalStableDebtOf(b, tx)
    IN  [e EXCEPT !.averageStableBorrowRate =
                      calcExpectedAverageStableBorrowRate(@, untilTx, amount,
                                                          b.stableBorrowRate),
                  !.principalStableDebt = untilTx + amount,
                  !.totalStableDebt = untilTx + amount]

VariableBorrowed(b, e, amount, tx) ==
    LET scaled == b.scaledVariableDebt + rayDiv(amount, e.variableBorrowIndex)
    IN  [e EXCEPT !.scaledVariableDebt = scaled,
                  !.totalVariableDebt = rayMul(scaled, e.variableBorrowIndex),
                  !.totalStableDebt =
                      calcExpectedStableDebtTokenBalance(b.principalStableDebt,
                          b.averageStableBorrowRate, b.totalStableDebtLastUpdated, tx)]

calcExpectedReserveDataAfterBorrow(a, amount, rateMode, b, tx, current) ==
    LET touched  == Touched(b, tx, 0, amount)
        borrowed == IF rateMode = Stable THEN StableBorrowed(b, touched, amount, tx)
                                         ELSE VariableBorrowed(b, touched, amount, tx)
        e        == WithExpectedRates(a, b, borrowed)
        since    == IF rateMode = Stable THEN tx ELSE b.totalStableDebtLastUpdated
    IN  updateTotalLiquidityAndUsageRatio(
            [e EXCEPT !.lastUpdateTimestamp = tx,
                      !.totalStableDebt =
                          calcExpectedTotalStableDebt(e.principalStableDebt,
                              e.averageStableBorrowRate, since, current),
                      !.totalVariableDebt =
                          rayMul(e.scaledVariableDebt,
                                 calcExpectedReserveNormalizedDebt(e.variableBorrowRate,
                                     e.variableBorrowIndex, tx, current))])

(* The user's new debts; the scaled variable debt starts from the          *)
(* reserve's, not from the user's.                                         *)
StableBorrower(amount, b, u, tx, current) ==
    LET untilTx == StableDebtOf(u, tx)
        rate    == calcExpectedUserStableRate(untilTx, u.stableBorrowRate, amount,
                                              b.stableBorrowRate)
    IN  [u EXCEPT !.principalStableDebt = untilTx + amount,
                  !.stableRateLastUpdated = tx,
                  !.stableBorrowRate = rate,
                  !.currentStableDebt =
                      calcExpectedStableDebtTokenBalance(untilTx + amount, rate, tx,
                                                         current)]

VariableBorrower(amount, b, e, u, current) ==
    [u EXCEPT !.scaledVariableDebt =
                  b.scaledVariableDebt + rayDiv(amount, e.variableBorrowIndex),
              !.currentStableDebt = StableDebtOf(u, current)]

calcExpectedUserDataAfterBorrow(amount, rateMode, b, e, u, tx, current) ==
    LET borrower == IF rateMode = Stable THEN StableBorrower(amount, b, u, tx, current)
                                         ELSE VariableBorrower(amount, b, e, u, current)
    IN  [borrower EXCEPT
            !.currentVariableDebt  = calcExpectedVariableDebtTokenBalance(e, borrower, current),
            !.liquidityRate        = e.liquidityRate,
            !.currentATokenBalance = calcExpectedATokenBalance(e, u, current),
            !.walletBalance        = @ + amount]

-----------------------------------------------------------------------------
(* Repay: "everything" is the debt of the mode repaid; a larger amount is  *)
(* not capped.                                                             *)
RepaidAmount(amount, rateMode, b, u, timestamp) ==
    IF amount # MAX_UINT_AMOUNT THEN amount
    ELSE IF rateMode = Stable THEN StableDebtOf(u, timestamp)
    ELSE calcExpectedVariableDebtTokenBalance(b, u, timestamp)

(* Accumulated rounding may take the stable total or its rate below zero:  *)
(* both are then erased.                                                   *)
StableRepaid(b, e, u, repaid, tx) ==
    LET debt == TotalStableDebtOf(b, tx)
        left == debt - repaid
        rate == calcExpectedAverageStableBorrowRate(b.averageStableBorrowRate, debt,
                                                    -repaid, u.stableBorrowRate)
        erased == left < 0 \/ rate < 0
    IN  [e EXCEPT !.principalStableDebt = IF erased THEN 0 ELSE left,
                  !.totalStableDebt = IF erased THEN 0 ELSE left,
                  !.averageStableBorrowRate = IF erased THEN 0 ELSE rate]

VariableRepaid(b, e, repaid) ==
    LET scaled == b.scaledVariableDebt - rayDiv(repaid, e.variableBorrowIndex)
    IN  [e EXCEPT !.scaledVariableDebt = scaled,
                  !.totalVariableDebt = rayMul(scaled, e.variableBorrowIndex)]

calcExpectedReserveDataAfterRepay(a, amount, rateMode, b, u, tx) ==
    LET repaid  == RepaidAmount(amount, rateMode, b, u, tx)
        touched == Touched(b, tx, repaid, 0)
        e       == IF rateMode = Stable THEN StableRepaid(b, touched, u, repaid, tx)
                                        ELSE VariableRepaid(b, touched, repaid)
    IN  Settled(a, b, [updateTotalLiquidityAndUsageRatio(e)
                         EXCEPT !.lastUpdateTimestamp = tx])

StableRepayer(u, variableDebt, left, tx) ==
    [u EXCEPT !.currentVariableDebt = variableDebt,
              !.principalStableDebt = left,
              !.currentStableDebt = left,
              !.stableBorrowRate = IF left = 0 THEN 0 ELSE @,
              !.stableRateLastUpdated = IF left = 0 THEN 0 ELSE tx]

VariableRepayer(e, u, stableDebt, repaid) ==
    LET scaled == u.scaledVariableDebt - rayDiv(repaid, e.variableBorrowIndex)
    IN  [u EXCEPT !.currentStableDebt = u.principalStableDebt,
                  !.principalStableDebt = stableDebt,
                  !.scaledVariableDebt = scaled,
                  !.currentVariableDebt = rayMul(scaled, e.variableBorrowIndex)]

calcExpectedUserDataAfterRepay(amount, rateMode, b, e, u, user, onBehalfOf, tx, current) ==
    LET repaid     == RepaidAmount(amount, rateMode, b, u, current)
        stableDebt == StableDebtOf(u, current)
        repayer    == IF rateMode = Stable
                        THEN StableRepayer(u, calcExpectedVariableDebtTokenBalance(b, u, current),
                                           stableDebt - repaid, tx)
                        ELSE VariableRepayer(e, u, stableDebt, repaid)
    IN  [repayer EXCEPT
            !.liquidityRate        = e.liquidityRate,
            !.currentATokenBalance = calcExpectedATokenBalance(b, u, tx),
            !.walletBalance        = IF user = onBehalfOf THEN @ - repaid ELSE @]

-----------------------------------------------------------------------------
(* Swapping the rate mode (rateMode is the mode left behind).              *)
StableSwapped(b, e, u, debt) ==
    LET scaled    == b.scaledVariableDebt + rayDiv(debt, e.variableBorrowIndex)
        principal == e.totalStableDebt - debt
    IN  [e EXCEPT !.scaledVariableDebt = scaled,
                  !.totalVariableDebt = rayMul(scaled, e.variableBorrowIndex),
                  !.principalStableDebt = principal,
                  !.totalStableDebt = principal,
                  !.averageStableBorrowRate =
                      calcExpectedAverageStableBorrowRate(b.averageStableBorrowRate,
                          principal + debt, -debt, u.stableBorrowRate)]

VariableSwapped(b, e, debt) ==
    LET scaled    == b.scaledVariableDebt - rayDiv(debt, e.variableBorrowIndex)
        principal == e.totalStableDebt + debt
    IN  [e EXCEPT !.scaledVariableDebt = scaled,
                  !.totalVariableDebt = rayMul(scaled, e.variableBorrowIndex),
                  !.principalStableDebt = principal,
                  !.totalStableDebt = principal,
                  !.averageStableBorrowRate =
                      calcExpectedAverageStableBorrowRate(b.averageStableBorrowRate,
                          b.totalStableDebt, debt, b.stableBorrowRate)]

calcExpectedReserveDataAfterSwapRateMode(a, b, u, rateMode, tx) ==
    LET touched == Touched(b, tx, 0, 0)
        e       == IF rateMode = Stable
                     THEN StableSwapped(b, touched, u, StableDebtOf(u, tx))
                     ELSE VariableSwapped(b, touched,
                              calcExpectedVariableDebtTokenBalance(b, u, tx))
    IN  Settled(a, b, updateTotalLiquidityAndUsageRatio(e))

StableSwapper(e, u, debt) ==
    LET scaled == u.scaledVariableDebt + rayDiv(debt, e.variableBorrowIndex)
    IN  [u EXCEPT !.currentStableDebt = 0, !.principalStableDebt = 0,
                  !.stableBorrowRate = 0, !.stableRateLastUpdated = 0,
                  !.scaledVariableDebt = scaled,
                  !.currentVariableDebt = rayMul(scaled, e.variableBorrowIndex)]

VariableSwapper(b, u, debt, tx) ==
    [u EXCEPT !.principalStableDebt = u.currentStableDebt + debt,
              !.currentStableDebt = u.currentStableDebt + debt,
              !.stableBorrowRate =
                  calcExpectedUserStableRate(StableDebtOf(u, tx), @, debt,
                                             b.stableBorrowRate),
              !.stableRateLastUpdated = tx,
              !.currentVariableDebt = 0, !.scaledVariableDebt = 0]

calcExpectedUserDataAfterSwapRateMode(b, e, u, rateMode, tx) ==
    LET swapper == IF rateMode = Stable
                     THEN StableSwapper(e, u, StableDebtOf(u, tx))
                     ELSE VariableSwapper(b, u,
                              calcExpectedVariableDebtTokenBalance(b, u, tx), tx)
    IN  [swapper EXCEPT !.currentATokenBalance = calcExpectedATokenBalance(b, u, tx),
                        !.liquidityRate = e.liquidityRate]

-----------------------------------------------------------------------------
(* Rebalancing: the user's stable debt leaves the average at its old rate  *)
(* and joins it at the current one.                                        *)
calcExpectedReserveDataAfterStableRateRebalance(a, b, u, tx) ==
    LET e       == Touched(b, tx, 0, 0)
        debt    == StableDebtOf(u, tx)
        total   == TotalStableDebtOf(b, tx)
        without == calcExpectedAverageStableBorrowRateRebalance(b.averageStableBorrowRate,
                       total, -debt, u.stableBorrowRate)
        rate    == calcExpectedAverageStableBorrowRateRebalance(without, total - debt,
                       debt, b.stableBorrowRate)
    IN  Settled(a, b, updateTotalLiquidityAndUsageRatio(
                        [e EXCEPT !.principalStableDebt = total,
                                  !.totalStableDebt = total,
                                  !.averageStableBorrowRate = rate]))

calcExpectedUserDataAfterStableRateRebalance(b, e, u, tx) ==
    [u EXCEPT !.principalStableDebt = StableDebtOf(u, tx),
              !.currentStableDebt = StableDebtOf(u, tx),
              !.currentVariableDebt = calcExpectedVariableDebtTokenBalance(b, u, tx),
              !.stableRateLastUpdated = tx,
              !.stableBorrowRate = e.averageStableBorrowRate,
              !.liquidityRate = e.liquidityRate,
              !.currentATokenBalance = calcExpectedATokenBalance(b, u, tx)]
=============================================================================
