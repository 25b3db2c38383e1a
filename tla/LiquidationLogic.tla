-------------------------- MODULE LiquidationLogic --------------------------
(***************************************************************************)
(* LiquidationLogic: one call pays part of a debt of an unhealthy user and *)
(* takes collateral plus a bonus, in the same or in another asset, as      *)
(* underlying or as aTokens.  No price oracle sentinel is configured.      *)
(***************************************************************************)
EXTENDS BorrowLogic

CONSTANTS
    CLOSE_FACTOR_HF_THRESHOLD,         \* 0.95, as a wad
    DEFAULT_LIQUIDATION_CLOSE_FACTOR   \* 50%, in basis points

ASSUME LiquidationAssumption ==
    /\ CLOSE_FACTOR_HF_THRESHOLD \in 0..WAD
    /\ DEFAULT_LIQUIDATION_CLOSE_FACTOR \in 0..PERCENTAGE_FACTOR

(* _calculateDebt, then the rule that lets a liquidator who offers to pay  *)
(* everything close a debt too small to be halved.                         *)
DebtToLiquidate(u, a, debtToCover, index) ==
    LET debt == VTokenBalance(vBalance[a][u], index)
        closeFactor == IF HealthFactor(u) > CLOSE_FACTOR_HF_THRESHOLD
                         THEN DEFAULT_LIQUIDATION_CLOSE_FACTOR
                         ELSE PERCENTAGE_FACTOR
        maxDebt == percentMul(debt, closeFactor)
        actual == IF debtToCover > maxDebt THEN maxDebt ELSE debtToCover
    IN  IF /\ actual < debt /\ debtToCover >= debt
           /\ VTokenBurnScaled(actual, index) = 0
          THEN debt ELSE actual

(* validateLiquidationCall                                                 *)
ValidLiquidationCall(liquidator, u, collateralAsset, debtAsset, debt) ==
    /\ liquidator # u
    /\ ActiveAndNotPaused(collateralAsset)
    /\ ActiveAndNotPaused(debtAsset)
    /\ collateralAsset \in usingAsCollateral[u]
    /\ debt # 0
    /\ HealthFactor(u) < WAD

(* _getConfigurationData: the bonus of the user's eMode category, when the *)
(* collateral belongs to it.                                               *)
LiquidationBonus(u, a) ==
    IF isInEModeCategory(userEMode[u], a)
      THEN eModeCategories[userEMode[u]].liquidationBonus
      ELSE config[a].liquidationBonus

(* _calculateAvailableCollateralToLiquidate: limited by the debt to cover  *)
(* or by the collateral there is; the protocol fee is cut from the bonus.  *)
AvailableCollateral(u, collateralAsset, debtAsset, debtToCover, balance) ==
    LET collateralPrice == PriceFor(userEMode[u], collateralAsset)
        debtPrice == PriceFor(userEMode[u], debtAsset)
        bonus == LiquidationBonus(u, collateralAsset)
        fee(collateral) ==
            IF config[collateralAsset].liquidationProtocolFee = 0 THEN 0
            ELSE percentMulCeil(collateral - percentDivFloor(collateral, bonus),
                           config[collateralAsset].liquidationProtocolFee)
        maxCollateral ==
            percentMulFloor((debtPrice * debtToCover * AssetUnit[collateralAsset])
                              \div (collateralPrice * AssetUnit[debtAsset]), bonus)
        debtNeeded ==
            percentDivCeil((collateralPrice * balance * AssetUnit[debtAsset])
                             \div (debtPrice * AssetUnit[collateralAsset]), bonus)
        taken == IF maxCollateral > balance THEN balance ELSE maxCollateral
    IN  [collateral |-> taken - fee(taken),
         debt |-> IF maxCollateral > balance THEN debtNeeded ELSE debtToCover,
         fee |-> fee(taken)]

-----------------------------------------------------------------------------
(* Mutant: the fee is not limited by what is left.                         *)
FeeScaledMutant(fee, left, index) == ATokenTransferScaled(fee, index)

(* The scaled fee the treasury gets, and never more than what is left.     *)
FeeScaled(fee, left, index) ==
    LET scaled == ATokenTransferScaled(fee, index)
    IN  IF scaled > left
          THEN ATokenTransferScaled(ATokenBalance(left, index), index)
          ELSE scaled

(* Mutant: the liquidity the debt side brings to the same reserve is not   *)
(* counted.                                                                *)
CollateralReserveAfterMutant(rs, a, taken, repaidHere, debtSupply) ==
    [rs EXCEPT ![a] = WithRates(a, UpdatedState(a, @), debtSupply, cash[a] - taken)]

(* _burnCollateralATokens, applied to the reserve function rs that the     *)
(* debt side left: when both sides are the same reserve the repaid amount  *)
(* is counted as liquidity the aToken has not received yet.                *)
CollateralReserveAfter(rs, a, taken, repaidHere, debtSupply) ==
    [rs EXCEPT ![a] = WithRates(a, UpdatedState(a, @), debtSupply,
                                cash[a] + repaidHere - taken)]

(* executeLiquidationCall                                                  *)
LiquidationCall(liquidator, u, collateralAsset, debtAsset, debtToCover, receiveAToken) ==
    LET rd == UpdatedReserve(debtAsset)
        debt == VTokenBalance(vBalance[debtAsset][u], rd.variableBorrowIndex)
        balance == ATokenBalanceOf(u, collateralAsset)
        out == AvailableCollateral(u, collateralAsset, debtAsset,
                  DebtToLiquidate(u, debtAsset, debtToCover, rd.variableBorrowIndex),
                  balance)
        \* the debt side
        burnt == DebtBurnScaled(u, debtAsset, out.debt, rd.variableBorrowIndex)
        debtAfter == VTokenBalance(vBalance[debtAsset][u] - burnt, rd.variableBorrowIndex)
        debtSide == WithIsolatedDebtRepaid(
                        [reserve EXCEPT ![debtAsset] =
                            WithRates(debtAsset, rd, vSupply[debtAsset] - burnt,
                                      cash[debtAsset] + out.debt)],
                        u, debtAsset, debt - debtAfter)
        vSupplyAfter == [vSupply EXCEPT ![debtAsset] = @ - burnt]
        repaidHere == IF collateralAsset = debtAsset THEN out.debt ELSE 0
        \* the collateral side
        index == NormalizedIncome(collateralAsset)
        seized == ATokenTransferScaled(out.collateral, index)
        left == aBalance[collateralAsset][u] - seized
        feeScaled == IF out.fee = 0 THEN 0 ELSE FeeScaled(out.fee, left, index)
        afterUser == Debit(aBalance, collateralAsset, u, seized + feeScaled)
        released == IF receiveAToken THEN 0 ELSE out.collateral
        paid == Credit(wallet, collateralAsset, liquidator, released)
        \* the collateral bits
        drained == \/ out.collateral + out.fee = balance
                   \/ left = feeScaled
        afterDrain == IF drained THEN WithoutBit(usingAsCollateral, u, collateralAsset)
                      ELSE usingAsCollateral
    IN  /\ ValidLiquidationCall(liquidator, u, collateralAsset, debtAsset, debt)
        /\ config[collateralAsset].liquidationProtocolFee # 0 =>
              LiquidationBonus(u, collateralAsset) # 0    \* percentDivFloor reverts
        /\ Burnable(burnt, vBalance[debtAsset][u], vSupply[debtAsset])
        /\ seized <= aBalance[collateralAsset][u]
        /\ ~receiveAToken =>
              /\ Burnable(seized, aBalance[collateralAsset][u], aSupply[collateralAsset])
              /\ out.collateral <= cash[collateralAsset]
        /\ paid[debtAsset][liquidator] >= out.debt
        /\ vBalance' = Debit(vBalance, debtAsset, u, burnt)
        /\ vSupply' = vSupplyAfter
        /\ borrowing' = IF debtAfter = 0 THEN WithoutBit(borrowing, u, debtAsset)
                        ELSE borrowing
        /\ reserve' = IF receiveAToken THEN debtSide
                      ELSE CollateralReserveAfter(debtSide, collateralAsset,
                               out.collateral, repaidHere, vSupplyAfter[collateralAsset])
        /\ aBalance' = Credit(IF receiveAToken
                                THEN Credit(afterUser, collateralAsset, liquidator, seized)
                                ELSE afterUser,
                              collateralAsset, Treasury, feeScaled)
        /\ aSupply' = [aSupply EXCEPT ![collateralAsset] =
                          IF receiveAToken THEN @ ELSE @ - seized]
        /\ usingAsCollateral' =
              IF /\ receiveAToken
                 /\ ATokenBalanceOf(liquidator, collateralAsset) = 0
                 /\ AutomaticUseAsCollateral(liquidator, liquidator, collateralAsset)
                THEN WithBit(afterDrain, liquidator, collateralAsset)
                ELSE afterDrain
        /\ cash' = [[cash EXCEPT ![collateralAsset] = @ - released]
                             EXCEPT ![debtAsset] = @ + out.debt]
        /\ wallet' = Debit(paid, debtAsset, liquidator, out.debt)
        /\ UNCHANGED <<borrowAllowance, userEMode, adminVars, worldVars>>
=============================================================================
