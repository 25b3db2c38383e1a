---------------------------- MODULE BorrowLogic ----------------------------
(***************************************************************************)
(* BorrowLogic with the VariableDebtToken calls it makes: borrow (for      *)
(* oneself or by credit delegation), repay with the underlying, repay with *)
(* aTokens.  Stable-rate calls revert in this release and do not appear.   *)
(***************************************************************************)
EXTENDS GenericLogic

(* What a borrow of amount adds to the debt of u, after rounding.          *)
RealizedDebtIncrease(a, r, u, scaled) ==
    VTokenBalance(vBalance[a][u] + scaled, r.variableBorrowIndex)
      - VTokenBalance(vBalance[a][u], r.variableBorrowIndex)

(* The isolation mode conditions of validateBorrow.                        *)
ValidIsolatedBorrow(u, a, increase) ==
    \A c \in Assets : InIsolation(u, c) =>
        /\ config[a].borrowableInIsolation
        /\ reserve[c].isolationModeTotalDebt + (increase \div IsolationUnit[a])
             <= config[c].debtCeiling

(* Mutant: a siloed asset may be borrowed on top of another debt.          *)
ValidSiloedBorrowMutant(u, a) ==
    \A b \in Assets : SiloedIn(u, b) => a = b

(* The siloed borrowing conditions of validateBorrow.                      *)
ValidSiloedBorrow(u, a) ==
    isBorrowingAny(u) =>
        IF \E b \in Assets : SiloedIn(u, b)
          THEN SiloedIn(u, a)
          ELSE ~config[a].siloedBorrowing

(* Mutant: only the debt there was before is held against the collateral.  *)
ValidCollateralForBorrowMutant(u, a, r, scaled) ==
    /\ CollateralInBase(u) # 0
    /\ AverageLtv(u) # 0
    /\ HealthFactor(u) > WAD
    /\ percentDivCeil(DebtInBase(u), AverageLtv(u)) <= CollateralInBase(u)

(* The collateral conditions of validateBorrow: a strict health factor,    *)
(* and the whole debt, as it will be, within the loan to value.            *)
ValidCollateralForBorrow(u, a, r, scaled) ==
    LET assetPrice == PriceFor(userEMode[u], a)
        InBase(balance) == DivCeil(assetPrice * VTokenBalance(balance,
                                            r.variableBorrowIndex), AssetUnit[a])
        added == InBase(vBalance[a][u] + scaled) - InBase(vBalance[a][u])
    IN  /\ CollateralInBase(u) # 0
        /\ AverageLtv(u) # 0
        /\ HealthFactor(u) > WAD
        /\ percentDivCeil(DebtInBase(u) + added, AverageLtv(u))
             <= CollateralInBase(u)

(* validateBorrow, on the settled reserve r.  The account data of u is the *)
(* same before and after updateState: balances are always valued at the    *)
(* normalized indexes.                                                     *)
ValidBorrow(u, a, r, amount, scaled) ==
    /\ amount # 0
    /\ ActiveAndNotPaused(a) /\ ~config[a].frozen /\ config[a].borrowingEnabled
    /\ VTokenBalance(scaled, r.variableBorrowIndex)
         <= ATokenBalance(aSupply[a], r.liquidityIndex)
    /\ \/ config[a].borrowCap = 0
       \/ VTokenBalance(vSupply[a] + scaled, r.variableBorrowIndex)
            <= config[a].borrowCap * AssetUnit[a]
    /\ ValidIsolatedBorrow(u, a, RealizedDebtIncrease(a, r, u, scaled))
    /\ userEMode[u] # 0 => config[a].eModeCategory = userEMode[u]
    /\ ValidCollateralForBorrow(u, a, r, scaled)
    /\ ValidSiloedBorrow(u, a)

(* Mutant: what is more than the allowance is not spent at all.            *)
AllowanceSpentMutant(allowance, increase) ==
    IF allowance >= increase THEN increase ELSE 0

(* _decreaseBorrowAllowanceCapped: a delegatee spends what the debt really *)
(* grew by, but never more than the allowance left.                        *)
AllowanceSpent(allowance, increase) ==
    IF allowance >= increase THEN increase ELSE allowance

(* _bumpIsolationModeTotalDebt, applied to the reserve function rs.        *)
WithIsolatedDebtBorrowed(rs, u, a, increase) ==
    [c \in Assets |->
        IF ~InIsolation(u, c) THEN rs[c]
        ELSE [rs[c] EXCEPT !.isolationModeTotalDebt =
                               @ + (increase \div IsolationUnit[a])]]

(* executeBorrow: the debt is minted to onBehalfOf.  What is released goes  *)
(* to the caller: all of the amount, or nothing when the funds of a flash  *)
(* loan already left.  (The code first repairs a borrowing bit missing for *)
(* a debt there is; BorrowingBitsMatchDebts: there is none.)               *)
ExecuteBorrow(caller, a, amount, onBehalfOf, released) ==
    LET r == UpdatedReserve(a)
        scaled == VTokenMintScaled(amount, r.variableBorrowIndex)
        increase == RealizedDebtIncrease(a, r, onBehalfOf, scaled)
        allowance == borrowAllowance[a][onBehalfOf][caller]
        settled == [reserve EXCEPT
                       ![a] = WithRates(a, r, vSupply[a] + scaled, cash[a] - released)]
    IN  /\ ValidBorrow(onBehalfOf, a, r, amount, scaled)
        /\ released <= cash[a]
        /\ caller # onBehalfOf => allowance >= amount
        /\ borrowAllowance' =
              IF caller = onBehalfOf THEN borrowAllowance
              ELSE [borrowAllowance EXCEPT ![a][onBehalfOf][caller] =
                       @ - AllowanceSpent(allowance, increase)]
        /\ vBalance' = Credit(vBalance, a, onBehalfOf, scaled)
        /\ vSupply' = [vSupply EXCEPT ![a] = @ + scaled]
        /\ borrowing' = WithBit(borrowing, onBehalfOf, a)
        /\ reserve' = WithIsolatedDebtBorrowed(settled, onBehalfOf, a, increase)
        /\ cash' = [cash EXCEPT ![a] = @ - released]
        /\ wallet' = Credit(wallet, a, caller, released)
        /\ UNCHANGED <<aBalance, aSupply, usingAsCollateral, userEMode,
                       adminVars, worldVars>>

(* borrow releases the underlying.                                         *)
Borrow(caller, a, amount, onBehalfOf) ==
    ExecuteBorrow(caller, a, amount, onBehalfOf, amount)

(* approveDelegation *)
ApproveDelegation(delegator, a, delegatee, amount) ==
    /\ borrowAllowance' =
          [borrowAllowance EXCEPT ![a][delegator][delegatee] = amount]
    /\ UNCHANGED <<reserve, ledgerVars, bitVars, userEMode, adminVars, worldVars>>

-----------------------------------------------------------------------------
(* VariableDebtToken.burn: an amount that covers the debt burns all of it. *)
DebtBurnScaled(u, a, amount, index) ==
    IF amount >= VTokenBalance(vBalance[a][u], index)
      THEN vBalance[a][u] ELSE VTokenBurnScaled(amount, index)

(* The debt half of executeRepay: burn scaled units of u's debt in the     *)
(* settled reserve r, recompute the rates for the liquidity added, clear   *)
(* the borrowing bit of a debt that is gone, credit the isolated debt.     *)
BurnDebt(u, a, r, scaled, liquidityAdded) ==
    LET before == VTokenBalance(vBalance[a][u], r.variableBorrowIndex)
        after  == VTokenBalance(vBalance[a][u] - scaled, r.variableBorrowIndex)
        settled == [reserve EXCEPT
                       ![a] = WithRates(a, r, vSupply[a] - scaled,
                                        cash[a] + liquidityAdded)]
    IN  /\ Burnable(scaled, vBalance[a][u], vSupply[a])
        /\ vBalance' = Debit(vBalance, a, u, scaled)
        /\ vSupply' = [vSupply EXCEPT ![a] = @ - scaled]
        /\ borrowing' = IF after = 0 THEN WithoutBit(borrowing, u, a) ELSE borrowing
        /\ reserve' = WithIsolatedDebtRepaid(settled, u, a, before - after)

(* executeRepay with the underlying.                                       *)
Repay(caller, a, amount, onBehalfOf) ==
    LET r == UpdatedReserve(a)
        debt == VTokenBalance(vBalance[a][onBehalfOf], r.variableBorrowIndex)
        payback == IF amount < debt THEN amount ELSE debt
    IN  /\ amount # 0
        /\ amount = MAX_UINT => caller = onBehalfOf
        /\ ActiveAndNotPaused(a)
        /\ debt # 0
        /\ wallet[a][caller] >= payback
        /\ BurnDebt(onBehalfOf, a, r,
                    DebtBurnScaled(onBehalfOf, a, payback, r.variableBorrowIndex),
                    payback)
        /\ wallet' = Debit(wallet, a, caller, payback)
        /\ cash' = [cash EXCEPT ![a] = @ + payback]
        /\ UNCHANGED <<aBalance, aSupply, borrowAllowance, usingAsCollateral,
                       userEMode, adminVars, worldVars>>

(* executeRepay with useATokens: the caller's own aTokens are burnt and no *)
(* underlying moves.  repayWithATokens always repays the caller's debt.    *)
RepayWithATokens(u, a, amount) ==
    LET r == UpdatedReserve(a)
        debt == VTokenBalance(vBalance[a][u], r.variableBorrowIndex)
        held == ATokenBalance(aBalance[a][u], r.liquidityIndex)
        offered == IF amount = MAX_UINT \/ amount > held THEN held ELSE amount
        payback == IF offered < debt THEN offered ELSE debt
        aScaled == ATokenBurnScaled(payback, r.liquidityIndex)
        wasUsingAsCollateral == a \in usingAsCollateral[u]
    IN  /\ amount # 0
        /\ ActiveAndNotPaused(a)
        /\ debt # 0
        /\ payback # 0
        /\ Burnable(aScaled, aBalance[a][u], aSupply[a])
        /\ BurnDebt(u, a, r, DebtBurnScaled(u, a, payback, r.variableBorrowIndex), 0)
        /\ aBalance' = Debit(aBalance, a, u, aScaled)
        /\ aSupply' = [aSupply EXCEPT ![a] = @ - aScaled]
        /\ usingAsCollateral' =
              IF wasUsingAsCollateral /\ aScaled = aBalance[a][u]
                THEN WithoutBit(usingAsCollateral, u, a) ELSE usingAsCollateral
        /\ UNCHANGED <<cash, wallet, borrowAllowance, userEMode, adminVars, worldVars>>
        /\ wasUsingAsCollateral /\ isBorrowingAny(u)' => Healthy(u)'
=============================================================================
