---------------------------- MODULE SupplyLogic ----------------------------
(***************************************************************************)
(* SupplyLogic with the token calls it makes: supply, withdraw, the aToken *)
(* transfer that calls back finalizeTransfer, and the collateral switch.   *)
(* A call that reverts is a step that does not happen.                     *)
(***************************************************************************)
EXTENDS GenericLogic

(* validateSupply, on the settled reserve r.                               *)
ValidSupply(a, r, amount) ==
    LET scaled == ATokenMintScaled(amount, r.liquidityIndex)
    IN  /\ amount # 0
        /\ scaled # 0
        /\ ActiveAndNotPaused(a)
        /\ ~config[a].frozen
        /\ \/ config[a].supplyCap = 0
           \/ ATokenBalance(aSupply[a] + r.accruedToTreasury + scaled,
                            r.liquidityIndex)
                <= config[a].supplyCap * AssetUnit[a]

(* executeSupply: the first supply of onBehalfOf may switch the collateral *)
(* bit on.                                                                 *)
Supply(caller, a, amount, onBehalfOf) ==
    LET r == UpdatedReserve(a)
        scaled == ATokenMintScaled(amount, r.liquidityIndex)
    IN  /\ ValidSupply(a, r, amount)
        /\ wallet[a][caller] >= amount
        /\ reserve' = [reserve EXCEPT
                          ![a] = WithRates(a, r, vSupply[a], cash[a] + amount)]
        /\ wallet' = Debit(wallet, a, caller, amount)
        /\ cash' = [cash EXCEPT ![a] = @ + amount]
        /\ aBalance' = Credit(aBalance, a, onBehalfOf, scaled)
        /\ aSupply' = [aSupply EXCEPT ![a] = @ + scaled]
        /\ usingAsCollateral' =
              IF /\ aBalance[a][onBehalfOf] = 0
                 /\ AutomaticUseAsCollateral(caller, onBehalfOf, a)
                THEN WithBit(usingAsCollateral, onBehalfOf, a)
                ELSE usingAsCollateral
        /\ UNCHANGED <<vBalance, vSupply, borrowAllowance, borrowing, userEMode,
                       adminVars, worldVars>>

-----------------------------------------------------------------------------
(* Mutant: an exact drain does not count as one.                           *)
WillDrainScaledMutant(scaled, balance) == scaled > balance

WillDrainScaled(scaled, balance) == scaled >= balance

(* executeWithdraw: the rates are computed before the funds move, the      *)
(* collateral bit is cleared before the burn, the health factor is checked *)
(* on the outcome.                                                         *)
Withdraw(caller, a, requested, to) ==
    LET r == UpdatedReserve(a)
        balance == ATokenBalance(aBalance[a][caller], r.liquidityIndex)
        amount == IF requested = MAX_UINT THEN balance ELSE requested
        scaled == ATokenBurnScaled(amount, r.liquidityIndex)
        isCollateral == a \in usingAsCollateral[caller]
    IN  /\ amount # 0 /\ amount <= balance
        /\ ActiveAndNotPaused(a)
        /\ amount <= cash[a]
        /\ Burnable(scaled, aBalance[a][caller], aSupply[a])
        /\ reserve' = [reserve EXCEPT
                          ![a] = WithRates(a, r, vSupply[a], cash[a] - amount)]
        /\ usingAsCollateral' =
              IF isCollateral /\ WillDrainScaled(scaled, aBalance[a][caller])
                THEN WithoutBit(usingAsCollateral, caller, a)
                ELSE usingAsCollateral
        /\ aBalance' = Debit(aBalance, a, caller, scaled)
        /\ aSupply' = [aSupply EXCEPT ![a] = @ - scaled]
        /\ cash' = [cash EXCEPT ![a] = @ - amount]
        /\ wallet' = Credit(wallet, a, to, amount)
        /\ UNCHANGED <<vBalance, vSupply, borrowAllowance, borrowing, userEMode,
                       adminVars, worldVars>>
        /\ isCollateral /\ isBorrowingAny(caller) => ValidHFAndLtv(caller, a)'

-----------------------------------------------------------------------------
(* The collateral bits after executeFinalizeTransfer: the sender's bit     *)
(* goes when nothing is left, the receiver's comes with a first balance.   *)
(* The caller of finalizeTransfer is the aToken, which holds no role: an   *)
(* isolated collateral is never switched on by a transfer.                 *)
BitsAfterTransfer(from, to, a, scaled) ==
    LET afterFrom == IF scaled = aBalance[a][from]
                       THEN WithoutBit(usingAsCollateral, from, a)
                       ELSE usingAsCollateral
        switchedOn == /\ ATokenBalanceOf(to, a) = 0
                      /\ config[a].debtCeiling = 0
                      /\ MayUseAsCollateral(to, a)
    IN  IF switchedOn THEN WithBit(afterFrom, to, a) ELSE afterFrom

(* AToken.transfer and the finalizeTransfer it calls.  The code checks the *)
(* health factor before it clears the bit of a drained sender: no balance  *)
(* is behind that bit, and a zero loan to value of the asset itself is     *)
(* what the check allows, so it reads the same either way.                 *)
Transfer(from, a, amount, to) ==
    LET scaled == ATokenTransferScaled(amount, NormalizedIncome(a))
    IN  /\ ~config[a].paused
        /\ scaled <= aBalance[a][from]
        /\ aBalance' = Credit(Debit(aBalance, a, from, scaled), a, to, scaled)
        /\ usingAsCollateral' =
              IF from # to /\ amount # 0
                THEN BitsAfterTransfer(from, to, a, scaled)
                ELSE usingAsCollateral
        /\ UNCHANGED <<reserve, aSupply, vBalance, vSupply, cash, wallet,
                       borrowAllowance, borrowing, userEMode, adminVars, worldVars>>
        /\ (/\ from # to /\ amount # 0
            /\ a \in usingAsCollateral[from] /\ isBorrowingAny(from))
              => ValidHFAndLtv(from, a)'

-----------------------------------------------------------------------------
(* executeUseReserveAsCollateral: neither direction settles the reserve.   *)
SetUserUseReserveAsCollateral(u, a, useAsCollateral) ==
    /\ ATokenBalanceOf(u, a) # 0
    /\ ActiveAndNotPaused(a)
    /\ useAsCollateral # (a \in usingAsCollateral[u])
    /\ useAsCollateral => MayUseAsCollateral(u, a)
    /\ usingAsCollateral' = IF useAsCollateral
                              THEN WithBit(usingAsCollateral, u, a)
                              ELSE WithoutBit(usingAsCollateral, u, a)
    /\ UNCHANGED <<reserve, ledgerVars, borrowAllowance, borrowing, userEMode,
                   adminVars, worldVars>>
    /\ ~useAsCollateral => ValidHFAndLtv(u, a)'
=============================================================================
