----------------------------- MODULE PoolLogic -----------------------------
(***************************************************************************)
(* PoolLogic.executeMintToTreasury and EModeLogic.executeSetUserEMode.     *)
(***************************************************************************)
EXTENDS GenericLogic

(* executeMintToTreasury for one asset of its list: the scaled accrual is  *)
(* turned into an amount and back into scaled aTokens, without settling    *)
(* the reserve.  A list of assets is the same as one call per asset.       *)
MintToTreasury(a) ==
    LET income == NormalizedIncome(a)
        amountToMint == rayMulCeil(reserve[a].accruedToTreasury, income)
        scaled == ATokenMintScaled(amountToMint, income)
    IN  /\ config[a].active
        /\ reserve[a].accruedToTreasury # 0
        /\ reserve' = [reserve EXCEPT ![a].accruedToTreasury = 0]
        /\ aBalance' = Credit(aBalance, a, Treasury, scaled)
        /\ aSupply' = [aSupply EXCEPT ![a] = @ + scaled]
        /\ UNCHANGED <<vBalance, vSupply, cash, wallet, borrowAllowance, bitVars,
                       userEMode, adminVars, worldVars>>

(* Mutant: a user with debts outside the category may enter it.            *)
SetUserEModeMutant(u, category) ==
    /\ category # userEMode[u]
    /\ category # 0 => eModeCategories[category].liquidationThreshold # 0
    /\ userEMode' = [userEMode EXCEPT ![u] = category]
    /\ UNCHANGED <<reserve, ledgerVars, borrowAllowance, bitVars, adminVars, worldVars>>
    /\ Healthy(u)'

(* executeSetUserEMode: everything borrowed must belong to the category    *)
(* entered, and the position must be healthy under its parameters.         *)
SetUserEMode(u, category) ==
    /\ category # userEMode[u]
    /\ category # 0 => eModeCategories[category].liquidationThreshold # 0
    /\ (category # 0 /\ ~isEmpty(u)) =>
          \A a \in borrowing[u] : config[a].eModeCategory = category
    /\ userEMode' = [userEMode EXCEPT ![u] = category]
    /\ UNCHANGED <<reserve, ledgerVars, borrowAllowance, bitVars, adminVars, worldVars>>
    /\ Healthy(u)'
=============================================================================
