-------------------------- MODULE PoolConfigurator --------------------------
(***************************************************************************)
(* PoolConfigurator: the calls of the pool, risk and emergency admins that *)
(* change the configuration of a live pool.  Who may call what is the      *)
(* ACLManager's matter; here every call comes from an admin allowed to.    *)
(***************************************************************************)
EXTENDS GenericLogic

SetConfiguration(a, c) ==
    /\ config' = [config EXCEPT ![a] = c]
    /\ UNCHANGED <<eModeCategories, ledgerVars, borrowAllowance, bitVars,
                   userEMode, worldVars>>

(* Mutant: only the accrual of the treasury counts as a supplier.          *)
NoSuppliersMutant(a) == reserve[a].accruedToTreasury = 0

(* _checkNoSuppliers and _checkNoBorrowers, on the data provider's totals. *)
NoSuppliers(a) == /\ ATokenBalance(aSupply[a], NormalizedIncome(a)) = 0
                  /\ reserve[a].accruedToTreasury = 0

NoBorrowers(a) == VTokenBalance(vSupply[a], NormalizedDebt(a)) = 0

-----------------------------------------------------------------------------
SetReserveActive(a, active) ==
    /\ ~active => NoSuppliers(a)
    /\ SetConfiguration(a, [config[a] EXCEPT !.active = active])
    /\ UNCHANGED reserve

SetReservePause(a, paused) ==
    /\ SetConfiguration(a, [config[a] EXCEPT !.paused = paused])
    /\ UNCHANGED reserve

SetReserveFreeze(a, freeze) ==
    /\ SetConfiguration(a, [config[a] EXCEPT !.frozen = freeze])
    /\ UNCHANGED reserve

SetReserveBorrowing(a, enabled) ==
    /\ SetConfiguration(a, [config[a] EXCEPT !.borrowingEnabled = enabled])
    /\ UNCHANGED reserve

(* setPoolPause: setReservePause on every reserve of the list.             *)
SetPoolPause(paused) ==
    /\ config' = [a \in Assets |-> [config[a] EXCEPT !.paused = paused]]
    /\ UNCHANGED <<reserve, eModeCategories, ledgerVars, borrowAllowance, bitVars,
                   userEMode, worldVars>>

SetBorrowableInIsolation(a, borrowable) ==
    /\ SetConfiguration(a, [config[a] EXCEPT !.borrowableInIsolation = borrowable])
    /\ UNCHANGED reserve

SetLiquidationProtocolFee(a, fee) ==
    /\ fee <= PERCENTAGE_FACTOR
    /\ SetConfiguration(a, [config[a] EXCEPT !.liquidationProtocolFee = fee])
    /\ UNCHANGED reserve

SetSupplyCap(a, cap) ==
    /\ SetConfiguration(a, [config[a] EXCEPT !.supplyCap = cap])
    /\ UNCHANGED reserve

SetBorrowCap(a, cap) ==
    /\ SetConfiguration(a, [config[a] EXCEPT !.borrowCap = cap])
    /\ UNCHANGED reserve

(* A reserve becomes siloed only while nobody borrows it.                  *)
SetSiloedBorrowing(a, siloed) ==
    /\ siloed => NoBorrowers(a)
    /\ SetConfiguration(a, [config[a] EXCEPT !.siloedBorrowing = siloed])
    /\ UNCHANGED reserve

(* A ceiling is first set only while nobody supplies; removing it resets   *)
(* the isolated debt (executeResetIsolationModeTotalDebt).                 *)
SetDebtCeiling(a, ceiling) ==
    /\ config[a].debtCeiling = 0 => NoSuppliers(a)
    /\ SetConfiguration(a, [config[a] EXCEPT !.debtCeiling = ceiling])
    /\ reserve' = IF ceiling = 0
                    THEN [reserve EXCEPT ![a].isolationModeTotalDebt = 0]
                    ELSE reserve

(* The elapsed interval is settled under the old factor (syncIndexesState) *)
(* and the rates recomputed under the new one (syncRatesState).            *)
SetReserveFactor(a, factor) ==
    LET r == UpdatedReserve(a)
        rates == InterestRates(a, VTokenBalance(vSupply[a], r.variableBorrowIndex),
                               cash[a], factor)
    IN  /\ factor <= PERCENTAGE_FACTOR
        /\ SetConfiguration(a, [config[a] EXCEPT !.reserveFactor = factor])
        /\ reserve' = [reserve EXCEPT
                          ![a] = [r EXCEPT !.currentLiquidityRate = rates.liquidity,
                                           !.currentVariableBorrowRate = rates.variable]]

(* configureReserveAsCollateral: p holds ltv, liquidationThreshold and     *)
(* liquidationBonus.                                                       *)
ConfigureReserveAsCollateral(a, p) ==
    /\ p.ltv <= p.liquidationThreshold
    /\ IF p.liquidationThreshold # 0
         THEN /\ p.liquidationBonus > PERCENTAGE_FACTOR
              /\ percentMul(p.liquidationThreshold, p.liquidationBonus)
                   <= PERCENTAGE_FACTOR
         ELSE /\ p.liquidationBonus = 0
              /\ NoSuppliers(a)
    /\ SetConfiguration(a, [config[a] EXCEPT
                               !.ltv = p.ltv,
                               !.liquidationThreshold = p.liquidationThreshold,
                               !.liquidationBonus = p.liquidationBonus])
    /\ UNCHANGED reserve

(* setEModeCategory: p holds the new ltv, threshold, bonus and feed, which *)
(* must beat those of every asset already in the category.                 *)
SetEModeCategory(category, p) ==
    /\ p.ltv # 0 /\ p.ltv <= p.liquidationThreshold
    /\ p.liquidationBonus > PERCENTAGE_FACTOR
    /\ percentMul(p.liquidationThreshold, p.liquidationBonus) <= PERCENTAGE_FACTOR
    /\ \A a \in Assets : config[a].eModeCategory = category =>
          /\ p.ltv > config[a].ltv
          /\ p.liquidationThreshold > config[a].liquidationThreshold
    /\ eModeCategories' = [eModeCategories EXCEPT ![category] = p]
    /\ UNCHANGED <<reserve, config, ledgerVars, borrowAllowance, bitVars,
                   userEMode, worldVars>>

(* setAssetEModeCategory: only the threshold of the category is compared.  *)
SetAssetEModeCategory(a, category) ==
    /\ category # 0 => eModeCategories[category].liquidationThreshold
                         > config[a].liquidationThreshold
    /\ SetConfiguration(a, [config[a] EXCEPT !.eModeCategory = category])
    /\ UNCHANGED reserve
=============================================================================
