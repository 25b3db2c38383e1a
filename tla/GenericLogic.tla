---------------------------- MODULE GenericLogic ----------------------------
(***************************************************************************)
(* GenericLogic, EModeLogic's helpers and the parts of ValidationLogic     *)
(* that several calls share: the account data of a user, the health factor *)
(* checks and the collateral activation rules.                             *)
(***************************************************************************)
EXTENDS ReserveLogic, FiniteSetsExt

CONSTANT IsolatedCollateralSuppliers
    \* callers that hold ISOLATED_COLLATERAL_SUPPLIER_ROLE

ASSUME SuppliersAssumption == IsolatedCollateralSuppliers \subseteq Users

-----------------------------------------------------------------------------
isInEModeCategory(userCategory, a) ==
    userCategory # 0 /\ config[a].eModeCategory = userCategory

(* The price of asset a for a user of this category: the custom feed of    *)
(* the category, if it has one and the asset belongs to it.                *)
PriceFor(userCategory, a) ==
    IF isInEModeCategory(userCategory, a)
       /\ eModeCategories[userCategory].priceSource # NoSource
      THEN price[eModeCategories[userCategory].priceSource]
      ELSE price[a]

LtvFor(userCategory, a) ==
    IF isInEModeCategory(userCategory, a)
      THEN eModeCategories[userCategory].ltv ELSE config[a].ltv

ThresholdFor(userCategory, a) ==
    IF isInEModeCategory(userCategory, a)
      THEN eModeCategories[userCategory].liquidationThreshold
      ELSE config[a].liquidationThreshold

-----------------------------------------------------------------------------
ATokenBalanceOf(u, a) == ATokenBalance(aBalance[a][u], NormalizedIncome(a))

UserBalanceInBase(u, a) ==
    DivFloor(ATokenBalanceOf(u, a) * PriceFor(userEMode[u], a), AssetUnit[a])

UserDebtInBase(u, a) ==
    DivCeil(PriceFor(userEMode[u], a)
              * VTokenBalance(vBalance[a][u], NormalizedDebt(a)),
            AssetUnit[a])

CollateralInBase(u) ==
    SumFunction([a \in usingAsCollateral[u] |-> UserBalanceInBase(u, a)])

DebtInBase(u) ==
    SumFunction([a \in borrowing[u] |-> UserDebtInBase(u, a)])

AverageLtv(u) ==
    LET weighted == SumFunction([a \in usingAsCollateral[u] |->
                        UserBalanceInBase(u, a) * LtvFor(userEMode[u], a)])
    IN  IF CollateralInBase(u) = 0 THEN 0
        ELSE weighted \div CollateralInBase(u)

(* The health factor of u, a wad; infinite without debt.                   *)
HealthFactor(u) ==
    LET weighted == SumFunction([a \in usingAsCollateral[u] |->
                        UserBalanceInBase(u, a) * ThresholdFor(userEMode[u], a)])
    IN  IF DebtInBase(u) = 0 THEN MAX_UINT
        ELSE wadDiv(weighted, DebtInBase(u)) \div PERCENTAGE_FACTOR

hasZeroLtvCollateral(u) ==
    \E a \in usingAsCollateral[u] : LtvFor(userEMode[u], a) = 0

-----------------------------------------------------------------------------
(* ValidationLogic *)

(* Mutant: only the pause is looked at.                                    *)
ActiveAndNotPausedMutant(a) == ~config[a].paused

ActiveAndNotPaused(a) == config[a].active /\ ~config[a].paused

Healthy(u) == HealthFactor(u) >= WAD

(* validateHFAndLtv: while u holds zero-LTV collateral, only zero-LTV      *)
(* collateral may leave.                                                   *)
ValidHFAndLtv(u, a) ==
    /\ Healthy(u)
    /\ hasZeroLtvCollateral(u) => config[a].ltv = 0

(* Mutant: the asset switched on may be isolated next to other collateral. *)
MayUseAsCollateralMutant(u, a) ==
    /\ config[a].ltv # 0
    /\ usingAsCollateral[u] = {} \/ ~isolationModeActive(u)

(* validateUseAsCollateral: no zero-LTV asset, and an isolated asset only  *)
(* as the sole collateral.                                                 *)
MayUseAsCollateral(u, a) ==
    /\ config[a].ltv # 0
    /\ \/ usingAsCollateral[u] = {}
       \/ ~isolationModeActive(u) /\ config[a].debtCeiling = 0

(* validateAutomaticUseAsCollateral: as a side effect of a call, isolated  *)
(* collateral is switched on only for callers holding the role.            *)
AutomaticUseAsCollateral(caller, u, a) ==
    /\ config[a].debtCeiling # 0 => caller \in IsolatedCollateralSuppliers
    /\ MayUseAsCollateral(u, a)

(* IsolationModeLogic.updateIsolatedDebtIfIsolated, applied to the reserve *)
(* function rs: the isolated collateral of u is credited with the repaid   *)
(* amount of asset a, in debt ceiling units and floored at zero.           *)
WithIsolatedDebtRepaid(rs, u, a, repaid) ==
    LET units == repaid \div IsolationUnit[a]
    IN  [c \in Assets |->
            IF ~InIsolation(u, c) THEN rs[c]
            ELSE [rs[c] EXCEPT !.isolationModeTotalDebt =
                                   IF @ <= units THEN 0 ELSE @ - units]]
=============================================================================
