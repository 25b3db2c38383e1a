--------------------------- MODULE PoolProperties ---------------------------
(***************************************************************************)
(* What the pool promises: invariants and action properties of Pool's      *)
(* specification, for the runs and for the proofs.                         *)
(***************************************************************************)
EXTENDS Pool

TotalOf(f) == SumFunctionOnSet(f, Accounts)

-----------------------------------------------------------------------------
(* A user's borrowing bits are exactly the assets the user owes, however   *)
(* little is owed: every repayment and liquidation decides from a rounded  *)
(* balance whether the bit is to be cleared, and a bit lost hides the debt *)
(* from the account data while a bit left over counts as a siloed debt.    *)
BorrowingBitsMatchDebts ==
    \A u \in Accounts, a \in Assets : a \in borrowing[u] <=> vBalance[a][u] > 0

(* The token totals are the sums of the balances, and no call creates or   *)
(* destroys underlying: what the aToken holds and what the accounts hold   *)
(* adds up to what there was at the start.                                 *)
BooksBalance ==
    \A a \in Assets :
        /\ aSupply[a] = TotalOf(aBalance[a])
        /\ vSupply[a] = TotalOf(vBalance[a])
        /\ cash[a] + TotalOf(wallet[a]) = TotalOf(InitialWallet[a])

(* Once a reserve has been used, the rates in storage are always those the *)
(* strategy gives for the cash and the debt in storage, although every     *)
(* call computes them before its funds move, from the liquidity it         *)
(* predicts it will add or take.                                           *)
RatesFreshFor(a) ==
    LET r == reserve[a]
        rates == InterestRates(a, VTokenBalance(vSupply[a], r.variableBorrowIndex),
                               cash[a], config[a].reserveFactor)
    IN  r.lastUpdateTimestamp # 0 =>
          /\ r.currentLiquidityRate = rates.liquidity
          /\ r.currentVariableBorrowRate = rates.variable

RatesFresh == \A a \in Assets : RatesFreshFor(a)

-----------------------------------------------------------------------------
(* What the reserve has beyond what it owes, in rays of underlying: cash   *)
(* and debt against the aTokens and the treasury's accrual, all of it      *)
(* settled as of now.                                                      *)
Assets2Rays(a) == RAY * cash[a] + vSupply[a] * UpdatedReserve(a).variableBorrowIndex

OwedRays(a) ==
    (aSupply[a] + UpdatedReserve(a).accruedToTreasury)
      * UpdatedReserve(a).liquidityIndex

(* No call, whoever makes it and in whatever order, takes value out of a   *)
(* reserve: at any one instant each rounding is in favour of the pool.     *)
(* (Stated without subtraction: assets grow at least as much as claims.)   *)
EquityNeverFallsStep ==
    now' = now =>
        \A a \in Assets :
            Assets2Rays(a)' + OwedRays(a) >= Assets2Rays(a) + OwedRays(a)'

EquityNeverFalls == [][EquityNeverFallsStep]_vars

(* The interest debtors owe since the last settlement covers what it gives *)
(* the suppliers and the treasury together, but for dust.  Half a unit:    *)
(* the treasury's share is rounded half up.  Two rays per unit of debt and *)
(* one per scaled unit: the indexes are.  Per year, the interest of the    *)
(* one unit the rates round the debt up by, and what is lost by rounding   *)
(* the average rate (a wad), the usage, their product and the share of the *)
(* suppliers half up (two rays per unit, and the interest of a ray).       *)
SharingDust(a) ==
    LET r == reserve[a]
        debt == VTokenBalance(vSupply[a], r.variableBorrowIndex)
        total == cash[a] + debt
        perYear == r.currentVariableBorrowRate + DivCeil(RAY, WAD_RAY_RATIO)
                     + 2 * total + rayMulCeil(total, r.currentVariableBorrowRate)
    IN  RAY \div 2 + 2 * debt + aSupply[a] + r.accruedToTreasury
          + DivCeil(perYear * (now - r.lastUpdateTimestamp), SECONDS_PER_YEAR)

(* A reserve that owed more than it had when it was settled pays interest  *)
(* on the rest too, which no debtor owes.                                  *)
UnbackedInterest(a) ==
    LET r == reserve[a]
        had == RAY * (cash[a] + VTokenBalance(vSupply[a], r.variableBorrowIndex))
        owed == (aSupply[a] + r.accruedToTreasury) * r.liquidityIndex
    IN  IF owed <= had THEN 0
        ELSE DivCeil((owed - had) * (r.currentLiquidityRate * (now - r.lastUpdateTimestamp)),
                     SECONDS_PER_YEAR * RAY)

InterestIsShared ==
    \A a \in Assets :
        LET r == reserve[a]
            n == UpdatedReserve(a)
        IN  (aSupply[a] + n.accruedToTreasury) * n.liquidityIndex
              <= (aSupply[a] + r.accruedToTreasury) * r.liquidityIndex
                   + vSupply[a] * (n.variableBorrowIndex - r.variableBorrowIndex)
                   + SharingDust(a) + UnbackedInterest(a)

(* The indexes, and the time they were last settled at, never go back: a   *)
(* token would otherwise compute a negative balance increase and revert.   *)
IndexesNeverFallStep ==
    \A a \in Assets :
        /\ reserve'[a].liquidityIndex >= reserve[a].liquidityIndex
        /\ reserve'[a].variableBorrowIndex >= reserve[a].variableBorrowIndex
        /\ reserve'[a].lastUpdateTimestamp >= reserve[a].lastUpdateTimestamp

IndexesNeverFall == [][IndexesNeverFallStep]_vars

(* mintToTreasury rounds the accrual up to an amount and the token rounds  *)
(* that amount down to scaled units: the round trip loses and creates      *)
(* nothing, so an accrual that goes down is in the treasury's balance.     *)
TreasuryGetsItsAccrualStep ==
    \A a \in Assets :
        reserve'[a].accruedToTreasury < reserve[a].accruedToTreasury =>
            aBalance'[a][Treasury] = aBalance[a][Treasury] + reserve[a].accruedToTreasury

TreasuryGetsItsAccrual == [][TreasuryGetsItsAccrualStep]_vars

(* Leaving is complete, at any index: a user whose aTokens leave the pool  *)
(* for all they are worth keeps no scaled unit and no collateral bit, and  *)
(* a user for whom the whole debt is paid in owes no scaled unit and has   *)
(* no borrowing bit.                                                       *)
FullExitStep ==
    \A u \in Users, a \in Assets :
        /\ (/\ aBalance'[a][u] < aBalance[a][u]
            /\ cash[a] = cash'[a] + ATokenBalanceOf(u, a))
              => aBalance'[a][u] = 0 /\ a \notin usingAsCollateral'[u]
        /\ (/\ vBalance'[a][u] < vBalance[a][u]
            /\ cash'[a] = cash[a] + VTokenBalance(vBalance[a][u], NormalizedDebt(a)))
              => vBalance'[a][u] = 0 /\ a \notin borrowing'[u]

FullExitLeavesNothing == [][FullExitStep]_vars

(* A call that takes aTokens from a user who counts them as collateral (a  *)
(* withdrawal, a transfer, a repayment with aTokens, a liquidation, each   *)
(* with its own comparison of rounded amounts) drops the collateral bit    *)
(* exactly with the last scaled unit: no balance is left behind that       *)
(* nobody could seize any more, and no bit without a balance.  Not said of *)
(* the treasury, which gets the fee of its own liquidation back.           *)
BitDropsWithLastUnitStep ==
    \A u \in Users \ {Treasury}, a \in Assets :
        (aBalance'[a][u] < aBalance[a][u] /\ a \in usingAsCollateral[u])
          => (a \notin usingAsCollateral'[u] <=> aBalance'[a][u] = 0)

BitDropsWithLastUnit == [][BitDropsWithLastUnitStep]_vars

(* A collateral bit is switched on for a balance: liquidation activates    *)
(* the liquidator's aTokens "as in standard transfers", which ignore a     *)
(* transfer of nothing.                                                    *)
BitsComeWithTokens ==
    [][\A u \in Users : \A a \in usingAsCollateral'[u] \ usingAsCollateral[u] :
          aBalance'[a][u] > 0]_vars

-----------------------------------------------------------------------------
(* While prices, time and configuration stand still, no call of anybody    *)
(* makes a healthy user liquidatable.                                      *)
HealthyStaysHealthy ==
    [][worldVars' = worldVars /\ adminVars' = adminVars
         => \A u \in Users : Healthy(u) => Healthy(u)']_vars

(* What a liquidation takes off the scaled balance of u: the seizure, then *)
(* the fee out of what that leaves.                                        *)
TakenScaled(u, c, out) ==
    LET index == NormalizedIncome(c)
        seized == ATokenTransferScaled(out.collateral, index)
    IN  seized + IF out.fee = 0 THEN 0
                 ELSE FeeScaled(out.fee, aBalance[c][u] - seized, index)

(* The arithmetic of a liquidation never stands in its own way.  However   *)
(* little is left of a debt, a liquidator who offers all of it gets past   *)
(* the close factor with an amount that burns at least one scaled unit (a  *)
(* burn of none reverts).  And whatever part of it is offered, against     *)
(* whichever collateral has a bonus: the liquidator pays no more than the  *)
(* offer, and the seizure and the fee, each rounded up to scaled units,    *)
(* are both in the balance they are taken from (a transfer of more         *)
(* reverts), also when they take all there is.                             *)
UnhealthyCanBeLiquidated ==
    \A u \in Users : ~Healthy(u) =>
        \A d \in borrowing[u] :
            LET index == NormalizedDebt(d)
                debt == VTokenBalance(vBalance[d][u], index)
            IN  /\ DebtBurnScaled(u, d, DebtToLiquidate(u, d, debt, index), index) # 0
                /\ \A c \in usingAsCollateral[u], offer \in 1..debt :
                      LiquidationBonus(u, c) # 0 =>
                        LET out == AvailableCollateral(u, c, d,
                                       DebtToLiquidate(u, d, offer, index),
                                       ATokenBalanceOf(u, c))
                        IN  out.debt <= offer /\ TakenScaled(u, c, out) <= aBalance[c][u]

(* A liquidation for underlying takes collateral worth at most the debt    *)
(* paid plus the bonus; only when it takes all there is may one indivisible *)
(* unit of the debt asset be missing (the code rounds the debt a limited   *)
(* collateral pays for down, then up).  Only a liquidation lowers a user's *)
(* debt in d and balance in another c.                                     *)
LiquidationPaysItsWayStep ==
    \A u \in Users \ {Treasury} : \A c, d \in Assets :
        (/\ c # d
         /\ aBalance'[c][u] < aBalance[c][u]
         /\ vBalance'[d][u] < vBalance[d][u]
         /\ cash'[c] < cash[c])
          => LET paid == cash'[d] - cash[d]
                 rounding == IF aBalance'[c][u] = 0 THEN 1 ELSE 0
             IN  PriceFor(userEMode[u], c) * (cash[c] - cash'[c])
                     * AssetUnit[d] * PERCENTAGE_FACTOR
                   <= PriceFor(userEMode[u], d) * (paid + rounding)
                        * AssetUnit[c] * LiquidationBonus(u, c)

LiquidationPaysItsWay == [][LiquidationPaysItsWayStep]_vars

-----------------------------------------------------------------------------
(* The collateral bits of u stand for aTokens.  After a liquidation that   *)
(* seizes nothing they may not (BitsComeWithTokens), and the admins, who   *)
(* look at aTokens before they change a reserve, do not see the user.      *)
BitsHaveTokens(u) == \A a \in usingAsCollateral[u] : aBalance[a][u] > 0

(* An asset with a debt ceiling is only ever the sole collateral of a      *)
(* user, whatever supplies, transfers, liquidations and admin calls come:  *)
(* no step of anybody ends that for a user whose bits stand for aTokens.   *)
IsolatedAlone(u) ==
    \A a \in usingAsCollateral[u] :
        config[a].debtCeiling # 0 => usingAsCollateral[u] = {a}

IsolationIsKept ==
    [][\A u \in Accounts :
          BitsHaveTokens(u) /\ IsolatedAlone(u) => IsolatedAlone(u)']_vars

(* A debt in a siloed asset is the only debt of a user, whatever the user  *)
(* borrowed before the admins made the asset siloed.                       *)
SiloedDebtIsAlone ==
    \A u \in Accounts : \A a \in borrowing[u] :
        config[a].siloedBorrowing => borrowing[u] = {a}

(* The debts of u outside of the eMode category u is in.                   *)
OutOfCategory(u) ==
    {a \in borrowing[u] : userEMode[u] # 0 /\ config[a].eModeCategory # userEMode[u]}

(* The only way to owe an asset outside of one's category is to have owed  *)
(* it when an admin moved the asset: no other step adds such a debt, also  *)
(* for a user who has one already, and a category is only entered without. *)
DebtsStayInCategoryStep ==
    \A u \in Users :
        OutOfCategory(u)' \subseteq
            OutOfCategory(u)
              \cup {a \in borrowing[u] : config'[a].eModeCategory # config[a].eModeCategory}

DebtsStayInCategory == [][DebtsStayInCategoryStep]_vars

(* Funds drawn on another user's credit are paid for with allowance: the   *)
(* allowance falls at least by what the delegatee receives, although the   *)
(* debt is what rounding makes of it and the spending is capped.           *)
DelegationIsSpentStep ==
    \A u, d \in Users, a \in Assets :
        (u # d /\ vBalance'[a][u] > vBalance[a][u] /\ wallet'[a][d] > wallet[a][d])
          => borrowAllowance'[a][u][d] + (wallet'[a][d] - wallet[a][d])
               <= borrowAllowance[a][u][d]

DelegationIsSpent == [][DelegationIsSpentStep]_vars

(* Collateral that counts can be seized: the reserve of every collateral   *)
(* of u has a threshold and a bonus that pays the liquidator, and so have  *)
(* the parameters of u's category, if they are the ones that apply.        *)
Seizable(u) ==
    \A a \in usingAsCollateral[u] :
        /\ config[a].liquidationThreshold > 0
        /\ config[a].liquidationBonus > PERCENTAGE_FACTOR
        /\ ThresholdFor(userEMode[u], a) > 0
        /\ LiquidationBonus(u, a) > PERCENTAGE_FACTOR

(* No admin takes the parameters from, and no call switches on, what could *)
(* not be seized afterwards.                                               *)
CollateralStaysSeizable ==
    [][\A u \in Accounts : BitsHaveTokens(u) /\ Seizable(u) => Seizable(u)']_vars

(* A reserve is only ever inactive while nobody holds its aTokens, and     *)
(* none is minted behind the admins' back while it is.                     *)
InactiveReserveHasNoSupply ==
    \A a \in Assets : ~config[a].active => aSupply[a] = 0
=============================================================================
