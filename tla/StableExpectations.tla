-------------------------- MODULE StableExpectations --------------------------
(***************************************************************************)
(* The expectations no story can compare in this release: those of stable  *)
(* loans and of the portal, whose calls all revert.  What the two sides of *)
(* the oracle must still agree on is assumed here and evaluated over small *)
(* reserves with one borrower, in the units of the run.                    *)
(***************************************************************************)
EXTENDS ScenarioActions

Stable   == Oracle!Stable
Variable == Oracle!Variable

Debts   == {0, 700, 3000}
Changes == {1, 500, 700}
Rates   == {RAY \div 50, RAY \div 5}

(* The borrower of a reserve, settled at time 1 and read at the same time. *)
Borrower(stable, scaled, rate) ==
    [scaledATokenBalance |-> 5000, currentATokenBalance |-> 5000,
     currentStableDebt |-> stable, principalStableDebt |-> stable,
     stableBorrowRate |-> IF stable = 0 THEN 0 ELSE rate,
     stableRateLastUpdated |-> IF stable = 0 THEN 0 ELSE 1,
     currentVariableDebt |-> scaled, scaledVariableDebt |-> scaled,
     liquidityRate |-> RAY \div 50, usageAsCollateralEnabled |-> TRUE,
     walletBalance |-> 9000]

(* The reserve of which u is the only borrower; its stable rate is current.*)
ReserveOf(u, current) ==
    [reserveFactor |-> 20, unbacked |-> 600, accruedToTreasuryScaled |-> 10,
     availableLiquidity |-> 4000, totalLiquidity |-> 4600,
     borrowUsageRatio |-> RAY \div 2, supplyUsageRatio |-> RAY \div 2,
     totalStableDebt |-> u.currentStableDebt,
     principalStableDebt |-> u.principalStableDebt,
     averageStableBorrowRate |-> u.stableBorrowRate,
     stableBorrowRate |-> current, marketStableRate |-> RAY \div 100,
     totalStableDebtLastUpdated |-> 1,
     totalVariableDebt |-> u.currentVariableDebt,
     scaledVariableDebt |-> u.scaledVariableDebt,
     liquidityRate |-> RAY \div 50, variableBorrowRate |-> RAY \div 10,
     liquidityIndex |-> RAY, variableBorrowIndex |-> RAY,
     lastUpdateTimestamp |-> 1]

Near(a, b) == isAlmostEqual(a, b, AMOUNT_TOLERANCE)

(* P holds for every asset, borrower and reserve, at every later time.     *)
Everywhere(P(_, _, _, _)) ==
    \A a \in Assets, stable, scaled \in Debts, rate, current \in Rates, tx \in 1..3 :
        LET u == Borrower(stable, scaled, rate)
        IN  P(a, ReserveOf(u, current), u, tx)

(* The reserve e and the user w tell of the same stable loan.              *)
SameLoan(e, w) ==
    /\ e.principalStableDebt = w.principalStableDebt
    /\ e.totalStableDebt = w.currentStableDebt
    /\ Near(e.averageStableBorrowRate, w.stableBorrowRate)

(* A stable loan adds to the reserve what it adds to its only borrower, at *)
(* the same rate, also when time is advanced before the data is read.      *)
ASSUME StableBorrowAgrees ==
    LET Agrees(a, b, u, tx) ==
            \A n \in Changes, current \in {tx, tx + 1} :
                LET e == Oracle!calcExpectedReserveDataAfterBorrow(a, n, Stable, b, tx, current)
                IN  SameLoan(e, Oracle!calcExpectedUserDataAfterBorrow(n, Stable, b, e, u,
                                                                       tx, current))
    IN  Everywhere(Agrees)

(* Repaying a part leaves the same loan on both sides, repaying all none.  *)
ASSUME StableRepayAgrees ==
    LET Agrees(a, b, u, tx) ==
            \A n \in {m \in Changes : m < u.principalStableDebt} \cup {MAX_UINT} :
                LET e == Oracle!calcExpectedReserveDataAfterRepay(a, n, Stable, b, u, tx)
                    w == Oracle!calcExpectedUserDataAfterRepay(n, Stable, b, e, u, u, u, tx, tx)
                IN  SameLoan(e, w) /\ (n = MAX_UINT => e.totalStableDebt = 0)
    IN  Everywhere(Agrees)

(* A swap moves the whole debt: what one kind loses the other gains.       *)
ASSUME SwapKeepsDebt ==
    LET Keeps(a, b, u, tx) ==
            \A mode \in {Stable, Variable} :
                LET e == Oracle!calcExpectedReserveDataAfterSwapRateMode(a, b, u, mode, tx)
                    w == Oracle!calcExpectedUserDataAfterSwapRateMode(b, e, u, mode, tx)
                    owed == Oracle!StableDebtOf(u, tx)
                              + Oracle!calcExpectedVariableDebtTokenBalance(b, u, tx)
                IN  \/ mode = Variable /\ u.principalStableDebt # 0
                    \/ mode = Variable /\ u.scaledVariableDebt = 0
                    \/ /\ SameLoan(e, w)
                       /\ Near(e.totalVariableDebt, w.currentVariableDebt)
                       /\ Near(e.totalStableDebt + e.totalVariableDebt, owed)
    IN  Everywhere(Keeps)

(* After a rebalance the only borrower pays the current rate.              *)
ASSUME RebalanceSetsTheRate ==
    LET Sets(a, b, u, tx) ==
            u.principalStableDebt # 0 =>
                LET e == Oracle!calcExpectedReserveDataAfterStableRateRebalance(a, b, u, tx)
                    w == Oracle!calcExpectedUserDataAfterStableRateRebalance(b, e, u, tx)
                IN  SameLoan(e, w) /\ Near(w.stableBorrowRate, b.stableBorrowRate)
    IN  Everywhere(Sets)

(* Unbacked supply counts as liquidity but cannot be borrowed; backing it  *)
(* turns it into liquidity and shares the fee between the suppliers and    *)
(* the treasury, with nothing left over.                                   *)
ASSUME FeeIsShared ==
    LET Shares(a, b, u, tx) ==
            \A n \in {300, 600}, fee \in {0, 40}, toProtocol \in {0, 30, 100} :
                LET s == Oracle!updateState(b, tx)
                    m == Oracle!calcExpectedReserveDataAfterMintUnbacked(a, n, b, tx)
                    e == Oracle!calcExpectedReserveDataAfterBackUnbacked(a, 5000, n, fee,
                             toProtocol, b, tx)
                    Claims(r) == Oracle!rayMul(5000 + r.accruedToTreasuryScaled,
                                               r.liquidityIndex)
                IN  /\ m.totalLiquidity = b.totalLiquidity + n
                    /\ m.availableLiquidity = b.availableLiquidity
                    /\ e.totalLiquidity = b.totalLiquidity + fee
                    /\ Near(Claims(e), Claims(s) + fee)
    IN  Everywhere(Shares)
=============================================================================
