------------------------ MODULE PoolInvariants_proofs ------------------------
(***************************************************************************)
(* Invariants and action properties of the pool, proved on top of type     *)
(* correctness: bits and debts, sums of balances, and the promises of the  *)
(* modes, of delegation and of the configurator.  The sums need a theory   *)
(* of sums over finite sets, which comes first where they are used.        *)
(***************************************************************************)
EXTENDS Pool_proofs, FiniteSetTheorems

-----------------------------------------------------------------------------
(* What a liquidation moves.                                               *)

(* What a payment burns of a debt is worth at most the payment, whether it *)
(* is the part the payment buys or all of a debt the payment covers.       *)
LEMMA DebtBurntIsPaid ==
    ASSUME LedgersOK, NEW u \in Accounts, NEW a \in Assets, NEW amount \in Nat,
           NEW index \in Nat \ {0}
    PROVE  DebtBurnScaled(u, a, amount, index) * index <= RAY * amount
<1>1. vBalance[a][u] \in Nat /\ RAY \in Nat
  BY UnitsAssumption DEF LedgersOK
<1>2. CASE amount >= VTokenBalance(vBalance[a][u], index)
  <2> DEFINE shown == VTokenBalance(vBalance[a][u], index)
  <2>1. shown \in Nat /\ vBalance[a][u] * index <= RAY * shown
    BY <1>1, MultiplyTypes, ShownDebtCoversDebt
  <2>2. DebtBurnScaled(u, a, amount, index) = vBalance[a][u]
    BY <1>2 DEF DebtBurnScaled
  <2>3. amount >= shown
    BY <1>2
  <2> HIDE DEF shown
  <2>4. RAY * shown <= RAY * amount /\ vBalance[a][u] * index \in Nat
        /\ RAY * shown \in Nat /\ RAY * amount \in Nat
    BY <1>1, <2>1, <2>3
  <2>5. QED
    BY <2>1, <2>2, <2>4
<1>3. CASE ~(amount >= VTokenBalance(vBalance[a][u], index))
  BY <1>3, RoundingFavoursPool DEF DebtBurnScaled
<1>4. QED
  BY <1>2, <1>3

(* The amounts a liquidation computes: of the debt offered, debt is paid    *)
(* for burnt scaled units; collateral and fee leave as seized and feeScaled *)
(* units; the isolated debt is credited with repaid.                       *)
LiquidationAmounts ==
    [offered: Nat, debt: Nat, burnt: Nat, repaid: Nat,
     collateral: Nat, seized: Nat, fee: Nat, feeScaled: Nat]

(* What a liquidation call of w against u does with its amounts o.         *)
LiquidationMoves(w, u, c, d, toCover, receive, o) ==
    LET rd == UpdatedReserve(d)
        released == IF receive THEN 0 ELSE o.collateral
        debtSide == WithIsolatedDebtRepaid(
                        [reserve EXCEPT ![d] = WithRates(d, rd, vSupply[d] - o.burnt,
                                                         cash[d] + o.debt)], u, d, o.repaid)
        afterUser == Debit(aBalance, c, u, o.seized + o.feeScaled)
        afterDrain == IF \/ o.collateral + o.fee = ATokenBalanceOf(u, c)
                         \/ aBalance[c][u] - o.seized = o.feeScaled
                        THEN WithoutBit(usingAsCollateral, u, c)
                        ELSE usingAsCollateral
    IN  /\ w # u /\ config[c].active /\ config[d].active
        /\ c \in usingAsCollateral[u] /\ HealthFactor(u) < WAD
        /\ o.offered = DebtToLiquidate(u, d, toCover, rd.variableBorrowIndex)
        /\ [collateral |-> o.collateral, debt |-> o.debt, fee |-> o.fee]
             = AvailableCollateral(u, c, d, o.offered, ATokenBalanceOf(u, c))
        /\ o.burnt = DebtBurnScaled(u, d, o.debt, rd.variableBorrowIndex)
        /\ o.burnt # 0 /\ o.burnt <= vBalance[d][u] /\ o.burnt <= vSupply[d]
        /\ o.burnt * rd.variableBorrowIndex <= RAY * o.debt
        /\ o.seized = ATokenTransferScaled(o.collateral, NormalizedIncome(c))
        /\ o.feeScaled = IF o.fee = 0 THEN 0
                       ELSE FeeScaled(o.fee, aBalance[c][u] - o.seized, NormalizedIncome(c))
        /\ o.seized + o.feeScaled <= aBalance[c][u]
        /\ ~receive => o.seized # 0 /\ o.seized <= aSupply[c] /\ o.collateral <= cash[c]
        /\ vBalance' = Debit(vBalance, d, u, o.burnt)
        /\ vSupply' = [vSupply EXCEPT ![d] = @ - o.burnt]
        /\ borrowing' =
              IF VTokenBalance(vBalance[d][u] - o.burnt, rd.variableBorrowIndex) = 0
                THEN WithoutBit(borrowing, u, d) ELSE borrowing
        /\ reserve' = IF receive THEN debtSide
                      ELSE CollateralReserveAfter(debtSide, c, o.collateral,
                               IF c = d THEN o.debt ELSE 0,
                               [vSupply EXCEPT ![d] = @ - o.burnt][c])
        /\ aBalance' = Credit(IF receive THEN Credit(afterUser, c, w, o.seized)
                                         ELSE afterUser, c, Treasury, o.feeScaled)
        /\ aSupply' = [aSupply EXCEPT ![c] = IF receive THEN @ ELSE @ - o.seized]
        /\ usingAsCollateral' =
              IF /\ receive /\ ATokenBalanceOf(w, c) = 0
                 /\ AutomaticUseAsCollateral(w, w, c)
                THEN WithBit(afterDrain, w, c) ELSE afterDrain
        /\ cash' = [[cash EXCEPT ![c] = @ - released] EXCEPT ![d] = @ + o.debt]
        /\ o.debt <= Credit(wallet, c, w, released)[d][w]
        /\ wallet' = Debit(Credit(wallet, c, w, released), d, w, o.debt)
        /\ UNCHANGED <<borrowAllowance, userEMode, adminVars, worldVars>>

(* Every liquidation call moves natural amounts, and never more than there *)
(* is.                                                                     *)
LEMMA LiquidationOutcome ==
    ASSUME TypeOK, NEW w \in Users, NEW u \in Users, NEW c \in Assets, NEW d \in Assets,
           NEW toCover \in Nat, NEW receive \in BOOLEAN,
           LiquidationCall(w, u, c, d, toCover, receive)
    PROVE  \E o \in LiquidationAmounts : LiquidationMoves(w, u, c, d, toCover, receive, o)
<1> DEFINE index == UpdatedReserve(d).variableBorrowIndex
           offered == DebtToLiquidate(u, d, toCover, index)
           out == AvailableCollateral(u, c, d, offered, ATokenBalanceOf(u, c))
           burnt == DebtBurnScaled(u, d, out.debt, index)
           seized == ATokenTransferScaled(out.collateral, NormalizedIncome(c))
           left == aBalance[c][u] - seized
           feeScaled == IF out.fee = 0 THEN 0
                        ELSE FeeScaled(out.fee, left, NormalizedIncome(c))
           m == VTokenBalance(vBalance[d][u], index)
                  - VTokenBalance(vBalance[d][u] - burnt, index)
           o == [offered |-> offered, debt |-> out.debt, burnt |-> burnt, repaid |-> m,
                 collateral |-> out.collateral, seized |-> seized, fee |-> out.fee,
                 feeScaled |-> feeScaled]
<1>1. /\ u \in Accounts /\ LedgersOK /\ index \in Nat \ {0}
      /\ NormalizedIncome(c) \in Nat \ {0}
      /\ aBalance[c][u] \in Nat /\ vBalance[d][u] \in Nat
  BY CallIndexes DEF TypeOK, LedgersOK, Accounts
<1>2. /\ w # u /\ config[c].active /\ config[d].active
      /\ c \in usingAsCollateral[u] /\ HealthFactor(u) < WAD
  BY DEF LiquidationCall, ValidLiquidationCall, ActiveAndNotPaused
<1>3. /\ config[c].liquidationProtocolFee # 0 => LiquidationBonus(u, c) # 0
      /\ Burnable(burnt, vBalance[d][u], vSupply[d]) /\ seized <= aBalance[c][u]
  BY DEF LiquidationCall
<1>4. ATokenBalanceOf(u, c) \in Nat /\ offered \in Nat
  BY <1>1, MultiplyTypes, DebtToLiquidateType DEF ATokenBalanceOf
<1>5. /\ out.collateral \in Nat /\ out.debt \in Nat /\ out.fee \in Nat
      /\ out = [collateral |-> out.collateral, debt |-> out.debt, fee |-> out.fee]
  <2> HIDE DEF offered
  <2>1. out.collateral \in Nat /\ out.debt \in Nat /\ out.fee \in Nat
    BY <1>1, <1>3, <1>4, AvailableCollateralTypes
  <2>2. out = [collateral |-> out.collateral, debt |-> out.debt, fee |-> out.fee]
    BY DEF AvailableCollateral
  <2>3. QED
    BY <2>1, <2>2
<1>6. /\ burnt \in Nat /\ burnt # 0 /\ burnt <= vBalance[d][u] /\ burnt <= vSupply[d]
      /\ burnt * index <= RAY * out.debt
  <2> HIDE DEF out, index
  <2>1. QED
    BY <1>1, <1>3, <1>5, BurnAmountType, DebtBurntIsPaid DEF Burnable
<1>7. m \in Nat
  <2> HIDE DEF burnt, index
  <2>1. QED
    BY <1>1, <1>6, RepaidIsNatural
<1>8. /\ seized \in Nat /\ left \in Nat /\ feeScaled \in Nat
      /\ seized + feeScaled <= aBalance[c][u]
  <2> HIDE DEF out
  <2>1. seized \in Nat
    BY <1>1, <1>5, DivideTypes
  <2> HIDE DEF seized
  <2>2. left \in Nat /\ aBalance[c][u] = seized + left
    BY <1>1, <1>3, <2>1
  <2> HIDE DEF left
  <2>3. feeScaled \in Nat /\ feeScaled <= left
    BY <1>1, <1>5, <2>2, FeeFits
  <2> HIDE DEF feeScaled
  <2>4. QED
    BY <2>1, <2>2, <2>3
<1>9. LiquidationMoves(w, u, c, d, toCover, receive, o)
  <2>0. /\ offered = DebtToLiquidate(u, d, toCover, index)
        /\ [collateral |-> out.collateral, debt |-> out.debt, fee |-> out.fee]
             = AvailableCollateral(u, c, d, offered, ATokenBalanceOf(u, c))
        /\ burnt = DebtBurnScaled(u, d, out.debt, index)
    BY <1>5
  <2>1. /\ ~receive => /\ Burnable(seized, aBalance[c][u], aSupply[c])
                   /\ out.collateral <= cash[c]
        /\ Credit(wallet, c, w, IF receive THEN 0 ELSE out.collateral)[d][w] >= out.debt
        /\ vBalance' = Debit(vBalance, d, u, burnt)
        /\ vSupply' = [vSupply EXCEPT ![d] = @ - burnt]
        /\ UNCHANGED <<borrowAllowance, userEMode, adminVars, worldVars>>
    BY DEF LiquidationCall
  <2>2. /\ borrowing' = IF VTokenBalance(vBalance[d][u] - burnt, index) = 0
                           THEN WithoutBit(borrowing, u, d) ELSE borrowing
        /\ aSupply' = [aSupply EXCEPT ![c] = IF receive THEN @ ELSE @ - seized]
        /\ cash' = [[cash EXCEPT ![c] = @ - (IF receive THEN 0 ELSE out.collateral)]
                           EXCEPT ![d] = @ + out.debt]
        /\ wallet' = Debit(Credit(wallet, c, w, IF receive THEN 0 ELSE out.collateral),
                           d, w, out.debt)
    BY DEF LiquidationCall
  <2>3. LET debtSide == WithIsolatedDebtRepaid(
                [reserve EXCEPT ![d] = WithRates(d, UpdatedReserve(d), vSupply[d] - burnt,
                                                 cash[d] + out.debt)], u, d, m)
        IN  reserve' = IF receive THEN debtSide
                       ELSE CollateralReserveAfter(debtSide, c, out.collateral,
                                IF c = d THEN out.debt ELSE 0,
                                [vSupply EXCEPT ![d] = @ - burnt][c])
    BY DEF LiquidationCall
  <2>4. LET afterUser == Debit(aBalance, c, u, seized + feeScaled)
        IN  aBalance' = Credit(IF receive THEN Credit(afterUser, c, w, seized)
                                          ELSE afterUser, c, Treasury, feeScaled)
    BY DEF LiquidationCall
  <2>5. LET afterDrain == IF \/ out.collateral + out.fee = ATokenBalanceOf(u, c)
                             \/ aBalance[c][u] - seized = feeScaled
                            THEN WithoutBit(usingAsCollateral, u, c)
                            ELSE usingAsCollateral
        IN  usingAsCollateral' =
              IF /\ receive /\ ATokenBalanceOf(w, c) = 0
                 /\ AutomaticUseAsCollateral(w, w, c)
                THEN WithBit(afterDrain, w, c) ELSE afterDrain
    BY DEF LiquidationCall
  <2> HIDE DEF out, burnt, m, offered
  <2>6. /\ o.offered = offered /\ o.debt = out.debt /\ o.burnt = burnt /\ o.repaid = m /\ o.fee = out.fee
        /\ o.collateral = out.collateral /\ o.seized = seized /\ o.feeScaled = feeScaled
    OBVIOUS
  <2> HIDE DEF o
  <2>7. QED
    BY <1>2, <1>6, <1>8, <2>0, <2>1, <2>2, <2>3, <2>4, <2>5, <2>6 DEF LiquidationMoves, Burnable
<1>10. QED
  <2> HIDE DEF out, burnt, seized, feeScaled, m, index
  <2>1. o \in LiquidationAmounts
    BY <1>4, <1>5, <1>6, <1>7, <1>8 DEF LiquidationAmounts
  <2> HIDE DEF o
  <2>2. QED
    BY <1>9, <2>1

-----------------------------------------------------------------------------
(* Borrowing bits and debts.                                               *)

(* One bit against one debt.                                               *)
BitMatchesDebt(u, a) == a \in borrowing[u] <=> vBalance[a][u] > 0

(* Burning part of a debt, and dropping the bit when the balance shown is  *)
(* zero, keeps bits and debts together: a debt shown as zero is zero.      *)
LEMMA BurnKeepsBits ==
    ASSUME TypeOK, BorrowingBitsMatchDebts, NEW u \in Accounts, NEW a \in Assets,
           NEW scaled \in Nat, scaled <= vBalance[a][u], NEW index \in Nat \ {0},
           vBalance' = Debit(vBalance, a, u, scaled),
           borrowing' = IF VTokenBalance(vBalance[a][u] - scaled, index) = 0
                          THEN WithoutBit(borrowing, u, a) ELSE borrowing
    PROVE  BorrowingBitsMatchDebts'
<1> DEFINE left == vBalance[a][u] - scaled
<1>1. /\ vBalance \in [Assets -> [Accounts -> Nat]]
      /\ borrowing \in [Accounts -> SUBSET Assets]
  BY DEF TypeOK, LedgersOK, AccountsOK
<1>2. left \in Nat /\ left <= vBalance[a][u] /\ vBalance[a][u] \in Nat
  BY <1>1
<1> HIDE DEF left
<1>3. borrowing' = IF left = 0 THEN WithoutBit(borrowing, u, a) ELSE borrowing
  BY <1>2, NoDebtIsHidden DEF left
<1>4. vBalance' = [vBalance EXCEPT ![a][u] = left]
  BY <1>1 DEF Debit, left
<1>5. SUFFICES ASSUME NEW v \in Accounts, NEW b \in Assets
               PROVE  BitMatchesDebt(v, b)'
  BY DEF BorrowingBitsMatchDebts, BitMatchesDebt
<1>6. BitMatchesDebt(v, b) /\ BitMatchesDebt(u, a)
  BY DEF BorrowingBitsMatchDebts, BitMatchesDebt
<1>7. CASE v = u /\ b = a
  <2>1. vBalance'[b][v] = left
    BY <1>1, <1>4, <1>7
  <2>2. b \in borrowing'[v] <=> (left # 0 /\ a \in borrowing[u])
    BY <1>1, <1>3, <1>7 DEF WithoutBit
  <2>3. left # 0 => vBalance[a][u] > 0
    BY <1>2
  <2>4. QED
    BY <1>2, <1>6, <2>1, <2>2, <2>3 DEF BitMatchesDebt
<1>8. CASE ~(v = u /\ b = a)
  <2>1. vBalance'[b][v] = vBalance[b][v]
    BY <1>1, <1>4, <1>8
  <2>2. b \in borrowing'[v] <=> b \in borrowing[v]
    BY <1>1, <1>3, <1>8 DEF WithoutBit
  <2>3. QED
    BY <1>6, <2>1, <2>2 DEF BitMatchesDebt
<1>9. QED
  BY <1>7, <1>8

(* A borrow mints at least one scaled unit and sets the bit.               *)
LEMMA ExecuteBorrowKeepsBits ==
    ASSUME TypeOK, BorrowingBitsMatchDebts, NEW caller \in Users, NEW v \in Users,
           NEW a \in Assets, NEW amount \in Nat, NEW released,
           ExecuteBorrow(caller, a, amount, v, released)
    PROVE  BorrowingBitsMatchDebts'
<1> DEFINE scaled == VTokenMintScaled(amount, UpdatedReserve(a).variableBorrowIndex)
<1>1. /\ vBalance \in [Assets -> [Accounts -> Nat]] /\ v \in Accounts
      /\ borrowing \in [Accounts -> SUBSET Assets]
  BY DEF TypeOK, LedgersOK, AccountsOK, Accounts
<1>2. amount # 0
  BY DEF ExecuteBorrow, ValidBorrow
<1>3. UpdatedReserve(a).variableBorrowIndex \in Nat \ {0}
  BY CallIndexes
<1>4. scaled \in Nat /\ scaled > 0
  BY <1>2, <1>3, DivideTypes, BorrowMintsDebt
<1>5. vBalance' = Credit(vBalance, a, v, scaled) /\ borrowing' = WithBit(borrowing, v, a)
  BY DEF ExecuteBorrow
<1> HIDE DEF scaled
<1>6. SUFFICES ASSUME NEW w \in Accounts, NEW b \in Assets
               PROVE  BitMatchesDebt(w, b)'
  BY DEF BorrowingBitsMatchDebts, BitMatchesDebt
<1>7. BitMatchesDebt(w, b)
  BY DEF BorrowingBitsMatchDebts, BitMatchesDebt
<1>8. CASE w = v /\ b = a
  <2>1. vBalance'[b][w] = vBalance[a][v] + scaled /\ vBalance[a][v] \in Nat
    BY <1>1, <1>5, <1>8 DEF Credit
  <2>2. b \in borrowing'[w]
    BY <1>1, <1>5, <1>8 DEF WithBit
  <2>3. QED
    BY <1>4, <2>1, <2>2 DEF BitMatchesDebt
<1>9. CASE ~(w = v /\ b = a)
  <2>1. vBalance'[b][w] = vBalance[b][w]
    BY <1>1, <1>5, <1>9 DEF Credit
  <2>2. b \in borrowing'[w] <=> b \in borrowing[w]
    BY <1>1, <1>5, <1>9 DEF WithBit
  <2>3. QED
    BY <1>7, <2>1, <2>2 DEF BitMatchesDebt
<1>10. QED
  BY <1>8, <1>9

LEMMA BorrowKeepsBits ==
    ASSUME TypeOK, BorrowingBitsMatchDebts, NEW caller \in Users, NEW v \in Users,
           NEW a \in Assets, NEW amount \in Nat, Borrow(caller, a, amount, v)
    PROVE  BorrowingBitsMatchDebts'
BY ExecuteBorrowKeepsBits DEF Borrow

(* Both repayments and liquidation burn debt in this way; no other call    *)
(* touches a debt or a borrowing bit.                                      *)
LEMMA NextKeepsBits ==
    ASSUME TypeOK, BorrowingBitsMatchDebts, [Next]_vars
    PROVE  BorrowingBitsMatchDebts'
<1> USE DEF adminVars, ledgerVars, bitVars, worldVars
<1>0. Users \subseteq Accounts
  BY DEF Accounts
<1>1. CASE UNCHANGED <<vBalance, borrowing>>
  BY <1>1 DEF BorrowingBitsMatchDebts
<1>2. CASE UserStep
  <2>1. PICK u \in Users : \E v \in Beneficiaries[u], a \in Assets :
            \/ \E n \in CallChoices[u].supply : Supply(u, a, n, v)
            \/ \E n \in CallChoices[u].withdraw : Withdraw(u, a, n, v)
            \/ \E n \in CallChoices[u].transfer : Transfer(u, a, n, v)
            \/ \E n \in CallChoices[u].borrow : Borrow(u, a, n, v)
            \/ \E n \in CallChoices[u].repay : Repay(u, a, n, v)
            \/ \E n \in CallChoices[u].delegate : ApproveDelegation(u, a, v, n)
    BY <1>2 DEF UserStep
  <2>2. PICK v \in Users, a \in Assets, n \in Nat :
            \/ Supply(u, a, n, v) \/ Withdraw(u, a, n, v) \/ Transfer(u, a, n, v)
            \/ Borrow(u, a, n, v) \/ Repay(u, a, n, v) \/ ApproveDelegation(u, a, v, n)
    BY <2>1, PoolAssumption
  <2>3. CASE Borrow(u, a, n, v)
    BY <2>3, BorrowKeepsBits
  <2>4. CASE Repay(u, a, n, v)
    <3> DEFINE r == UpdatedReserve(a)
               payback == IF n < VTokenBalance(vBalance[a][v], r.variableBorrowIndex)
                            THEN n ELSE VTokenBalance(vBalance[a][v], r.variableBorrowIndex)
               scaled == DebtBurnScaled(v, a, payback, r.variableBorrowIndex)
    <3>1. v \in Accounts /\ LedgersOK /\ r.variableBorrowIndex \in Nat \ {0}
      BY <1>0, CallIndexes DEF TypeOK
    <3>2. BurnDebt(v, a, r, scaled, payback)
      BY <2>4 DEF Repay
    <3>3. payback \in Nat
      <4>1. vBalance[a][v] \in Nat
        BY <3>1 DEF LedgersOK
      <4> HIDE DEF r
      <4>2. QED
        BY <3>1, <4>1, MultiplyTypes
    <3>4. scaled \in Nat
      <4> HIDE DEF r, payback
      <4>1. QED
        BY <3>1, <3>3, BurnAmountType
    <3> HIDE DEF scaled, payback, r
    <3>5. QED
      BY <3>1, <3>2, <3>4, BurnKeepsBits DEF BurnDebt, Burnable
  <2>5. CASE \/ Supply(u, a, n, v) \/ Withdraw(u, a, n, v) \/ Transfer(u, a, n, v)
             \/ ApproveDelegation(u, a, v, n)
    BY <1>1, <2>5 DEF Supply, Withdraw, Transfer, ApproveDelegation
  <2>6. QED
    BY <2>2, <2>3, <2>4, <2>5
<1>3. CASE OwnStep
  <2>1. PICK u \in Users, a \in Assets :
            \/ \E n \in CallChoices[u].repayWithATokens : RepayWithATokens(u, a, n)
            \/ \E b \in CallChoices[u].useAsCollateral :
                  SetUserUseReserveAsCollateral(u, a, b)
    BY <1>3 DEF OwnStep
  <2>2. CASE \E n \in CallChoices[u].repayWithATokens : RepayWithATokens(u, a, n)
    <3>0. PICK n \in Nat : RepayWithATokens(u, a, n)
      BY <2>2, PoolAssumption
    <3> DEFINE r == UpdatedReserve(a)
               debt == VTokenBalance(vBalance[a][u], r.variableBorrowIndex)
               held == ATokenBalance(aBalance[a][u], r.liquidityIndex)
               offered == IF n = MAX_UINT \/ n > held THEN held ELSE n
               payback == IF offered < debt THEN offered ELSE debt
               scaled == DebtBurnScaled(u, a, payback, r.variableBorrowIndex)
    <3>1. /\ u \in Accounts /\ LedgersOK
          /\ r.variableBorrowIndex \in Nat \ {0} /\ r.liquidityIndex \in Nat
      BY <1>0, CallIndexes DEF TypeOK
    <3>2. BurnDebt(u, a, r, scaled, 0)
      BY <3>0 DEF RepayWithATokens
    <3>3. payback \in Nat
      <4>1. vBalance[a][u] \in Nat /\ aBalance[a][u] \in Nat
        BY <3>1 DEF LedgersOK
      <4> HIDE DEF r
      <4>2. debt \in Nat /\ held \in Nat
        BY <3>1, <4>1, MultiplyTypes
      <4> HIDE DEF debt, held
      <4>3. QED
        BY <4>2
    <3>4. scaled \in Nat
      <4> HIDE DEF r, payback
      <4>1. QED
        BY <3>1, <3>3, BurnAmountType
    <3> HIDE DEF scaled, payback, r
    <3>5. QED
      BY <3>1, <3>2, <3>4, BurnKeepsBits DEF BurnDebt, Burnable
  <2>3. CASE \E b \in CallChoices[u].useAsCollateral : SetUserUseReserveAsCollateral(u, a, b)
    BY <1>1, <2>3 DEF SetUserUseReserveAsCollateral
  <2>4. QED
    BY <2>1, <2>2, <2>3
<1>4. CASE Liquidate
  <2>1. PICK w \in Users, u \in Users, c \in Assets, d \in Assets, n \in Nat,
             b \in BOOLEAN : LiquidationCall(w, u, c, d, n, b)
    BY <1>4, PoolAssumption DEF Liquidate
  <2> DEFINE index == UpdatedReserve(d).variableBorrowIndex
             out == AvailableCollateral(u, c, d, DebtToLiquidate(u, d, n, index),
                                        ATokenBalanceOf(u, c))
             burnt == DebtBurnScaled(u, d, out.debt, index)
  <2>2. /\ burnt <= vBalance[d][u]
        /\ vBalance' = Debit(vBalance, d, u, burnt)
        /\ borrowing' = IF VTokenBalance(vBalance[d][u] - burnt, index) = 0
                          THEN WithoutBit(borrowing, u, d) ELSE borrowing
        /\ config[c].liquidationProtocolFee # 0 => LiquidationBonus(u, c) # 0
    BY <2>1 DEF LiquidationCall, Burnable
  <2>3. index \in Nat \ {0} /\ u \in Accounts /\ LedgersOK
    BY <1>0, CallIndexes DEF TypeOK
  <2> HIDE DEF index
  <2>4. burnt \in Nat
    <3>1. aBalance[c][u] \in Nat /\ NormalizedIncome(c) \in Nat
      BY <2>3, CallIndexes DEF LedgersOK
    <3>2. ATokenBalanceOf(u, c) \in Nat
      BY <3>1, MultiplyTypes DEF ATokenBalanceOf
    <3>3. DebtToLiquidate(u, d, n, index) \in Nat
      BY <2>3, DebtToLiquidateType
    <3>4. out.debt \in Nat
      BY <2>2, <2>3, <3>2, <3>3, AvailableCollateralTypes
    <3> HIDE DEF out
    <3>5. QED
      BY <2>3, <3>4, BurnAmountType
  <2> HIDE DEF burnt
  <2>5. QED
    BY <2>2, <2>3, <2>4, BurnKeepsBits
<1>5. CASE \/ \E a \in Assets : MintToTreasury(a)
           \/ \E u \in Users, c \in Categories \cup {0} : SetUserEMode(u, c)
           \/ \E b \in AdminChoices.poolPaused : SetPoolPause(b)
           \/ \E c \in Categories, p \in AdminChoices.eMode : SetEModeCategory(c, p)
           \/ \E f \in Feeds : \E p \in PriceChoices[f] : SetPrice(f, p)
           \/ Tick
           \/ UNCHANGED vars
  BY <1>1, <1>5 DEF MintToTreasury, SetUserEMode, SetPoolPause, SetEModeCategory,
                    SetPrice, Tick, vars
<1>6. CASE AdminStep
  BY <1>1, <1>6 DEF AdminStep, SetReserveActive, SetReservePause, SetReserveFreeze,
      SetReserveBorrowing, SetSupplyCap, SetBorrowCap, SetSiloedBorrowing, SetDebtCeiling,
      SetReserveFactor, ConfigureReserveAsCollateral, SetLiquidationProtocolFee,
      SetBorrowableInIsolation, SetAssetEModeCategory, SetConfiguration
<1>7. QED
  BY <1>2, <1>3, <1>4, <1>5, <1>6 DEF Next, UserCall, WorldStep

(* In every reachable state the borrowing bits of a user are exactly the   *)
(* assets the user owes, at every index and for every rounding: validate   *)
(* and account-data code that walks the bitmap misses no debt.             *)
THEOREM BitsAreDebts == Spec => []BorrowingBitsMatchDebts
<1>1. Init => BorrowingBitsMatchDebts
  BY DEF Init, BorrowingBitsMatchDebts
<1>2. TypeOK /\ BorrowingBitsMatchDebts /\ [Next]_vars => BorrowingBitsMatchDebts'
  BY NextKeepsBits
<1>3. QED
  BY <1>1, <1>2, TypeCorrect, PTL DEF Spec

-----------------------------------------------------------------------------
(* Inactive reserves.                                                      *)

(* A call that moves the supply of an active reserve says nothing against  *)
(* an inactive reserve without supply.                                     *)
LEMMA ActiveSupplyMoves ==
    ASSUME TypeOK, InactiveReserveHasNoSupply, NEW a \in Assets, NEW supply,
           aSupply' = [aSupply EXCEPT ![a] = supply],
           config[a].active, UNCHANGED config
    PROVE  InactiveReserveHasNoSupply'
BY DEF TypeOK, LedgersOK, InactiveReserveHasNoSupply

(* Calls of users mint and burn aTokens in active reserves only.           *)
LEMMA UserCallsKeepInactiveEmpty ==
    ASSUME TypeOK, InactiveReserveHasNoSupply, UserStep \/ OwnStep \/ Liquidate
    PROVE  InactiveReserveHasNoSupply'
<1> USE DEF adminVars, ledgerVars, bitVars, worldVars
<1>1. CASE UNCHANGED <<aSupply, config>>
  BY <1>1 DEF InactiveReserveHasNoSupply
<1>3. CASE UserStep
  <2>1. PICK u \in Users : \E v \in Beneficiaries[u], a \in Assets :
            \/ \E n \in CallChoices[u].supply : Supply(u, a, n, v)
            \/ \E n \in CallChoices[u].withdraw : Withdraw(u, a, n, v)
            \/ \E n \in CallChoices[u].transfer : Transfer(u, a, n, v)
            \/ \E n \in CallChoices[u].borrow : Borrow(u, a, n, v)
            \/ \E n \in CallChoices[u].repay : Repay(u, a, n, v)
            \/ \E n \in CallChoices[u].delegate : ApproveDelegation(u, a, v, n)
    BY <1>3 DEF UserStep
  <2>2. PICK v \in Users, a \in Assets, n \in Nat :
            \/ Supply(u, a, n, v) \/ Withdraw(u, a, n, v) \/ Transfer(u, a, n, v)
            \/ Borrow(u, a, n, v) \/ Repay(u, a, n, v) \/ ApproveDelegation(u, a, v, n)
    BY <2>1, PoolAssumption
  <2>3. CASE Supply(u, a, n, v)
    <3>1. config[a].active /\ UNCHANGED config
      BY <2>3 DEF Supply, ValidSupply, ActiveAndNotPaused
    <3>2. aSupply' = [aSupply EXCEPT ![a] = @ + ATokenMintScaled(n,
                                        UpdatedReserve(a).liquidityIndex)]
      BY <2>3 DEF Supply
    <3>3. QED
      BY <3>1, <3>2, ActiveSupplyMoves
  <2>4. CASE Withdraw(u, a, n, v)
    <3>1. config[a].active /\ UNCHANGED config
      BY <2>4 DEF Withdraw, ActiveAndNotPaused
    <3>2. PICK scaled : aSupply' = [aSupply EXCEPT ![a] = @ - scaled]
      BY <2>4 DEF Withdraw
    <3>3. QED
      BY <3>1, <3>2, ActiveSupplyMoves
  <2>5. CASE Transfer(u, a, n, v) \/ Borrow(u, a, n, v) \/ Repay(u, a, n, v)
             \/ ApproveDelegation(u, a, v, n)
    BY <1>1, <2>5 DEF Transfer, Borrow, ExecuteBorrow, Repay,
                       ApproveDelegation
  <2>6. QED
    BY <2>2, <2>3, <2>4, <2>5
<1>4. CASE OwnStep
  <2>1. PICK u \in Users, a \in Assets :
            \/ \E n \in CallChoices[u].repayWithATokens : RepayWithATokens(u, a, n)
            \/ \E b \in CallChoices[u].useAsCollateral :
                  SetUserUseReserveAsCollateral(u, a, b)
    BY <1>4 DEF OwnStep
  <2>2. CASE \E n \in CallChoices[u].repayWithATokens : RepayWithATokens(u, a, n)
    <3>1. PICK n \in CallChoices[u].repayWithATokens : RepayWithATokens(u, a, n)
      BY <2>2
    <3>2. config[a].active /\ UNCHANGED config
      BY <3>1 DEF RepayWithATokens, ActiveAndNotPaused
    <3>3. PICK scaled : aSupply' = [aSupply EXCEPT ![a] = @ - scaled]
      BY <3>1 DEF RepayWithATokens
    <3>4. QED
      BY <3>2, <3>3, ActiveSupplyMoves
  <2>3. CASE \E b \in CallChoices[u].useAsCollateral : SetUserUseReserveAsCollateral(u, a, b)
    BY <1>1, <2>3 DEF SetUserUseReserveAsCollateral
  <2>4. QED
    BY <2>1, <2>2, <2>3
<1>5. CASE Liquidate
  <2>1. PICK w \in Users, u \in Users, c \in Assets, d \in Assets, n \in Nat,
             b \in BOOLEAN : LiquidationCall(w, u, c, d, n, b)
    BY <1>5, PoolAssumption DEF Liquidate
  <2>2. config[c].active /\ UNCHANGED config
    BY <2>1 DEF LiquidationCall, ValidLiquidationCall, ActiveAndNotPaused
  <2>3. PICK supply : aSupply' = [aSupply EXCEPT ![c] = supply]
    BY <2>1 DEF LiquidationCall
  <2>4. QED
    BY <2>2, <2>3, ActiveSupplyMoves
<1>6. QED
  BY <1>3, <1>4, <1>5

(* A configuration that keeps the active flag of every reserve changes     *)
(* nothing about inactive reserves.                                        *)
LEMMA SameActiveFlags ==
    ASSUME InactiveReserveHasNoSupply, UNCHANGED aSupply,
           \A a \in Assets : config'[a].active = config[a].active
    PROVE  InactiveReserveHasNoSupply'
BY DEF InactiveReserveHasNoSupply

(* The configurator deactivates only reserves whose aTokens are worth      *)
(* nothing, and no scaled unit is worth nothing.                           *)
LEMMA AdminKeepsInactiveEmpty ==
    ASSUME TypeOK, InactiveReserveHasNoSupply, AdminStep
    PROVE  InactiveReserveHasNoSupply'
<1> USE DEF ledgerVars
<1>1. PICK a \in Assets :
        \/ \E b \in AdminChoices.active : SetReserveActive(a, b)
        \/ \E b \in AdminChoices.paused : SetReservePause(a, b)
        \/ \E b \in AdminChoices.frozen : SetReserveFreeze(a, b)
        \/ \E b \in AdminChoices.borrowing : SetReserveBorrowing(a, b)
        \/ \E n \in AdminChoices.supplyCap : SetSupplyCap(a, n)
        \/ \E n \in AdminChoices.borrowCap : SetBorrowCap(a, n)
        \/ \E b \in AdminChoices.siloed : SetSiloedBorrowing(a, b)
        \/ \E n \in AdminChoices.debtCeiling : SetDebtCeiling(a, n)
        \/ \E n \in AdminChoices.reserveFactor : SetReserveFactor(a, n)
        \/ \E p \in AdminChoices.collateral : ConfigureReserveAsCollateral(a, p)
        \/ \E n \in AdminChoices.protocolFee : SetLiquidationProtocolFee(a, n)
        \/ \E b \in AdminChoices.isolated : SetBorrowableInIsolation(a, b)
        \/ \E c \in AdminChoices.category : SetAssetEModeCategory(a, c)
  BY PoolAssumption DEF AdminStep
<1>2. /\ config \in [Assets -> ReserveConfiguration]
      /\ config[a] \in ReserveConfiguration
      /\ aSupply \in [Assets -> Nat]
  BY DEF TypeOK, SettingsOK, LedgersOK
<1>3. ASSUME NEW c, c.active = config[a].active, SetConfiguration(a, c)
      PROVE  InactiveReserveHasNoSupply'
  <2>1. config' = [config EXCEPT ![a] = c] /\ UNCHANGED aSupply
    BY <1>3 DEF SetConfiguration
  <2>2. \A b \in Assets : config'[b].active = config[b].active
    BY <1>2, <1>3, <2>1
  <2>3. QED
    BY <2>1, <2>2, SameActiveFlags
<1>4. CASE \E b \in AdminChoices.active : SetReserveActive(a, b)
  <2>1. PICK b \in BOOLEAN : SetReserveActive(a, b)
    BY <1>4, PoolAssumption
  <2>2. config' = [config EXCEPT ![a] = [config[a] EXCEPT !.active = b]]
        /\ UNCHANGED aSupply
    BY <2>1 DEF SetReserveActive, SetConfiguration
  <2>3. \A c \in Assets : c # a => config'[c] = config[c]
    BY <1>2, <2>2
  <2>4. config'[a].active = b
    BY <1>2, <2>2 DEF ReserveConfiguration
  <2>5. ~b => aSupply[a] = 0
    <3>1. ~b => ATokenBalance(aSupply[a], NormalizedIncome(a)) = 0
      BY <2>1 DEF SetReserveActive, NoSuppliers
    <3>2. NormalizedIncome(a) \in Nat /\ NormalizedIncome(a) >= RAY /\ aSupply[a] \in Nat
      BY <1>2, CallIndexes
    <3>3. ATokenBalance(aSupply[a], NormalizedIncome(a)) >= aSupply[a]
      BY <3>2, WorthAtLeastScaled
    <3>4. QED
      BY <3>1, <3>2, <3>3
  <2>6. QED
    BY <2>2, <2>3, <2>4, <2>5 DEF InactiveReserveHasNoSupply
<1>5. CASE \/ \E b \in AdminChoices.paused : SetReservePause(a, b)
           \/ \E b \in AdminChoices.frozen : SetReserveFreeze(a, b)
           \/ \E b \in AdminChoices.borrowing : SetReserveBorrowing(a, b)
           \/ \E n \in AdminChoices.supplyCap : SetSupplyCap(a, n)
           \/ \E n \in AdminChoices.borrowCap : SetBorrowCap(a, n)
           \/ \E b \in AdminChoices.siloed : SetSiloedBorrowing(a, b)
           \/ \E n \in AdminChoices.debtCeiling : SetDebtCeiling(a, n)
           \/ \E n \in AdminChoices.reserveFactor : SetReserveFactor(a, n)
           \/ \E n \in AdminChoices.protocolFee : SetLiquidationProtocolFee(a, n)
           \/ \E b \in AdminChoices.isolated : SetBorrowableInIsolation(a, b)
           \/ \E c \in AdminChoices.category : SetAssetEModeCategory(a, c)
  <2>1. \E v : \/ SetConfiguration(a, [config[a] EXCEPT !.paused = v])
               \/ SetConfiguration(a, [config[a] EXCEPT !.frozen = v])
               \/ SetConfiguration(a, [config[a] EXCEPT !.borrowingEnabled = v])
               \/ SetConfiguration(a, [config[a] EXCEPT !.supplyCap = v])
               \/ SetConfiguration(a, [config[a] EXCEPT !.borrowCap = v])
               \/ SetConfiguration(a, [config[a] EXCEPT !.siloedBorrowing = v])
               \/ SetConfiguration(a, [config[a] EXCEPT !.debtCeiling = v])
               \/ SetConfiguration(a, [config[a] EXCEPT !.reserveFactor = v])
               \/ SetConfiguration(a, [config[a] EXCEPT !.liquidationProtocolFee = v])
               \/ SetConfiguration(a, [config[a] EXCEPT !.borrowableInIsolation = v])
               \/ SetConfiguration(a, [config[a] EXCEPT !.eModeCategory = v])
    BY <1>5 DEF SetReservePause, SetReserveFreeze, SetReserveBorrowing, SetSupplyCap,
        SetBorrowCap, SetSiloedBorrowing, SetDebtCeiling, SetReserveFactor,
        SetLiquidationProtocolFee, SetBorrowableInIsolation, SetAssetEModeCategory
  <2>2. PICK c : c.active = config[a].active /\ SetConfiguration(a, c)
    BY <1>2, <2>1 DEF ReserveConfiguration
  <2>3. QED
    BY <1>3, <2>2
<1>6. CASE \E p \in AdminChoices.collateral : ConfigureReserveAsCollateral(a, p)
  <2>1. PICK p : SetConfiguration(a, [config[a] EXCEPT !.ltv = p.ltv,
                             !.liquidationThreshold = p.liquidationThreshold,
                             !.liquidationBonus = p.liquidationBonus])
    BY <1>6 DEF ConfigureReserveAsCollateral
  <2>2. PICK c : c.active = config[a].active /\ SetConfiguration(a, c)
    BY <1>2, <2>1 DEF ReserveConfiguration
  <2>3. QED
    BY <1>3, <2>2
<1>7. QED
  BY <1>1, <1>4, <1>5, <1>6

(* Every step keeps inactive reserves empty.                               *)
LEMMA NextKeepsInactiveEmpty ==
    ASSUME TypeOK, InactiveReserveHasNoSupply, [Next]_vars
    PROVE  InactiveReserveHasNoSupply'
<1> USE DEF adminVars, ledgerVars, bitVars, worldVars
<1>1. CASE \E a \in Assets : MintToTreasury(a)
  <2>1. PICK a \in Assets : MintToTreasury(a)
    BY <1>1
  <2>2. config[a].active /\ UNCHANGED config
    BY <2>1 DEF MintToTreasury
  <2>3. PICK supply : aSupply' = [aSupply EXCEPT ![a] = supply]
    BY <2>1 DEF MintToTreasury
  <2>4. QED
    BY <2>2, <2>3, ActiveSupplyMoves
<1>2. CASE \E b \in AdminChoices.poolPaused : SetPoolPause(b)
  <2>1. PICK b : SetPoolPause(b)
    BY <1>2
  <2>2. \A a \in Assets : config'[a].active = config[a].active
    BY <2>1 DEF SetPoolPause, TypeOK, SettingsOK, ReserveConfiguration
  <2>3. QED
    BY <2>1, <2>2, SameActiveFlags DEF SetPoolPause
<1>3. CASE \/ \E u \in Users, c \in Categories \cup {0} : SetUserEMode(u, c)
           \/ \E c \in Categories, p \in AdminChoices.eMode : SetEModeCategory(c, p)
           \/ \E f \in Feeds : \E p \in PriceChoices[f] : SetPrice(f, p)
           \/ Tick
           \/ UNCHANGED vars
  <2>1. UNCHANGED <<config, aSupply>>
    BY <1>3 DEF SetUserEMode, SetEModeCategory, SetPrice, Tick, vars
  <2>2. QED
    BY <2>1, SameActiveFlags
<1>4. QED
  BY <1>1, <1>2, <1>3, UserCallsKeepInactiveEmpty, AdminKeepsInactiveEmpty DEF Next, UserCall, WorldStep

(* In every reachable state nobody holds aTokens of an inactive reserve:   *)
(* the admins can only switch off a reserve nobody has funds in, and no    *)
(* call mints in it afterwards, although mintToTreasury is open to anyone. *)
THEOREM InactiveReservesAreEmpty == Spec => []InactiveReserveHasNoSupply
<1>1. Init => InactiveReserveHasNoSupply
  BY DEF Init, InactiveReserveHasNoSupply
<1>2. TypeOK /\ InactiveReserveHasNoSupply /\ [Next]_vars => InactiveReserveHasNoSupply'
  BY NextKeepsInactiveEmpty
<1>3. QED
  BY <1>1, <1>2, TypeCorrect, PTL DEF Spec

-----------------------------------------------------------------------------
(* What a step may do to the accounts.                                     *)

(* The calls that move what accounts hold and owe; the admins, the oracle  *)
(* and time touch none of it.                                              *)
LEMMA StepCases ==
    ASSUME [Next]_vars
    PROVE  \/ \E u \in Users, v \in Users, a \in Assets, n \in Nat :
                 \/ Supply(u, a, n, v) \/ Withdraw(u, a, n, v) \/ Transfer(u, a, n, v)
                 \/ Borrow(u, a, n, v) \/ Repay(u, a, n, v) \/ RepayWithATokens(u, a, n)
                 \/ ApproveDelegation(u, a, v, n)
           \/ \E u \in Users, a \in Assets, b \in BOOLEAN :
                 SetUserUseReserveAsCollateral(u, a, b)
           \/ \E w \in Users, u \in Users, c \in Assets, d \in Assets, n \in Nat,
                 b \in BOOLEAN : LiquidationCall(w, u, c, d, n, b)
           \/ \E a \in Assets : MintToTreasury(a)
           \/ \E u \in Users, c \in Categories \cup {0} : SetUserEMode(u, c)
           \/ UNCHANGED <<ledgerVars, borrowAllowance, bitVars, userEMode>>
<1>1. CASE UserStep
  <2>1. PICK u \in Users : \E v \in Beneficiaries[u], a \in Assets :
            \/ \E n \in CallChoices[u].supply : Supply(u, a, n, v)
            \/ \E n \in CallChoices[u].withdraw : Withdraw(u, a, n, v)
            \/ \E n \in CallChoices[u].transfer : Transfer(u, a, n, v)
            \/ \E n \in CallChoices[u].borrow : Borrow(u, a, n, v)
            \/ \E n \in CallChoices[u].repay : Repay(u, a, n, v)
            \/ \E n \in CallChoices[u].delegate : ApproveDelegation(u, a, v, n)
    BY <1>1 DEF UserStep
  <2>2. PICK v \in Users, a \in Assets, n \in Nat :
            \/ Supply(u, a, n, v) \/ Withdraw(u, a, n, v) \/ Transfer(u, a, n, v)
            \/ Borrow(u, a, n, v) \/ Repay(u, a, n, v) \/ ApproveDelegation(u, a, v, n)
    BY <2>1, PoolAssumption
  <2>3. QED
    BY <2>2
<1>2. CASE OwnStep
  <2>1. PICK u \in Users, a \in Assets :
            \/ \E n \in CallChoices[u].repayWithATokens : RepayWithATokens(u, a, n)
            \/ \E b \in CallChoices[u].useAsCollateral :
                  SetUserUseReserveAsCollateral(u, a, b)
    BY <1>2 DEF OwnStep
  <2>2. \/ \E n \in Nat : RepayWithATokens(u, a, n)
        \/ \E b \in BOOLEAN : SetUserUseReserveAsCollateral(u, a, b)
    BY <2>1, PoolAssumption
  <2>3. QED
    BY <2>2
<1>3. CASE Liquidate
  <2>1. PICK w \in Users, u \in Users, c \in Assets, d \in Assets, n \in Nat,
             b \in BOOLEAN : LiquidationCall(w, u, c, d, n, b)
    BY <1>3, PoolAssumption DEF Liquidate
  <2>2. QED
    BY <2>1
<1>4. CASE AdminStep
  BY <1>4 DEF AdminStep, SetReserveActive, SetReservePause, SetReserveFreeze,
      SetReserveBorrowing, SetSupplyCap, SetBorrowCap, SetSiloedBorrowing, SetDebtCeiling,
      SetReserveFactor, ConfigureReserveAsCollateral, SetLiquidationProtocolFee,
      SetBorrowableInIsolation, SetAssetEModeCategory, SetConfiguration
<1>5. CASE \/ \E b \in AdminChoices.poolPaused : SetPoolPause(b)
           \/ \E c \in Categories, p \in AdminChoices.eMode : SetEModeCategory(c, p)
           \/ \E f \in Feeds : \E p \in PriceChoices[f] : SetPrice(f, p)
           \/ Tick
           \/ UNCHANGED vars
  BY <1>5 DEF SetPoolPause, SetEModeCategory, SetPrice, Tick, vars
<1>6. QED
  BY <1>1, <1>2, <1>3, <1>4, <1>5 DEF Next, UserCall, WorldStep

-----------------------------------------------------------------------------
(* Credit delegation.                                                      *)

(* A step that shrinks debts, and borrowing bits with them.                *)
DebtsShrink ==
    /\ \A a \in Assets : \A u \in Accounts : vBalance'[a][u] <= vBalance[a][u]
    /\ \A u \in Accounts : borrowing'[u] \subseteq borrowing[u]

LEMMA BurnShrinksDebts ==
    ASSUME LedgersOK, AccountsOK, NEW u \in Accounts, NEW a \in Assets, NEW scaled \in Nat,
           vBalance' = Debit(vBalance, a, u, scaled), NEW e,
           borrowing' = IF e THEN WithoutBit(borrowing, u, a) ELSE borrowing
    PROVE  DebtsShrink
<1>1. vBalance \in [Assets -> [Accounts -> Nat]] /\ borrowing \in [Accounts -> SUBSET Assets]
  BY DEF LedgersOK, AccountsOK
<1>2. ASSUME NEW b \in Assets, NEW v \in Accounts
      PROVE  vBalance'[b][v] <= vBalance[b][v]
  <2>1. vBalance[b][v] \in Nat
    BY <1>1
  <2>2. CASE b = a /\ v = u
    <3>1. vBalance'[b][v] = vBalance[b][v] - scaled
      BY <1>1, <2>2 DEF Debit
    <3>2. QED
      BY <2>1, <3>1
  <2>3. CASE ~(b = a /\ v = u)
    <3>1. vBalance'[b][v] = vBalance[b][v]
      BY <1>1, <2>3 DEF Debit
    <3>2. QED
      BY <2>1, <3>1
  <2>4. QED
    BY <2>2, <2>3
<1>3. \A v \in Accounts : borrowing'[v] \subseteq borrowing[v]
  BY <1>1 DEF WithoutBit
<1>4. QED
  BY <1>2, <1>3 DEF DebtsShrink

(* Only a borrow makes a debt grow or sets a borrowing bit.                *)
LEMMA OnlyBorrowsAddDebt ==
    ASSUME TypeOK, [Next]_vars
    PROVE  \/ DebtsShrink
           \/ \E u \in Users, v \in Users, a \in Assets, n \in Nat : Borrow(u, a, n, v)
<1>1. LedgersOK /\ AccountsOK /\ Users \subseteq Accounts
  BY DEF TypeOK, Accounts
<1>2. ASSUME UNCHANGED <<vBalance, borrowing>>
      PROVE  DebtsShrink
  <2>1. \A a \in Assets : \A u \in Accounts : vBalance[a][u] \in Nat
    BY <1>1 DEF LedgersOK
  <2>2. QED
    BY <1>2, <2>1 DEF DebtsShrink
<1>3. ASSUME NEW u \in Users, NEW v \in Users, NEW a \in Assets, NEW n \in Nat,
             Repay(u, a, n, v)
      PROVE  DebtsShrink
  <2> DEFINE r == UpdatedReserve(a)
             debt == VTokenBalance(vBalance[a][v], r.variableBorrowIndex)
             payback == IF n < debt THEN n ELSE debt
             scaled == DebtBurnScaled(v, a, payback, r.variableBorrowIndex)
  <2>1. BurnDebt(v, a, r, scaled, payback)
    BY <1>3 DEF Repay
  <2>2. r.variableBorrowIndex \in Nat \ {0} /\ vBalance[a][v] \in Nat
    BY <1>1, CallIndexes DEF LedgersOK
  <2> HIDE DEF r
  <2>3. payback \in Nat
    BY <2>2, MultiplyTypes
  <2> HIDE DEF payback
  <2>4. scaled \in Nat
    BY <1>1, <2>2, <2>3, BurnAmountType
  <2> HIDE DEF scaled
  <2>5. QED
    BY <1>1, <2>1, <2>4, BurnShrinksDebts DEF BurnDebt
<1>4. ASSUME NEW u \in Users, NEW a \in Assets, NEW n \in Nat, RepayWithATokens(u, a, n)
      PROVE  DebtsShrink
  <2> DEFINE r == UpdatedReserve(a)
             debt == VTokenBalance(vBalance[a][u], r.variableBorrowIndex)
             held == ATokenBalance(aBalance[a][u], r.liquidityIndex)
             offered == IF n = MAX_UINT \/ n > held THEN held ELSE n
             payback == IF offered < debt THEN offered ELSE debt
             scaled == DebtBurnScaled(u, a, payback, r.variableBorrowIndex)
  <2>1. BurnDebt(u, a, r, scaled, 0)
    BY <1>4 DEF RepayWithATokens
  <2>2. /\ r.variableBorrowIndex \in Nat \ {0} /\ vBalance[a][u] \in Nat
        /\ r.liquidityIndex \in Nat /\ aBalance[a][u] \in Nat
    BY <1>1, CallIndexes DEF LedgersOK
  <2> HIDE DEF r
  <2>3. debt \in Nat /\ held \in Nat
    BY <2>2, MultiplyTypes
  <2> HIDE DEF debt, held
  <2>4. payback \in Nat
    BY <2>3
  <2> HIDE DEF payback
  <2>5. scaled \in Nat
    BY <1>1, <2>2, <2>4, BurnAmountType
  <2> HIDE DEF scaled
  <2>6. QED
    BY <1>1, <2>1, <2>5, BurnShrinksDebts DEF BurnDebt
<1>5. ASSUME NEW w \in Users, NEW u \in Users, NEW c \in Assets, NEW d \in Assets,
             NEW n \in Nat, NEW b \in BOOLEAN, LiquidationCall(w, u, c, d, n, b)
      PROVE  DebtsShrink
  <2>1. PICK o \in LiquidationAmounts : LiquidationMoves(w, u, c, d, n, b, o)
    BY <1>5, LiquidationOutcome
  <2>2. /\ o.burnt \in Nat
        /\ vBalance' = Debit(vBalance, d, u, o.burnt)
        /\ borrowing' =
              IF VTokenBalance(vBalance[d][u] - o.burnt,
                               UpdatedReserve(d).variableBorrowIndex) = 0
                THEN WithoutBit(borrowing, u, d) ELSE borrowing
    BY <2>1 DEF LiquidationMoves, LiquidationAmounts
  <2>3. QED
    BY <1>1, <2>2, BurnShrinksDebts
<1>6. ASSUME NEW u \in Users, NEW v \in Users, NEW a \in Assets, NEW n \in Nat,
             \/ Supply(u, a, n, v) \/ Withdraw(u, a, n, v) \/ Transfer(u, a, n, v)
             \/ ApproveDelegation(u, a, v, n)
      PROVE  DebtsShrink
  <2>1. UNCHANGED <<vBalance, borrowing>>
    BY <1>6 DEF Supply, Withdraw, Transfer, ApproveDelegation, ledgerVars, bitVars
  <2>2. QED
    BY <1>2, <2>1
<1>7. CASE \/ \E u \in Users, a \in Assets, b \in BOOLEAN :
                 SetUserUseReserveAsCollateral(u, a, b)
           \/ \E a \in Assets : MintToTreasury(a)
           \/ \E u \in Users, c \in Categories \cup {0} : SetUserEMode(u, c)
           \/ UNCHANGED <<ledgerVars, borrowAllowance, bitVars, userEMode>>
  BY <1>2, <1>7 DEF SetUserUseReserveAsCollateral, MintToTreasury, SetUserEMode,
                    ledgerVars, bitVars
<1>8. QED
  BY <1>3, <1>4, <1>5, <1>6, <1>7, StepCases

(* A debt opened on the credit of another takes at least its amount off    *)
(* the allowance, whatever of it is released.                              *)
LEMMA CreditIsTakenOff ==
    ASSUME TypeOK, NEW caller \in Users, NEW v \in Users, NEW a \in Assets, NEW n \in Nat,
           NEW released \in Nat, ExecuteBorrow(caller, a, n, v, released), caller # v
    PROVE  borrowAllowance'[a][v][caller] + n <= borrowAllowance[a][v][caller]
<1> DEFINE r == UpdatedReserve(a)
           index == r.variableBorrowIndex
           scaled == VTokenMintScaled(n, index)
           increase == RealizedDebtIncrease(a, r, v, scaled)
           allowance == borrowAllowance[a][v][caller]
<1>1. /\ Users \subseteq Accounts
      /\ vBalance \in [Assets -> [Accounts -> Nat]]
      /\ borrowAllowance \in [Assets -> [Accounts -> [Accounts -> Nat]]]
  BY DEF TypeOK, LedgersOK, AccountsOK, Accounts
<1>2. /\ allowance >= n
      /\ borrowAllowance' = [borrowAllowance EXCEPT ![a][v][caller] =
                                @ - AllowanceSpent(allowance, increase)]
  BY DEF ExecuteBorrow
<1>3. /\ borrowAllowance'[a][v][caller] = allowance - AllowanceSpent(allowance, increase)
      /\ allowance \in Nat
  BY <1>1, <1>2
<1>4. increase >= n /\ increase \in Int
  <2>1. index \in Nat \ {0} /\ vBalance[a][v] \in Nat
    BY <1>1, CallIndexes
  <2>2. scaled \in Nat
    BY <2>1, DivideTypes
  <2> HIDE DEF index
  <2>3. VTokenBalance(vBalance[a][v] + scaled, index)
          >= VTokenBalance(vBalance[a][v], index) + n
    BY <2>1, DebtGrowsByAmount
  <2> HIDE DEF scaled
  <2>4. /\ VTokenBalance(vBalance[a][v] + scaled, index) \in Nat
        /\ VTokenBalance(vBalance[a][v], index) \in Nat
    <3>1. vBalance[a][v] + scaled \in Nat
      BY <2>1, <2>2
    <3>2. QED
      BY <2>1, <3>1, MultiplyTypes
  <2>5. increase = VTokenBalance(vBalance[a][v] + scaled, index)
                     - VTokenBalance(vBalance[a][v], index)
    BY DEF RealizedDebtIncrease, index
  <2> HIDE DEF increase
  <2>6. QED
    BY <2>1, <2>3, <2>4, <2>5
<1> HIDE DEF increase, allowance
<1>5. /\ AllowanceSpent(allowance, increase) >= n
      /\ AllowanceSpent(allowance, increase) \in Int
  BY <1>2, <1>3, <1>4 DEF AllowanceSpent
<1>6. QED
  BY <1>3, <1>5 DEF allowance

(* No call of the pool draws on credit that is not taken off.              *)
LEMMA NextSpendsCredit ==
    TypeOK /\ [Next]_vars => DelegationIsSpentStep
<1> SUFFICES ASSUME TypeOK, [Next]_vars, NEW u \in Users, NEW d \in Users, NEW a \in Assets,
                    u # d, vBalance'[a][u] > vBalance[a][u], wallet'[a][d] > wallet[a][d]
             PROVE  borrowAllowance'[a][u][d] + (wallet'[a][d] - wallet[a][d])
                      <= borrowAllowance[a][u][d]
  BY DEF DelegationIsSpentStep
<1>0. /\ Users \subseteq Accounts
      /\ vBalance \in [Assets -> [Accounts -> Nat]]
      /\ wallet \in [Assets -> [Accounts -> Nat]]
      /\ vBalance' \in [Assets -> [Accounts -> Nat]]
  BY NextSound DEF TypeOK, LedgersOK, AccountsOK, Accounts
<1>1. PICK caller \in Users, v \in Users, b \in Assets, n \in Nat : Borrow(caller, b, n, v)
  <2>1. ~(vBalance'[a][u] <= vBalance[a][u])
    <3>1. vBalance'[a][u] \in Nat /\ vBalance[a][u] \in Nat
      BY <1>0
    <3>2. QED
      BY <3>1
  <2>2. QED
    BY <1>0, <2>1, OnlyBorrowsAddDebt DEF DebtsShrink
<1>2. PICK scaled : /\ vBalance' = Credit(vBalance, b, v, scaled)
                    /\ wallet' = Credit(wallet, b, caller, n)
  BY <1>1 DEF Borrow, ExecuteBorrow
<1>3. a = b /\ u = v /\ d = caller
  BY <1>0, <1>2 DEF Credit
<1>4. wallet'[a][d] = wallet[a][d] + n /\ wallet[a][d] \in Nat
  BY <1>0, <1>2, <1>3 DEF Credit
<1>5. borrowAllowance'[a][u][d] + n <= borrowAllowance[a][u][d]
  BY <1>1, <1>3, CreditIsTakenOff DEF Borrow
<1>6. wallet'[a][d] - wallet[a][d] = n
  BY <1>4
<1>7. QED
  BY <1>5, <1>6

(* What a delegatee draws on another user's credit is taken off the        *)
(* allowance in full: the debt grows by at least what is drawn, and the    *)
(* spending is capped only where the allowance falls short of that growth. *)
THEOREM CreditIsSpent == Spec => DelegationIsSpent
<1>1. TypeOK /\ [Next]_vars => DelegationIsSpentStep
  BY NextSpendsCredit
<1>2. QED
  BY <1>1, TypeCorrect, PTL DEF Spec, DelegationIsSpent

(* No call of the pool takes a debt out of its owner's category.           *)
LEMMA NextKeepsCategories ==
    TypeOK /\ [Next]_vars => DebtsStayInCategoryStep
<1> SUFFICES ASSUME TypeOK, [Next]_vars, NEW u \in Users, NEW x \in OutOfCategory(u)'
             PROVE  \/ x \in OutOfCategory(u)
                    \/ /\ x \in borrowing[u]
                       /\ config'[x].eModeCategory # config[x].eModeCategory
  BY DEF DebtsStayInCategoryStep
<1>0. /\ u \in Accounts
      /\ borrowing \in [Accounts -> SUBSET Assets]
      /\ userEMode \in [Accounts -> Categories \cup {0}]
      /\ x \in borrowing'[u] /\ userEMode'[u] # 0
      /\ config'[x].eModeCategory # userEMode'[u]
  BY DEF TypeOK, AccountsOK, Accounts, OutOfCategory
<1>1. CASE \E v \in Users, c \in Categories \cup {0} : SetUserEMode(v, c)
  <2>1. PICK v \in Users, c \in Categories \cup {0} : SetUserEMode(v, c)
    BY <1>1
  <2>2. /\ userEMode' = [userEMode EXCEPT ![v] = c]
        /\ borrowing' = borrowing /\ config' = config
        /\ c # 0 => \A a \in borrowing[v] : config[a].eModeCategory = c
    BY <2>1 DEF SetUserEMode, bitVars, adminVars, isEmpty
  <2>3. QED
    BY <1>0, <2>2 DEF OutOfCategory
<1>2. CASE \E caller \in Users, v \in Users, a \in Assets, n \in Nat :
              Borrow(caller, a, n, v)
  <2>1. PICK caller \in Users, v \in Users, a \in Assets, n \in Nat :
           Borrow(caller, a, n, v)
    BY <1>2
  <2>2. /\ borrowing' = WithBit(borrowing, v, a)
        /\ userEMode' = userEMode /\ config' = config
        /\ userEMode[v] # 0 => config[a].eModeCategory = userEMode[v]
    BY <2>1 DEF Borrow, ExecuteBorrow, ValidBorrow, adminVars
  <2>3. QED
    BY <1>0, <2>2 DEF OutOfCategory, WithBit
<1>3. CASE DebtsShrink /\ userEMode' = userEMode
  BY <1>0, <1>3 DEF DebtsShrink, OutOfCategory
<1>4. ~(\E v \in Users, c \in Categories \cup {0} : SetUserEMode(v, c))
        => userEMode' = userEMode
  <2>1. ASSUME NEW v \in Users, NEW w \in Users, NEW a \in Assets, NEW n \in Nat,
               \/ Supply(v, a, n, w) \/ Withdraw(v, a, n, w) \/ Transfer(v, a, n, w)
               \/ Borrow(v, a, n, w) \/ Repay(v, a, n, w) \/ RepayWithATokens(v, a, n)
               \/ ApproveDelegation(v, a, w, n)
        PROVE  userEMode' = userEMode
    BY <2>1 DEF Supply, Withdraw, Transfer, Borrow, ExecuteBorrow, Repay,
                RepayWithATokens, ApproveDelegation
  <2>2. CASE \E w \in Users, v \in Users, c \in Assets, d \in Assets, n \in Nat,
                b \in BOOLEAN : LiquidationCall(w, v, c, d, n, b)
    BY <2>2 DEF LiquidationCall
  <2>3. CASE \/ \E v \in Users, a \in Assets, b \in BOOLEAN :
                   SetUserUseReserveAsCollateral(v, a, b)
             \/ \E a \in Assets : MintToTreasury(a)
             \/ UNCHANGED <<ledgerVars, borrowAllowance, bitVars, userEMode>>
    BY <2>3 DEF SetUserUseReserveAsCollateral, MintToTreasury
  <2>4. QED
    BY <2>1, <2>2, <2>3, StepCases
<1>5. QED
  BY <1>1, <1>2, <1>3, <1>4, OnlyBorrowsAddDebt

(* Whoever owes an asset outside of the own category owed it when an admin *)
(* moved the asset: no other step adds such a debt, not even to a user who *)
(* has one already, and no one enters a category with other debts.         *)
THEOREM CategoryIsKept == Spec => DebtsStayInCategory
<1>1. TypeOK /\ [Next]_vars => DebtsStayInCategoryStep
  BY NextKeepsCategories
<1>2. QED
  BY <1>1, TypeCorrect, PTL DEF Spec, DebtsStayInCategory

-----------------------------------------------------------------------------
(* Sums.                                                                   *)

First(s) == CHOOSE u \in s : TRUE

(* The cardinalities of a finite set and of what is left of it.            *)
LEMMA OneLess ==
    ASSUME NEW I, IsFiniteSet(I), NEW s \in SUBSET I
    PROVE  /\ IsFiniteSet(s) /\ Cardinality(s) \in Nat
           /\ Cardinality(s) <= 0 => s = {}
           /\ Cardinality(s) <= Cardinality(I)
           /\ s # {} => /\ First(s) \in s
                        /\ s \ {First(s)} \in SUBSET I
                        /\ Cardinality(s \ {First(s)}) = Cardinality(s) - 1
<1>1. IsFiniteSet(s) /\ Cardinality(s) <= Cardinality(I)
  BY FS_Subset
<1>2. Cardinality(s) \in Nat
  BY <1>1, FS_CardinalityType
<1>3. Cardinality(s) <= 0 => s = {}
  BY <1>1, <1>2, FS_EmptySet
<1>4. s # {} => First(s) \in s
  BY DEF First
<1>5. s # {} => Cardinality(s \ {First(s)}) = Cardinality(s) - 1
  BY <1>1, <1>4, FS_RemoveElement
<1>6. QED
  BY <1>1, <1>2, <1>3, <1>4, <1>5

(* What holds of the empty set, and of a set when it holds of all of it    *)
(* but the first element, holds of every subset of a finite set.           *)
LEMMA SubsetInduction ==
    ASSUME NEW I, IsFiniteSet(I), NEW B, {} \in B,
           \A s \in SUBSET I : (s # {} /\ s \ {First(s)} \in B) => s \in B
    PROVE  \A s \in SUBSET I : s \in B
<1> DEFINE T == {n \in Nat : \A s \in SUBSET I : Cardinality(s) <= n => s \in B}
<1>1. 0 \in T
  <2>1. ASSUME NEW s \in SUBSET I, Cardinality(s) <= 0
        PROVE  s \in B
    <3>1. s = {}
      BY <2>1, OneLess
    <3>2. QED
      BY <3>1
  <2>2. QED
    BY <2>1
<1>2. ASSUME NEW n \in T PROVE n + 1 \in T
  <2>1. ASSUME NEW s \in SUBSET I, Cardinality(s) <= n + 1
        PROVE  s \in B
    <3>1. CASE s = {}
      BY <3>1
    <3>2. CASE s # {}
      <4>1. /\ s \ {First(s)} \in SUBSET I
            /\ Cardinality(s \ {First(s)}) = Cardinality(s) - 1
            /\ Cardinality(s) \in Nat
        BY <3>2, OneLess
      <4>2. Cardinality(s \ {First(s)}) <= n
        BY <2>1, <4>1
      <4>3. s \ {First(s)} \in B
        BY <4>1, <4>2
      <4>4. QED
        BY <3>2, <4>3
    <3>3. QED
      BY <3>1, <3>2
  <2>2. QED
    BY <2>1
<1>3. T = Nat
  <2>1. T \in SUBSET Nat
    OBVIOUS
  <2> HIDE DEF T
  <2>2. QED
    BY <1>1, <1>2, <2>1, NumberInduction
<1>4. Cardinality(I) \in T
  BY <1>3, OneLess
<1>5. QED
  BY <1>4, OneLess

(* g[s] is the sum of f over s, for every subset s of I.                   *)
Sums(f, I, g) ==
    g = [s \in SUBSET I |->
            IF s = {} THEN 0
            ELSE f[CHOOSE u \in s : TRUE] + g[s \ {CHOOSE u \in s : TRUE}]]

SumsOf(f, I) == CHOOSE g : Sums(f, I, g)

LEMMA SumIsLast ==
    ASSUME NEW f, NEW I
    PROVE  SumFunctionOnSet(f, I) = SumsOf(f, I)[I]
BY DEF SumFunctionOnSet, FoldFunctionOnSet, MapThenFoldSet, SumsOf, Sums

(* Such a function exists: correct on sets of one size, it is made correct *)
(* on sets of the next by one unfolding.                                   *)
LEMMA SumsExist ==
    ASSUME NEW I, IsFiniteSet(I), NEW f, \A x \in I : f[x] \in Nat
    PROVE  \E g \in [SUBSET I -> Nat] : Sums(f, I, g)
<1> DEFINE Unfolded(g) == [s \in SUBSET I |->
                              IF s = {} THEN 0 ELSE f[First(s)] + g[s \ {First(s)}]]
           UpTo(n, g) == \A s \in SUBSET I :
                            Cardinality(s) <= n => g[s] = Unfolded(g)[s]
           T == {n \in Nat : \E g \in [SUBSET I -> Nat] : UpTo(n, g)}
<1>1. 0 \in T
  <2> DEFINE g == [s \in SUBSET I |-> 0]
  <2>1. g \in [SUBSET I -> Nat]
    OBVIOUS
  <2>2. UpTo(0, g)
    <3>1. ASSUME NEW s \in SUBSET I, Cardinality(s) <= 0
          PROVE  g[s] = Unfolded(g)[s]
      <4>1. s = {}
        BY <3>1, OneLess
      <4>2. QED
        BY <4>1
    <3>2. QED
      BY <3>1
  <2>3. QED
    BY <2>1, <2>2
<1>2. ASSUME NEW n \in T PROVE n + 1 \in T
  <2>1. PICK g \in [SUBSET I -> Nat] : UpTo(n, g)
    OBVIOUS
  <2> DEFINE h == Unfolded(g)
  <2>2. h \in [SUBSET I -> Nat]
    <3>1. ASSUME NEW s \in SUBSET I, s # {}
          PROVE  f[First(s)] + g[s \ {First(s)}] \in Nat
      <4>1. f[First(s)] \in Nat /\ g[s \ {First(s)}] \in Nat
        BY <3>1, OneLess
      <4>2. QED
        BY <4>1
    <3>2. QED
      BY <3>1
  <2>3. ASSUME NEW s \in SUBSET I, Cardinality(s) <= n + 1
        PROVE  h[s] = Unfolded(h)[s]
    <3>1. CASE s = {}
      BY <3>1
    <3>2. CASE s # {}
      <4> DEFINE t == s \ {First(s)}
      <4>1. t \in SUBSET I /\ Cardinality(t) <= n
        BY <2>3, <3>2, OneLess
      <4>2. h[t] = g[t]
        BY <2>1, <4>1
      <4>3. QED
        BY <3>2, <4>1, <4>2
    <3>3. QED
      BY <3>1, <3>2
  <2>4. n + 1 \in Nat
    OBVIOUS
  <2>5. QED
    BY <2>2, <2>3, <2>4
<1>3. T = Nat
  <2>1. T \in SUBSET Nat
    OBVIOUS
  <2> HIDE DEF T
  <2>2. QED
    BY <1>1, <1>2, <2>1, NumberInduction
<1>4. Cardinality(I) \in T
  BY <1>3, OneLess
<1>5. PICK g \in [SUBSET I -> Nat] : UpTo(Cardinality(I), g)
  BY <1>4
<1>6. \A s \in SUBSET I : g[s] = Unfolded(g)[s]
  BY <1>5, OneLess
<1>7. g = Unfolded(g)
  BY <1>6
<1>8. Sums(f, I, g)
  BY <1>7 DEF Sums, First
<1>9. QED
  BY <1>8

(* How the sums of f are built, first element by first element.            *)
LEMMA SumsUnfold ==
    ASSUME NEW I, IsFiniteSet(I), NEW f, \A x \in I : f[x] \in Nat
    PROVE  /\ SumsOf(f, I)[{}] = 0
           /\ \A s \in SUBSET I : s # {} =>
                 SumsOf(f, I)[s] = f[First(s)] + SumsOf(f, I)[s \ {First(s)}]
<1>1. Sums(f, I, SumsOf(f, I))
  BY SumsExist DEF SumsOf
<1> DEFINE g == SumsOf(f, I)
<1>2. g = [s \in SUBSET I |-> IF s = {} THEN 0 ELSE f[First(s)] + g[s \ {First(s)}]]
  BY <1>1 DEF Sums, First
<1> HIDE DEF g
<1>3. {} \in SUBSET I
  OBVIOUS
<1>4. g[{}] = 0 /\ \A s \in SUBSET I : s # {} => g[s] = f[First(s)] + g[s \ {First(s)}]
  BY <1>2, <1>3
<1>5. QED
  BY <1>4 DEF g

(* The sums over the subsets of a subset are the same.                     *)
LEMMA SumsWithin ==
    ASSUME NEW I, IsFiniteSet(I), NEW f, \A x \in I : f[x] \in Nat, NEW J \in SUBSET I
    PROVE  SumsOf(f, I)[J] = SumFunctionOnSet(f, J)
<1>0. IsFiniteSet(J) /\ \A x \in J : f[x] \in Nat
  BY FS_Subset
<1> DEFINE B == {t \in SUBSET J : SumsOf(f, I)[t] = SumsOf(f, J)[t]}
<1>1. {} \in B
  <2>1. SumsOf(f, I)[{}] = 0 /\ SumsOf(f, J)[{}] = 0
    BY <1>0, SumsUnfold
  <2>2. QED
    BY <2>1
<1>2. ASSUME NEW t \in SUBSET J, t # {}, t \ {First(t)} \in B
      PROVE  t \in B
  <2>1. /\ SumsOf(f, I)[t] = f[First(t)] + SumsOf(f, I)[t \ {First(t)}]
        /\ SumsOf(f, J)[t] = f[First(t)] + SumsOf(f, J)[t \ {First(t)}]
    BY <1>0, <1>2, SumsUnfold
  <2>2. QED
    BY <1>2, <2>1
<1> HIDE DEF B
<1>3. J \in B
  BY <1>0, <1>1, <1>2, SubsetInduction
<1>4. QED
  BY <1>3, SumIsLast DEF B

(* A sum is its first term and the sum of the others.                      *)
LEMMA SumUnfolds ==
    /\ \A f : SumFunctionOnSet(f, {}) = 0
    /\ \A f, s : IsFiniteSet(s) /\ s # {} /\ (\A x \in s : f[x] \in Nat) =>
          SumFunctionOnSet(f, s) = f[First(s)] + SumFunctionOnSet(f, s \ {First(s)})
<1>1. ASSUME NEW f PROVE SumFunctionOnSet(f, {}) = 0
  <2>1. IsFiniteSet({}) /\ \A x \in {} : f[x] \in Nat
    BY FS_EmptySet
  <2>2. QED
    BY <2>1, SumsUnfold, SumIsLast
<1>2. ASSUME NEW f, NEW s, IsFiniteSet(s), s # {}, \A x \in s : f[x] \in Nat
      PROVE  SumFunctionOnSet(f, s) = f[First(s)] + SumFunctionOnSet(f, s \ {First(s)})
  <2>1. s \in SUBSET s /\ s \ {First(s)} \in SUBSET s
    OBVIOUS
  <2>2. SumsOf(f, s)[s] = f[First(s)] + SumsOf(f, s)[s \ {First(s)}]
    BY <1>2, <2>1, SumsUnfold
  <2>3. /\ SumsOf(f, s)[s] = SumFunctionOnSet(f, s)
        /\ SumsOf(f, s)[s \ {First(s)}] = SumFunctionOnSet(f, s \ {First(s)})
    BY <1>2, <2>1, SumsWithin
  <2>4. QED
    BY <2>2, <2>3
<1>3. QED
  BY <1>1, <1>2

(* The sum of naturals is natural.                                         *)
LEMMA SumIsNatural ==
    ASSUME NEW I, IsFiniteSet(I), NEW f, \A x \in I : f[x] \in Nat
    PROVE  SumFunctionOnSet(f, I) \in Nat
<1> DEFINE B == {t \in SUBSET I : SumFunctionOnSet(f, t) \in Nat}
<1>1. {} \in B
  BY SumUnfolds
<1>2. ASSUME NEW t \in SUBSET I, t # {}, t \ {First(t)} \in B
      PROVE  t \in B
  <2>1. IsFiniteSet(t) /\ First(t) \in I /\ f[First(t)] \in Nat
    BY <1>2, OneLess
  <2>2. SumFunctionOnSet(f, t) = f[First(t)] + SumFunctionOnSet(f, t \ {First(t)})
    BY <1>2, <2>1, SumUnfolds
  <2>3. QED
    BY <1>2, <2>1, <2>2
<1> HIDE DEF B
<1>3. I \in B
  BY <1>1, <1>2, SubsetInduction
<1>4. QED
  BY <1>3 DEF B

(* A sum of smaller terms is smaller.                                      *)
LEMMA SumIsMonotone ==
    ASSUME NEW I, IsFiniteSet(I), NEW f, NEW h,
           \A x \in I : f[x] \in Nat /\ h[x] \in Nat /\ f[x] <= h[x]
    PROVE  SumFunctionOnSet(f, I) <= SumFunctionOnSet(h, I)
<1> DEFINE B == {t \in SUBSET I : SumFunctionOnSet(f, t) <= SumFunctionOnSet(h, t)}
<1>1. {} \in B
  BY SumUnfolds
<1>2. ASSUME NEW t \in SUBSET I, t # {}, t \ {First(t)} \in B
      PROVE  t \in B
  <2> DEFINE x == First(t)
             r == t \ {x}
  <2>1. IsFiniteSet(t) /\ IsFiniteSet(r) /\ r \in SUBSET I /\ x \in I
    <3>1. x \in I /\ r \in SUBSET I
      BY <1>2, OneLess
    <3> HIDE DEF r
    <3>2. QED
      BY <3>1, FS_Subset
  <2>2. /\ SumFunctionOnSet(f, t) = f[x] + SumFunctionOnSet(f, r)
        /\ SumFunctionOnSet(h, t) = h[x] + SumFunctionOnSet(h, r)
    BY <1>2, <2>1, SumUnfolds
  <2>3. SumFunctionOnSet(f, r) \in Nat /\ SumFunctionOnSet(h, r) \in Nat
    BY <2>1, SumIsNatural
  <2>4. QED
    BY <1>2, <2>1, <2>2, <2>3
<1> HIDE DEF B
<1>3. I \in B
  BY <1>1, <1>2, SubsetInduction
<1>4. QED
  BY <1>3 DEF B

(* Equal terms, equal sums.                                                *)
LEMMA SumAgrees ==
    ASSUME NEW I, IsFiniteSet(I), NEW f, NEW h,
           \A x \in I : f[x] \in Nat /\ h[x] = f[x]
    PROVE  SumFunctionOnSet(h, I) = SumFunctionOnSet(f, I)
<1>1. \A x \in I : f[x] \in Nat /\ h[x] \in Nat /\ f[x] <= h[x] /\ h[x] <= f[x]
  OBVIOUS
<1>2. /\ SumFunctionOnSet(f, I) <= SumFunctionOnSet(h, I)
      /\ SumFunctionOnSet(h, I) <= SumFunctionOnSet(f, I)
  BY <1>1, SumIsMonotone
<1>3. SumFunctionOnSet(f, I) \in Nat /\ SumFunctionOnSet(h, I) \in Nat
  BY <1>1, SumIsNatural
<1>4. QED
  BY <1>2, <1>3

(* Any term of a sum may be the first.                                     *)
LEMMA SumTakesOut ==
    ASSUME NEW I, IsFiniteSet(I), NEW f, \A x \in I : f[x] \in Nat, NEW y \in I
    PROVE  SumFunctionOnSet(f, I) = f[y] + SumFunctionOnSet(f, I \ {y})
<1> DEFINE TakesOut(t) == \A z \in t :
               SumFunctionOnSet(f, t) = f[z] + SumFunctionOnSet(f, t \ {z})
           T == {n \in Nat : \A t \in SUBSET I : Cardinality(t) <= n => TakesOut(t)}
<1>1. 0 \in T
  <2>1. ASSUME NEW t \in SUBSET I, Cardinality(t) <= 0 PROVE TakesOut(t)
    <3>1. t = {}
      BY <2>1, OneLess
    <3>2. QED
      BY <3>1
  <2>2. QED
    BY <2>1
<1>2. ASSUME NEW n \in T PROVE n + 1 \in T
  <2>1. ASSUME NEW t \in SUBSET I, Cardinality(t) <= n + 1, NEW z \in t
        PROVE  SumFunctionOnSet(f, t) = f[z] + SumFunctionOnSet(f, t \ {z})
    <3> DEFINE x == First(t)
               r == t \ {x}
               q == t \ {z}
               p == t \ {x, z}
    <3>1. x \in t /\ r \in SUBSET I /\ q \in SUBSET I /\ p \in SUBSET I
      BY DEF First
    <3>2. IsFiniteSet(t) /\ IsFiniteSet(p) /\ t # {}
      <4> HIDE DEF x, p
      <4>1. QED
        BY <3>1, FS_Subset
    <3>3. SumFunctionOnSet(f, t) = f[x] + SumFunctionOnSet(f, r)
      BY <3>2, SumUnfolds
    <3>4. CASE z = x
      BY <3>3, <3>4
    <3>5. CASE z # x
      <4>1. Cardinality(r) <= n /\ Cardinality(q) <= n
        <5>1. /\ Cardinality(r) = Cardinality(t) - 1 /\ Cardinality(q) = Cardinality(t) - 1
              /\ Cardinality(t) \in Nat
          BY <3>1, <3>2, FS_RemoveElement, FS_CardinalityType
        <5>2. QED
          BY <2>1, <5>1
      <4>2. z \in r /\ x \in q /\ r \ {z} = p /\ q \ {x} = p
        BY <3>1, <3>5
      <4>3. SumFunctionOnSet(f, r) = f[z] + SumFunctionOnSet(f, p)
        <5>1. TakesOut(r)
          BY <3>1, <4>1
        <5>2. QED
          BY <4>2, <5>1
      <4>4. SumFunctionOnSet(f, q) = f[x] + SumFunctionOnSet(f, p)
        <5>1. TakesOut(q)
          BY <3>1, <4>1
        <5>2. QED
          BY <4>2, <5>1
      <4>5. SumFunctionOnSet(f, p) \in Nat /\ f[x] \in Nat /\ f[z] \in Nat
        BY <3>1, <3>2, SumIsNatural
      <4> HIDE DEF x, r, q, p
      <4>6. SumFunctionOnSet(f, t) = f[z] + SumFunctionOnSet(f, q)
        BY <3>3, <4>3, <4>4, <4>5
      <4>7. QED
        BY <4>6 DEF q
    <3>6. QED
      BY <3>4, <3>5
  <2>2. QED
    BY <2>1
<1>3. T = Nat
  <2>1. T \in SUBSET Nat
    OBVIOUS
  <2> HIDE DEF T
  <2>2. QED
    BY <1>1, <1>2, <2>1, NumberInduction
<1>4. Cardinality(I) \in T /\ I \in SUBSET I /\ Cardinality(I) <= Cardinality(I)
  BY <1>3, OneLess
<1>5. TakesOut(I)
  BY <1>4
<1>6. QED
  BY <1>5

(* A sum moves by as much as the one term that does.                       *)
LEMMA SumUpdate ==
    ASSUME NEW I, IsFiniteSet(I), NEW f, NEW h, NEW y \in I,
           \A x \in I : f[x] \in Nat /\ h[x] \in Nat,
           \A x \in I : x # y => h[x] = f[x]
    PROVE  SumFunctionOnSet(h, I) + f[y] = SumFunctionOnSet(f, I) + h[y]
<1> DEFINE r == I \ {y}
<1>1. IsFiniteSet(r) /\ \A x \in r : f[x] \in Nat /\ h[x] = f[x]
  BY FS_RemoveElement
<1>2. SumFunctionOnSet(f, I) = f[y] + SumFunctionOnSet(f, r)
  BY SumTakesOut
<1>3. SumFunctionOnSet(h, I) = h[y] + SumFunctionOnSet(h, r)
  BY SumTakesOut
<1>4. SumFunctionOnSet(h, r) = SumFunctionOnSet(f, r)
  BY <1>1, SumAgrees
<1>5. SumFunctionOnSet(f, r) \in Nat /\ f[y] \in Nat /\ h[y] \in Nat
  BY <1>1, SumIsNatural
<1>6. QED
  BY <1>2, <1>3, <1>4, <1>5

(* A sum of zeroes is zero.                                                *)
LEMMA SumOfZeroes ==
    ASSUME NEW I, IsFiniteSet(I), NEW f, \A x \in I : f[x] = 0
    PROVE  SumFunctionOnSet(f, I) = 0
<1> DEFINE B == {t \in SUBSET I : SumFunctionOnSet(f, t) = 0}
<1>1. {} \in B
  BY SumUnfolds
<1>2. ASSUME NEW t \in SUBSET I, t # {}, t \ {First(t)} \in B
      PROVE  t \in B
  <2>1. IsFiniteSet(t) /\ First(t) \in t
    BY <1>2, OneLess
  <2>a. f[First(t)] = 0 /\ \A x \in t : f[x] \in Nat
    <3>1. 0 \in Nat
      OBVIOUS
    <3>2. QED
      BY <2>1, <3>1, Zenon
  <2>2. SumFunctionOnSet(f, t) = f[First(t)] + SumFunctionOnSet(f, t \ {First(t)})
    BY <1>2, <2>1, <2>a, SumUnfolds
  <2>3. QED
    BY <1>2, <2>a, <2>2
<1> HIDE DEF B
<1>3. I \in B
  BY <1>1, <1>2, SubsetInduction
<1>4. QED
  BY <1>3 DEF B

-----------------------------------------------------------------------------
(* Totals over the accounts.                                               *)

LEMMA AccountsFinite == IsFiniteSet(Accounts)
BY StorageAssumption, FS_AddElement DEF Accounts

(* The total of naturals is natural.                                       *)
LEMMA TotalIsNatural ==
    ASSUME NEW f \in [Accounts -> Nat]
    PROVE  TotalOf(f) \in Nat
<1>1. \A u \in Accounts : f[u] \in Nat
  OBVIOUS
<1>2. QED
  BY <1>1, AccountsFinite, SumIsNatural DEF TotalOf

(* A total moves by as much as the one account that does.                  *)
LEMMA TotalUpdate ==
    ASSUME NEW f \in [Accounts -> Nat], NEW h \in [Accounts -> Nat], NEW u \in Accounts,
           \A v \in Accounts : v # u => h[v] = f[v]
    PROVE  TotalOf(h) + f[u] = TotalOf(f) + h[u]
<1>1. \A v \in Accounts : f[v] \in Nat /\ h[v] \in Nat
  OBVIOUS
<1>2. QED
  BY <1>1, AccountsFinite, SumUpdate DEF TotalOf

(* No account holds more than the total.                                   *)
LEMMA TotalCovers ==
    ASSUME NEW f \in [Accounts -> Nat], NEW u \in Accounts
    PROVE  f[u] <= TotalOf(f)
<1> DEFINE h == [f EXCEPT ![u] = 0]
<1>1. h \in [Accounts -> Nat] /\ h[u] = 0 /\ \A v \in Accounts : v # u => h[v] = f[v]
  OBVIOUS
<1> HIDE DEF h
<1>2. TotalOf(h) + f[u] = TotalOf(f) + 0
  BY <1>1, TotalUpdate
<1>3. TotalOf(h) \in Nat /\ TotalOf(f) \in Nat /\ f[u] \in Nat
  BY <1>1, TotalIsNatural
<1>4. QED
  BY <1>2, <1>3

(* The totals after a credit and after a debit.                            *)
LEMMA CreditTotal ==
    ASSUME NEW f \in [Assets -> [Accounts -> Nat]], NEW a \in Assets, NEW u \in Accounts,
           NEW n \in Nat, NEW b \in Assets
    PROVE  /\ b = a => TotalOf(Credit(f, a, u, n)[b]) = TotalOf(f[b]) + n
           /\ b # a => TotalOf(Credit(f, a, u, n)[b]) = TotalOf(f[b])
<1> DEFINE h == Credit(f, a, u, n)[a]
<1>1. /\ h \in [Accounts -> Nat] /\ h[u] = f[a][u] + n
      /\ \A v \in Accounts : v # u => h[v] = f[a][v]
  BY DEF Credit
<1>2. b # a => Credit(f, a, u, n)[b] = f[b]
  BY DEF Credit
<1> HIDE DEF h
<1>3. TotalOf(h) + f[a][u] = TotalOf(f[a]) + (f[a][u] + n)
  BY <1>1, TotalUpdate
<1>4. TotalOf(h) \in Nat /\ TotalOf(f[a]) \in Nat /\ f[a][u] \in Nat
  BY <1>1, TotalIsNatural
<1>5. TotalOf(h) = TotalOf(f[a]) + n
  BY <1>3, <1>4
<1>6. QED
  BY <1>2, <1>5 DEF h

LEMMA DebitTotal ==
    ASSUME NEW f \in [Assets -> [Accounts -> Nat]], NEW a \in Assets, NEW u \in Accounts,
           NEW n \in Nat, n <= f[a][u], NEW b \in Assets
    PROVE  /\ b = a => TotalOf(Debit(f, a, u, n)[b]) = TotalOf(f[b]) - n
           /\ b # a => TotalOf(Debit(f, a, u, n)[b]) = TotalOf(f[b])
<1> DEFINE h == Debit(f, a, u, n)[a]
<1>1. f[a][u] - n \in Nat
  OBVIOUS
<1>2. /\ h \in [Accounts -> Nat] /\ h[u] = f[a][u] - n
      /\ \A v \in Accounts : v # u => h[v] = f[a][v]
  BY <1>1 DEF Debit
<1>3. b # a => Debit(f, a, u, n)[b] = f[b]
  BY DEF Debit
<1> HIDE DEF h
<1>4. TotalOf(h) + f[a][u] = TotalOf(f[a]) + (f[a][u] - n)
  BY <1>2, TotalUpdate
<1>5. TotalOf(h) \in Nat /\ TotalOf(f[a]) \in Nat /\ f[a][u] \in Nat
  BY <1>2, TotalIsNatural
<1>6. TotalOf(h) = TotalOf(f[a]) - n
  BY <1>4, <1>5
<1>7. QED
  BY <1>3, <1>6 DEF h

-----------------------------------------------------------------------------
(* The books.                                                              *)

(* The totals s are those of the balances f.                               *)
Balanced(f, s) == \A b \in Assets : s[b] = TotalOf(f[b])

(* The pool's cash c and the accounts' holdings w are what there was.      *)
Conserved(c, w) == \A b \in Assets : c[b] + TotalOf(w[b]) = TotalOf(InitialWallet[b])

LEMMA BooksAre ==
    /\ BooksBalance <=> /\ Balanced(aBalance, aSupply) /\ Balanced(vBalance, vSupply)
                        /\ Conserved(cash, wallet)
    /\ BooksBalance' <=> /\ Balanced(aBalance', aSupply') /\ Balanced(vBalance', vSupply')
                         /\ Conserved(cash', wallet')
BY DEF BooksBalance, Balanced, Conserved

(* Minting and burning move a balance and the total supply together.       *)
LEMMA MintBalances ==
    ASSUME NEW f \in [Assets -> [Accounts -> Nat]], NEW s \in [Assets -> Nat], Balanced(f, s),
           NEW a \in Assets, NEW u \in Accounts, NEW n \in Nat
    PROVE  Balanced(Credit(f, a, u, n), [s EXCEPT ![a] = @ + n])
<1>1. ASSUME NEW b \in Assets
      PROVE  [s EXCEPT ![a] = @ + n][b] = TotalOf(Credit(f, a, u, n)[b])
  <2>1. s[b] = TotalOf(f[b])
    BY DEF Balanced
  <2>2. CASE b = a
    BY <2>1, <2>2, CreditTotal
  <2>3. CASE b # a
    BY <2>1, <2>3, CreditTotal
  <2>4. QED
    BY <2>2, <2>3
<1>2. QED
  BY <1>1 DEF Balanced

LEMMA BurnBalances ==
    ASSUME NEW f \in [Assets -> [Accounts -> Nat]], NEW s \in [Assets -> Nat], Balanced(f, s),
           NEW a \in Assets, NEW u \in Accounts, NEW n \in Nat, n <= f[a][u]
    PROVE  Balanced(Debit(f, a, u, n), [s EXCEPT ![a] = @ - n])
<1>1. ASSUME NEW b \in Assets
      PROVE  [s EXCEPT ![a] = @ - n][b] = TotalOf(Debit(f, a, u, n)[b])
  <2>1. s[b] = TotalOf(f[b])
    BY DEF Balanced
  <2>2. CASE b = a
    BY <2>1, <2>2, DebitTotal
  <2>3. CASE b # a
    BY <2>1, <2>3, DebitTotal
  <2>4. QED
    BY <2>2, <2>3
<1>2. QED
  BY <1>1 DEF Balanced

(* A transfer moves no total.                                              *)
LEMMA TransferBalances ==
    ASSUME NEW f \in [Assets -> [Accounts -> Nat]], NEW s \in [Assets -> Nat], Balanced(f, s),
           NEW a \in Assets, NEW u \in Accounts, NEW v \in Accounts,
           NEW n \in Nat, n <= f[a][u]
    PROVE  Balanced(Credit(Debit(f, a, u, n), a, v, n), s)
<1>1. /\ Debit(f, a, u, n) \in [Assets -> [Accounts -> Nat]]
  BY DebitTypes
<1>2. ASSUME NEW b \in Assets
      PROVE  s[b] = TotalOf(Credit(Debit(f, a, u, n), a, v, n)[b])
  <2>1. s[b] = TotalOf(f[b]) /\ s[b] \in Nat
    BY DEF Balanced
  <2>2. CASE b = a
    <3>1. TotalOf(Debit(f, a, u, n)[b]) = TotalOf(f[b]) - n
      BY <2>2, DebitTotal
    <3>2. TotalOf(Credit(Debit(f, a, u, n), a, v, n)[b]) = TotalOf(Debit(f, a, u, n)[b]) + n
      BY <1>1, <2>2, CreditTotal
    <3>3. QED
      BY <2>1, <3>1, <3>2
  <2>3. CASE b # a
    <3>1. Credit(Debit(f, a, u, n), a, v, n)[b] = f[b]
      BY <1>1, <2>3 DEF Credit, Debit
    <3>2. QED
      BY <2>1, <3>1
  <2>4. QED
    BY <2>2, <2>3
<1>3. QED
  BY <1>2 DEF Balanced

(* Underlying paid in leaves a wallet, underlying paid out enters one.     *)
LEMMA PayingInConserves ==
    ASSUME NEW c \in [Assets -> Nat], NEW w \in [Assets -> [Accounts -> Nat]], Conserved(c, w),
           NEW a \in Assets, NEW u \in Accounts, NEW n \in Nat, n <= w[a][u]
    PROVE  Conserved([c EXCEPT ![a] = @ + n], Debit(w, a, u, n))
<1>1. ASSUME NEW b \in Assets
      PROVE  [c EXCEPT ![a] = @ + n][b] + TotalOf(Debit(w, a, u, n)[b])
               = TotalOf(InitialWallet[b])
  <2>1. /\ c[b] + TotalOf(w[b]) = TotalOf(InitialWallet[b])
        /\ c[b] \in Nat /\ TotalOf(w[b]) \in Nat
    BY TotalIsNatural DEF Conserved
  <2>2. CASE b = a
    <3>1. TotalOf(Debit(w, a, u, n)[b]) = TotalOf(w[b]) - n
      BY <2>2, DebitTotal
    <3>2. [c EXCEPT ![a] = @ + n][b] = c[b] + n
      BY <2>2
    <3>3. QED
      BY <2>1, <3>1, <3>2
  <2>3. CASE b # a
    BY <2>1, <2>3, DebitTotal
  <2>4. QED
    BY <2>2, <2>3
<1>2. QED
  BY <1>1 DEF Conserved

LEMMA PayingOutConserves ==
    ASSUME NEW c \in [Assets -> Nat], NEW w \in [Assets -> [Accounts -> Nat]], Conserved(c, w),
           NEW a \in Assets, NEW u \in Accounts, NEW n \in Nat
    PROVE  Conserved([c EXCEPT ![a] = @ - n], Credit(w, a, u, n))
<1>1. ASSUME NEW b \in Assets
      PROVE  [c EXCEPT ![a] = @ - n][b] + TotalOf(Credit(w, a, u, n)[b])
               = TotalOf(InitialWallet[b])
  <2>1. /\ c[b] + TotalOf(w[b]) = TotalOf(InitialWallet[b])
        /\ c[b] \in Nat /\ TotalOf(w[b]) \in Nat
    BY TotalIsNatural DEF Conserved
  <2>2. CASE b = a
    <3>1. TotalOf(Credit(w, a, u, n)[b]) = TotalOf(w[b]) + n
      BY <2>2, CreditTotal
    <3>2. [c EXCEPT ![a] = @ - n][b] = c[b] - n
      BY <2>2
    <3>3. QED
      BY <2>1, <3>1, <3>2
  <2>3. CASE b # a
    <3>1. Credit(w, a, u, n)[b] = w[b] /\ [c EXCEPT ![a] = @ - n][b] = c[b]
      BY <2>3 DEF Credit
    <3>2. QED
      BY <2>1, <3>1
  <2>4. QED
    BY <2>2, <2>3
<1>2. QED
  BY <1>1 DEF Conserved

(* A borrow mints what it owes, and pays out what it releases.             *)
LEMMA ExecuteBorrowKeepsBooks ==
    ASSUME TypeOK, BooksBalance, NEW u \in Users, NEW v \in Users, NEW a \in Assets,
           NEW n \in Nat, NEW released \in Nat, ExecuteBorrow(u, a, n, v, released)
    PROVE  BooksBalance'
<1> DEFINE scaled == VTokenMintScaled(n, UpdatedReserve(a).variableBorrowIndex)
<1>1. /\ vBalance' = Credit(vBalance, a, v, scaled)
      /\ vSupply' = [vSupply EXCEPT ![a] = @ + scaled]
      /\ cash' = [cash EXCEPT ![a] = @ - released] /\ wallet' = Credit(wallet, a, u, released)
      /\ UNCHANGED <<aBalance, aSupply>>
  BY DEF ExecuteBorrow
<1>2. /\ u \in Accounts /\ v \in Accounts
      /\ vBalance \in [Assets -> [Accounts -> Nat]] /\ vSupply \in [Assets -> Nat]
      /\ wallet \in [Assets -> [Accounts -> Nat]] /\ cash \in [Assets -> Nat]
  BY DEF TypeOK, LedgersOK, Accounts
<1>3. scaled \in Nat
  BY CallIndexes, DivideTypes
<1> HIDE DEF scaled
<1>4. Balanced(aBalance, aSupply) /\ Balanced(vBalance, vSupply) /\ Conserved(cash, wallet)
  BY BooksAre
<1>5. Balanced(vBalance', vSupply')
  BY <1>1, <1>2, <1>3, <1>4, MintBalances
<1>6. Conserved(cash', wallet')
  BY <1>1, <1>2, <1>4, PayingOutConserves
<1>7. QED
  BY <1>1, <1>4, <1>5, <1>6, BooksAre

(* The call of a user that is not a liquidation.                           *)
LEMMA UserCallKeepsBooks ==
    ASSUME TypeOK, BooksBalance, NEW u \in Users, NEW v \in Users, NEW a \in Assets,
           NEW n \in Nat,
           \/ Supply(u, a, n, v) \/ Withdraw(u, a, n, v) \/ Transfer(u, a, n, v)
           \/ Borrow(u, a, n, v) \/ Repay(u, a, n, v) \/ RepayWithATokens(u, a, n)
           \/ ApproveDelegation(u, a, v, n)
    PROVE  BooksBalance'
<1>0. /\ u \in Accounts /\ v \in Accounts
      /\ aBalance \in [Assets -> [Accounts -> Nat]] /\ aSupply \in [Assets -> Nat]
      /\ vBalance \in [Assets -> [Accounts -> Nat]] /\ vSupply \in [Assets -> Nat]
      /\ wallet \in [Assets -> [Accounts -> Nat]] /\ cash \in [Assets -> Nat]
      /\ LedgersOK
  BY DEF TypeOK, LedgersOK, Accounts
<1>1. /\ UpdatedReserve(a).liquidityIndex \in Nat \ {0}
      /\ UpdatedReserve(a).variableBorrowIndex \in Nat \ {0}
      /\ NormalizedIncome(a) \in Nat \ {0}
  BY CallIndexes
<1>2. Balanced(aBalance, aSupply) /\ Balanced(vBalance, vSupply) /\ Conserved(cash, wallet)
  BY BooksAre
<1> DEFINE lIndex == UpdatedReserve(a).liquidityIndex
           vIndex == UpdatedReserve(a).variableBorrowIndex
<1>a. /\ lIndex \in Nat \ {0} /\ vIndex \in Nat \ {0}
      /\ aBalance[a][u] \in Nat /\ vBalance[a][u] \in Nat /\ vBalance[a][v] \in Nat
  BY <1>0, <1>1
<1>3. CASE Supply(u, a, n, v)
  <2> DEFINE scaled == ATokenMintScaled(n, lIndex)
  <2>1. /\ wallet[a][u] >= n
        /\ wallet' = Debit(wallet, a, u, n) /\ cash' = [cash EXCEPT ![a] = @ + n]
        /\ aBalance' = Credit(aBalance, a, v, scaled)
        /\ aSupply' = [aSupply EXCEPT ![a] = @ + scaled]
        /\ UNCHANGED <<vBalance, vSupply>>
    BY <1>3 DEF Supply
  <2>2. scaled \in Nat
    BY <1>1, DivideTypes
  <2> HIDE DEF scaled
  <2>3. Balanced(aBalance', aSupply')
    BY <1>0, <1>2, <2>1, <2>2, MintBalances
  <2>4. Conserved(cash', wallet')
    <3>1. n <= wallet[a][u]
      BY <1>0, <2>1
    <3>2. QED
      BY <1>0, <1>2, <2>1, <3>1, PayingInConserves
  <2>5. QED
    BY <1>2, <2>1, <2>3, <2>4, BooksAre
<1>4. CASE Withdraw(u, a, n, v)
  <2> DEFINE balance == ATokenBalance(aBalance[a][u], lIndex)
             amount == IF n = MAX_UINT THEN balance ELSE n
             scaled == ATokenBurnScaled(amount, lIndex)
  <2>1. /\ scaled <= aBalance[a][u]
        /\ aBalance' = Debit(aBalance, a, u, scaled)
        /\ aSupply' = [aSupply EXCEPT ![a] = @ - scaled]
        /\ wallet' = Credit(wallet, a, v, amount) /\ cash' = [cash EXCEPT ![a] = @ - amount]
        /\ UNCHANGED <<vBalance, vSupply>>
    BY <1>4 DEF Withdraw, Burnable
  <2> HIDE DEF lIndex
  <2>2. amount \in Nat
    <3>1. balance \in Nat
      BY <1>a, MultiplyTypes
    <3> HIDE DEF balance
    <3>2. QED
      BY <3>1
  <2> HIDE DEF amount
  <2>3. scaled \in Nat
    BY <1>a, <2>2, DivideTypes
  <2> HIDE DEF scaled
  <2>4. Balanced(aBalance', aSupply')
    BY <1>0, <1>2, <2>1, <2>3, BurnBalances
  <2>5. Conserved(cash', wallet')
    BY <1>0, <1>2, <2>1, <2>2, PayingOutConserves
  <2>6. QED
    BY <1>2, <2>1, <2>4, <2>5, BooksAre
<1>5. CASE Transfer(u, a, n, v)
  <2> DEFINE scaled == ATokenTransferScaled(n, NormalizedIncome(a))
  <2>1. /\ scaled <= aBalance[a][u]
        /\ aBalance' = Credit(Debit(aBalance, a, u, scaled), a, v, scaled)
        /\ UNCHANGED <<aSupply, vBalance, vSupply, cash, wallet>>
    BY <1>5 DEF Transfer
  <2>2. scaled \in Nat
    BY <1>1, DivideTypes
  <2> HIDE DEF scaled
  <2>3. Balanced(aBalance', aSupply')
    BY <1>0, <1>2, <2>1, <2>2, TransferBalances
  <2>4. QED
    BY <1>2, <2>1, <2>3, BooksAre
<1>6. CASE Borrow(u, a, n, v)
  BY <1>6, ExecuteBorrowKeepsBooks DEF Borrow
<1>7. CASE Repay(u, a, n, v)
  <2> DEFINE debt == VTokenBalance(vBalance[a][v], vIndex)
             payback == IF n < debt THEN n ELSE debt
             scaled == DebtBurnScaled(v, a, payback, vIndex)
  <2>1. /\ scaled <= vBalance[a][v]
        /\ vBalance' = Debit(vBalance, a, v, scaled)
        /\ vSupply' = [vSupply EXCEPT ![a] = @ - scaled]
        /\ wallet[a][u] >= payback
        /\ wallet' = Debit(wallet, a, u, payback) /\ cash' = [cash EXCEPT ![a] = @ + payback]
        /\ UNCHANGED <<aBalance, aSupply>>
    BY <1>7 DEF Repay, BurnDebt, Burnable
  <2> HIDE DEF vIndex
  <2>2. payback \in Nat
    <3>1. debt \in Nat
      BY <1>a, MultiplyTypes
    <3> HIDE DEF debt
    <3>2. QED
      BY <3>1
  <2> HIDE DEF payback
  <2>3. scaled \in Nat
    BY <1>0, <1>a, <2>2, BurnAmountType
  <2> HIDE DEF scaled
  <2>4. Balanced(vBalance', vSupply')
    BY <1>0, <1>2, <2>1, <2>3, BurnBalances
  <2>5. Conserved(cash', wallet')
    <3>1. payback <= wallet[a][u]
      BY <1>0, <2>1, <2>2
    <3>2. QED
      BY <1>0, <1>2, <2>1, <2>2, <3>1, PayingInConserves
  <2>6. QED
    BY <1>2, <2>1, <2>4, <2>5, BooksAre
<1>8. CASE RepayWithATokens(u, a, n)
  <2> DEFINE debt == VTokenBalance(vBalance[a][u], vIndex)
             held == ATokenBalance(aBalance[a][u], lIndex)
             offered == IF n = MAX_UINT \/ n > held THEN held ELSE n
             payback == IF offered < debt THEN offered ELSE debt
             aScaled == ATokenBurnScaled(payback, lIndex)
             scaled == DebtBurnScaled(u, a, payback, vIndex)
  <2>1. /\ scaled <= vBalance[a][u] /\ aScaled <= aBalance[a][u]
        /\ vBalance' = Debit(vBalance, a, u, scaled)
        /\ vSupply' = [vSupply EXCEPT ![a] = @ - scaled]
        /\ aBalance' = Debit(aBalance, a, u, aScaled)
        /\ aSupply' = [aSupply EXCEPT ![a] = @ - aScaled]
        /\ UNCHANGED <<cash, wallet>>
    BY <1>8 DEF RepayWithATokens, BurnDebt, Burnable
  <2> HIDE DEF lIndex, vIndex
  <2>2. debt \in Nat /\ held \in Nat
    BY <1>a, MultiplyTypes
  <2> HIDE DEF debt, held
  <2>3. payback \in Nat
    BY <2>2
  <2> HIDE DEF payback
  <2>4. scaled \in Nat /\ aScaled \in Nat
    BY <1>0, <1>a, <2>3, BurnAmountType, DivideTypes
  <2> HIDE DEF scaled, aScaled
  <2>5. Balanced(vBalance', vSupply')
    BY <1>0, <1>2, <2>1, <2>4, BurnBalances
  <2>6. Balanced(aBalance', aSupply')
    BY <1>0, <1>2, <2>1, <2>4, BurnBalances
  <2>7. QED
    BY <1>2, <2>1, <2>5, <2>6, BooksAre
<1>9. CASE ApproveDelegation(u, a, v, n)
  BY <1>2, <1>9, BooksAre DEF ApproveDelegation, ledgerVars
<1>10. QED
  BY <1>3, <1>4, <1>5, <1>6, <1>7, <1>8, <1>9

(* A seizure of n units with a fee of m for account t: the units leave the *)
(* books, or they go to account w.                                         *)
LEMMA SeizureBalances ==
    ASSUME NEW f \in [Assets -> [Accounts -> Nat]], NEW s \in [Assets -> Nat], Balanced(f, s),
           NEW c \in Assets, NEW u \in Accounts, NEW w \in Accounts, NEW t \in Accounts,
           NEW n \in Nat, NEW m \in Nat, n + m <= f[c][u]
    PROVE  /\ Balanced(Credit(Debit(f, c, u, n + m), c, t, m), [s EXCEPT ![c] = @ - n])
           /\ Balanced(Credit(Credit(Debit(f, c, u, n + m), c, w, n), c, t, m), s)
<1> DEFINE k == n + m
           g == Debit(f, c, u, k)
           s1 == [s EXCEPT ![c] = @ - k]
<1>1. k \in Nat /\ k <= f[c][u]
  OBVIOUS
<1> HIDE DEF k
<1>2. g \in [Assets -> [Accounts -> Nat]] /\ Balanced(g, s1)
  BY <1>1, DebitTypes, BurnBalances
<1>3. s[c] \in Nat /\ k <= s[c]
  <2>1. s[c] = TotalOf(f[c]) /\ f[c] \in [Accounts -> Nat]
    BY DEF Balanced
  <2>2. f[c][u] <= s[c] /\ s[c] \in Nat /\ f[c][u] \in Nat
    BY <2>1, TotalCovers
  <2>3. QED
    BY <1>1, <2>2
<1>4. s1 \in [Assets -> Nat] /\ s1[c] = s[c] - k
  BY <1>1, <1>3
<1> HIDE DEF g
<1>5. Balanced(Credit(g, c, t, m), [s1 EXCEPT ![c] = @ + m])
  BY <1>2, <1>4, MintBalances
<1>6. [s1 EXCEPT ![c] = @ + m] = [s EXCEPT ![c] = @ - n]
  <2>1. s1[c] + m = s[c] - n
    BY <1>3, <1>4 DEF k
  <2>2. QED
    BY <2>1
<1> DEFINE h == Credit(g, c, w, n)
           s2 == [s1 EXCEPT ![c] = @ + n]
<1>7. h \in [Assets -> [Accounts -> Nat]] /\ Balanced(h, s2) /\ s2 \in [Assets -> Nat]
  <2>1. s1[c] + n \in Nat
    BY <1>4
  <2>2. s2 \in [Assets -> Nat]
    BY <1>4, <2>1
  <2>3. QED
    BY <1>2, <1>4, <2>2, CreditTypes, MintBalances
<1>8. s2[c] = s1[c] + n
  BY <1>4
<1>9. [s2 EXCEPT ![c] = @ + m] = s
  <2>1. s2[c] + m = s[c]
    BY <1>3, <1>4, <1>8 DEF k
  <2>2. QED
    BY <2>1
<1> HIDE DEF h, s2, s1
<1>10. Balanced(Credit(h, c, t, m), [s2 EXCEPT ![c] = @ + m])
  BY <1>7, MintBalances
<1>11. QED
  BY <1>5, <1>6, <1>9, <1>10 DEF g, h, k

(* A liquidation moves underlying between two wallets and two reserves,    *)
(* and seized units to nobody or to the liquidator, the fee to the         *)
(* treasury.                                                               *)
LEMMA LiquidationKeepsBooks ==
    ASSUME TypeOK, BooksBalance, NEW w \in Users, NEW u \in Users, NEW c \in Assets,
           NEW d \in Assets, NEW toCover \in Nat, NEW receive \in BOOLEAN,
           NEW o \in LiquidationAmounts, LiquidationMoves(w, u, c, d, toCover, receive, o)
    PROVE  BooksBalance'
<1> DEFINE released == IF receive THEN 0 ELSE o.collateral
           afterUser == Debit(aBalance, c, u, o.seized + o.feeScaled)
           afterSeizure == IF receive THEN Credit(afterUser, c, w, o.seized) ELSE afterUser
           paid == Credit(wallet, c, w, released)
           drawn == [cash EXCEPT ![c] = @ - released]
<1>1. /\ w \in Accounts /\ u \in Accounts /\ Treasury \in Accounts
      /\ aBalance \in [Assets -> [Accounts -> Nat]] /\ aSupply \in [Assets -> Nat]
      /\ vBalance \in [Assets -> [Accounts -> Nat]] /\ vSupply \in [Assets -> Nat]
      /\ wallet \in [Assets -> [Accounts -> Nat]] /\ cash \in [Assets -> Nat]
  BY DEF TypeOK, LedgersOK, Accounts
<1>2. /\ o.debt \in Nat /\ o.burnt \in Nat /\ o.collateral \in Nat /\ o.seized \in Nat
      /\ o.feeScaled \in Nat /\ released \in Nat
  BY DEF LiquidationAmounts
<1>3. /\ o.burnt <= vBalance[d][u] /\ o.seized + o.feeScaled <= aBalance[c][u]
      /\ ~receive => o.collateral <= cash[c]
      /\ vBalance' = Debit(vBalance, d, u, o.burnt)
      /\ vSupply' = [vSupply EXCEPT ![d] = @ - o.burnt]
      /\ aBalance' = Credit(afterSeizure, c, Treasury, o.feeScaled)
      /\ aSupply' = [aSupply EXCEPT ![c] = IF receive THEN @ ELSE @ - o.seized]
      /\ cash' = [drawn EXCEPT ![d] = @ + o.debt]
      /\ o.debt <= paid[d][w] /\ wallet' = Debit(paid, d, w, o.debt)
  BY DEF LiquidationMoves
<1>4. Balanced(aBalance, aSupply) /\ Balanced(vBalance, vSupply) /\ Conserved(cash, wallet)
  BY BooksAre
<1>5. Balanced(vBalance', vSupply')
  BY <1>1, <1>2, <1>3, <1>4, BurnBalances
<1>6. Conserved(cash', wallet')
  <2>1. drawn \in [Assets -> Nat]
    BY <1>1, <1>2, <1>3
  <2>2. paid \in [Assets -> [Accounts -> Nat]]
    BY <1>1, <1>2, CreditTypes
  <2>3. Conserved(drawn, paid)
    BY <1>1, <1>2, <1>4, PayingOutConserves
  <2> HIDE DEF drawn, paid
  <2>4. QED
    BY <1>1, <1>2, <1>3, <2>1, <2>2, <2>3, PayingInConserves
<1>7. Balanced(aBalance', aSupply')
  <2>0. /\ Balanced(Credit(Debit(aBalance, c, u, o.seized + o.feeScaled),
                           c, Treasury, o.feeScaled),
                    [aSupply EXCEPT ![c] = @ - o.seized])
        /\ Balanced(Credit(Credit(Debit(aBalance, c, u, o.seized + o.feeScaled),
                                  c, w, o.seized), c, Treasury, o.feeScaled),
                    aSupply)
    <3> DEFINE n == o.seized
               m == o.feeScaled
    <3>1. n \in Nat /\ m \in Nat /\ n + m <= aBalance[c][u]
      BY <1>2, <1>3
    <3> HIDE DEF n, m
    <3>2. /\ Balanced(Credit(Debit(aBalance, c, u, n + m), c, Treasury, m),
                      [aSupply EXCEPT ![c] = @ - n])
          /\ Balanced(Credit(Credit(Debit(aBalance, c, u, n + m), c, w, n), c, Treasury, m),
                      aSupply)
      BY <1>1, <1>4, <3>1, SeizureBalances
    <3>3. QED
      BY <3>2 DEF n, m
  <2>1. CASE receive
    <3>1. aSupply' = aSupply
      BY <1>1, <1>3, <2>1
    <3>2. aBalance' = Credit(Credit(Debit(aBalance, c, u, o.seized + o.feeScaled),
                                    c, w, o.seized), c, Treasury, o.feeScaled)
      BY <1>3, <2>1
    <3>3. QED
      BY <2>0, <3>1, <3>2
  <2>2. CASE ~receive
    <3>1. aSupply' = [aSupply EXCEPT ![c] = @ - o.seized]
      BY <1>3, <2>2
    <3>2. aBalance' = Credit(Debit(aBalance, c, u, o.seized + o.feeScaled),
                             c, Treasury, o.feeScaled)
      BY <1>3, <2>2
    <3>3. QED
      BY <2>0, <3>1, <3>2
  <2>3. QED
    BY <2>1, <2>2
<1>8. QED
  BY <1>5, <1>6, <1>7, BooksAre

(* Every step keeps the books.                                             *)
LEMMA NextKeepsBooks ==
    ASSUME TypeOK, BooksBalance, [Next]_vars
    PROVE  BooksBalance'
<1>1. CASE \E a \in Assets : MintToTreasury(a)
  <2>1. PICK a \in Assets : MintToTreasury(a)
    BY <1>1
  <2> DEFINE scaled == ATokenMintScaled(rayMulCeil(reserve[a].accruedToTreasury,
                                                   NormalizedIncome(a)),
                                        NormalizedIncome(a))
  <2>2. /\ aBalance' = Credit(aBalance, a, Treasury, scaled)
        /\ aSupply' = [aSupply EXCEPT ![a] = @ + scaled]
        /\ UNCHANGED <<vBalance, vSupply, cash, wallet>>
    BY <2>1 DEF MintToTreasury
  <2>3. reserve[a].accruedToTreasury \in Nat /\ NormalizedIncome(a) \in Nat \ {0}
    BY CallIndexes DEF TypeOK, ReservesOK, ReserveData
  <2>4. scaled \in Nat
    BY <2>3, MultiplyTypes, DivideTypes
  <2> HIDE DEF scaled
  <2>5. /\ Treasury \in Accounts
        /\ aBalance \in [Assets -> [Accounts -> Nat]] /\ aSupply \in [Assets -> Nat]
    BY DEF TypeOK, LedgersOK, Accounts
  <2>6. Balanced(aBalance', aSupply')
    BY <2>2, <2>4, <2>5, BooksAre, MintBalances
  <2>7. QED
    BY <2>2, <2>6, BooksAre
<1>2. CASE \E w \in Users, u \in Users, c \in Assets, d \in Assets, n \in Nat,
              b \in BOOLEAN : LiquidationCall(w, u, c, d, n, b)
  BY <1>2, LiquidationOutcome, LiquidationKeepsBooks
<1>3. CASE \/ \E u \in Users, a \in Assets, b \in BOOLEAN :
                 SetUserUseReserveAsCollateral(u, a, b)
           \/ \E u \in Users, c \in Categories \cup {0} : SetUserEMode(u, c)
           \/ UNCHANGED <<ledgerVars, borrowAllowance, bitVars, userEMode>>
  <2>1. UNCHANGED ledgerVars
    BY <1>3 DEF SetUserUseReserveAsCollateral, SetUserEMode
  <2>2. QED
    BY <2>1, BooksAre DEF ledgerVars
<1>4. QED
  BY <1>1, <1>2, <1>3, UserCallKeepsBooks, StepCases

LEMMA InitialBooks == Init => BooksBalance
<1> SUFFICES ASSUME Init, NEW a \in Assets
             PROVE  /\ aSupply[a] = TotalOf(aBalance[a])
                    /\ vSupply[a] = TotalOf(vBalance[a])
                    /\ cash[a] + TotalOf(wallet[a]) = TotalOf(InitialWallet[a])
  BY DEF BooksBalance
<1>1. /\ aBalance[a] \in [Accounts -> Nat] /\ \A u \in Accounts : aBalance[a][u] = 0
      /\ vBalance[a] \in [Accounts -> Nat] /\ \A u \in Accounts : vBalance[a][u] = 0
      /\ aSupply[a] = 0 /\ vSupply[a] = 0 /\ cash[a] = 0 /\ wallet = InitialWallet
  BY DEF Init
<1>2. TotalOf(aBalance[a]) = 0
  BY <1>1, AccountsFinite, SumOfZeroes DEF TotalOf
<1>3. TotalOf(vBalance[a]) = 0
  BY <1>1, AccountsFinite, SumOfZeroes DEF TotalOf
<1>4. TotalOf(InitialWallet[a]) \in Nat
  BY PoolAssumption, TotalIsNatural
<1>5. QED
  BY <1>1, <1>2, <1>3, <1>4

(* In every reachable state the totals are the sums of the balances, and   *)
(* the underlying in the pool and in the wallets is what there was.        *)
THEOREM BooksStayBalanced == Spec => []BooksBalance
<1>1. Init => BooksBalance
  BY InitialBooks
<1>2. TypeOK /\ BooksBalance /\ [Next]_vars => BooksBalance'
  BY NextKeepsBooks
<1>3. QED
  BY <1>1, <1>2, TypeCorrect, PTL DEF Spec

-----------------------------------------------------------------------------
(* Siloed borrowing.                                                       *)

(* The calls of users leave the settings alone.                            *)
LEMMA UserCallsKeepSettings ==
    ASSUME UserCall
    PROVE  UNCHANGED <<config, eModeCategories>>
<1>1. CASE UserStep
  <2>1. PICK u \in Users, v \in Users, a \in Assets, n \in Nat :
            \/ Supply(u, a, n, v) \/ Withdraw(u, a, n, v) \/ Transfer(u, a, n, v)
            \/ Borrow(u, a, n, v) \/ Repay(u, a, n, v) \/ ApproveDelegation(u, a, v, n)
    <3>1. PICK u \in Users : \E v \in Beneficiaries[u], a \in Assets :
            \/ \E n \in CallChoices[u].supply : Supply(u, a, n, v)
            \/ \E n \in CallChoices[u].withdraw : Withdraw(u, a, n, v)
            \/ \E n \in CallChoices[u].transfer : Transfer(u, a, n, v)
            \/ \E n \in CallChoices[u].borrow : Borrow(u, a, n, v)
            \/ \E n \in CallChoices[u].repay : Repay(u, a, n, v)
            \/ \E n \in CallChoices[u].delegate : ApproveDelegation(u, a, v, n)
      BY <1>1 DEF UserStep
    <3>2. QED
      BY <3>1, PoolAssumption
  <2>2. QED
    BY <2>1 DEF Supply, Withdraw, Transfer, Borrow, ExecuteBorrow, Repay,
        ApproveDelegation, adminVars
<1>2. CASE OwnStep
  BY <1>2 DEF OwnStep, RepayWithATokens, SetUserUseReserveAsCollateral, adminVars
<1>3. CASE Liquidate
  BY <1>3 DEF Liquidate, LiquidationCall, adminVars
<1>4. CASE \/ \E a \in Assets : MintToTreasury(a)
           \/ \E u \in Users, c \in Categories \cup {0} : SetUserEMode(u, c)
  BY <1>4 DEF MintToTreasury, SetUserEMode, adminVars
<1>5. QED
  BY <1>1, <1>2, <1>3, <1>4 DEF UserCall

(* No asset becomes siloed.                                                *)
NoneSiloed == \A a \in Assets : config'[a].siloedBorrowing => config[a].siloedBorrowing

LEMMA SameSiloedFlag ==
    ASSUME SettingsOK, NEW a \in Assets, NEW c, SetConfiguration(a, c),
           c.siloedBorrowing = config[a].siloedBorrowing
    PROVE  NoneSiloed
<1>1. config \in [Assets -> ReserveConfiguration] /\ config' = [config EXCEPT ![a] = c]
  BY DEF SettingsOK, SetConfiguration
<1>2. QED
  BY <1>1 DEF NoneSiloed

(* Only setSiloedBorrowing makes an asset siloed.                          *)
LEMMA OnlyAdminsSilo ==
    ASSUME TypeOK, [Next]_vars
    PROVE  \/ NoneSiloed
           \/ /\ UNCHANGED <<borrowing, vBalance>>
              /\ \E a \in Assets : SetSiloedBorrowing(a, TRUE)
<1>1. SettingsOK /\ config \in [Assets -> ReserveConfiguration]
  BY DEF TypeOK, SettingsOK
<1>2. ASSUME UNCHANGED config PROVE NoneSiloed
  BY <1>2 DEF NoneSiloed
<1>3. CASE UserCall
  BY <1>2, <1>3, UserCallsKeepSettings
<1>4. CASE AdminStep
  <2>1. PICK a \in Assets :
            \/ \E b \in AdminChoices.active : SetReserveActive(a, b)
            \/ \E b \in AdminChoices.paused : SetReservePause(a, b)
            \/ \E b \in AdminChoices.frozen : SetReserveFreeze(a, b)
            \/ \E b \in AdminChoices.borrowing : SetReserveBorrowing(a, b)
            \/ \E n \in AdminChoices.supplyCap : SetSupplyCap(a, n)
            \/ \E n \in AdminChoices.borrowCap : SetBorrowCap(a, n)
            \/ \E b \in AdminChoices.siloed : SetSiloedBorrowing(a, b)
            \/ \E n \in AdminChoices.debtCeiling : SetDebtCeiling(a, n)
            \/ \E n \in AdminChoices.reserveFactor : SetReserveFactor(a, n)
            \/ \E p \in AdminChoices.collateral : ConfigureReserveAsCollateral(a, p)
            \/ \E n \in AdminChoices.protocolFee : SetLiquidationProtocolFee(a, n)
            \/ \E b \in AdminChoices.isolated : SetBorrowableInIsolation(a, b)
            \/ \E c \in AdminChoices.category : SetAssetEModeCategory(a, c)
    BY <1>4, PoolAssumption DEF AdminStep
  <2>2. config[a] \in ReserveConfiguration
    BY <1>1
  <2>3. CASE \E b \in AdminChoices.siloed : SetSiloedBorrowing(a, b)
    <3>1. PICK b \in BOOLEAN : SetSiloedBorrowing(a, b)
      BY <2>3, PoolAssumption
    <3>2. CASE b = TRUE
      BY <3>1, <3>2 DEF SetSiloedBorrowing, SetConfiguration, bitVars, ledgerVars
    <3>3. CASE b = FALSE
      <4>1. config' = [config EXCEPT ![a] = [config[a] EXCEPT !.siloedBorrowing = FALSE]]
        BY <3>1, <3>3 DEF SetSiloedBorrowing, SetConfiguration
      <4>2. [config[a] EXCEPT !.siloedBorrowing = FALSE].siloedBorrowing = FALSE
        BY <2>2 DEF ReserveConfiguration
      <4>3. ASSUME NEW x \in Assets, config'[x].siloedBorrowing
            PROVE  config[x].siloedBorrowing
        <5>1. x # a
          BY <1>1, <4>1, <4>2, <4>3
        <5>2. QED
          BY <1>1, <4>1, <4>3, <5>1
      <4>4. QED
        BY <4>3 DEF NoneSiloed
    <3>4. QED
      BY <3>1, <3>2, <3>3
  <2>4. CASE \/ \E b \in AdminChoices.active : SetReserveActive(a, b)
             \/ \E b \in AdminChoices.paused : SetReservePause(a, b)
             \/ \E b \in AdminChoices.frozen : SetReserveFreeze(a, b)
             \/ \E b \in AdminChoices.borrowing : SetReserveBorrowing(a, b)
             \/ \E n \in AdminChoices.supplyCap : SetSupplyCap(a, n)
             \/ \E n \in AdminChoices.borrowCap : SetBorrowCap(a, n)
             \/ \E n \in AdminChoices.debtCeiling : SetDebtCeiling(a, n)
             \/ \E n \in AdminChoices.reserveFactor : SetReserveFactor(a, n)
             \/ \E n \in AdminChoices.protocolFee : SetLiquidationProtocolFee(a, n)
             \/ \E b \in AdminChoices.isolated : SetBorrowableInIsolation(a, b)
             \/ \E c \in AdminChoices.category : SetAssetEModeCategory(a, c)
    <3>1. \E v : \/ SetConfiguration(a, [config[a] EXCEPT !.active = v])
                 \/ SetConfiguration(a, [config[a] EXCEPT !.paused = v])
                 \/ SetConfiguration(a, [config[a] EXCEPT !.frozen = v])
                 \/ SetConfiguration(a, [config[a] EXCEPT !.borrowingEnabled = v])
                 \/ SetConfiguration(a, [config[a] EXCEPT !.supplyCap = v])
                 \/ SetConfiguration(a, [config[a] EXCEPT !.borrowCap = v])
                 \/ SetConfiguration(a, [config[a] EXCEPT !.debtCeiling = v])
                 \/ SetConfiguration(a, [config[a] EXCEPT !.reserveFactor = v])
                 \/ SetConfiguration(a, [config[a] EXCEPT !.liquidationProtocolFee = v])
                 \/ SetConfiguration(a, [config[a] EXCEPT !.borrowableInIsolation = v])
                 \/ SetConfiguration(a, [config[a] EXCEPT !.eModeCategory = v])
      BY <2>4 DEF SetReserveActive, SetReservePause, SetReserveFreeze, SetReserveBorrowing,
          SetSupplyCap, SetBorrowCap, SetDebtCeiling, SetReserveFactor,
          SetLiquidationProtocolFee, SetBorrowableInIsolation, SetAssetEModeCategory
    <3>2. PICK c : /\ c.siloedBorrowing = config[a].siloedBorrowing
                   /\ SetConfiguration(a, c)
      BY <2>2, <3>1 DEF ReserveConfiguration
    <3>3. QED
      BY <1>1, <3>2, SameSiloedFlag
  <2>5. CASE \E p \in AdminChoices.collateral : ConfigureReserveAsCollateral(a, p)
    <3>1. PICK p : SetConfiguration(a, [config[a] EXCEPT !.ltv = p.ltv,
                               !.liquidationThreshold = p.liquidationThreshold,
                               !.liquidationBonus = p.liquidationBonus])
      BY <2>5 DEF ConfigureReserveAsCollateral
    <3>2. PICK c : /\ c.siloedBorrowing = config[a].siloedBorrowing
                   /\ SetConfiguration(a, c)
      BY <2>2, <3>1 DEF ReserveConfiguration
    <3>3. QED
      BY <1>1, <3>2, SameSiloedFlag
  <2>6. QED
    BY <2>1, <2>3, <2>4, <2>5
<1>5. CASE \E b \in AdminChoices.poolPaused : SetPoolPause(b)
  <2>1. PICK b : SetPoolPause(b)
    BY <1>5
  <2>2. \A a \in Assets : config'[a].siloedBorrowing = config[a].siloedBorrowing
    BY <1>1, <2>1 DEF SetPoolPause, ReserveConfiguration
  <2>3. QED
    BY <2>2 DEF NoneSiloed
<1>6. CASE \/ \E c \in Categories, p \in AdminChoices.eMode : SetEModeCategory(c, p)
           \/ \E f \in Feeds : \E p \in PriceChoices[f] : SetPrice(f, p)
           \/ Tick
           \/ UNCHANGED vars
  BY <1>2, <1>6 DEF SetEModeCategory, SetPrice, Tick, vars, adminVars
<1>7. QED
  BY <1>3, <1>4, <1>5, <1>6 DEF Next, WorldStep

(* Of an asset without borrowers, as the configurator reads the total, no  *)
(* account owes anything: the total hides no debt and covers every debt.   *)
LEMMA NoBorrowersNoDebt ==
    ASSUME TypeOK, BooksBalance, NEW a \in Assets, NoBorrowers(a), NEW u \in Accounts
    PROVE  vBalance[a][u] = 0
<1>1. /\ vSupply[a] \in Nat /\ vBalance[a] \in [Accounts -> Nat]
      /\ NormalizedDebt(a) \in Nat \ {0}
  BY CallIndexes DEF TypeOK, LedgersOK
<1>2. vSupply[a] = 0
  BY <1>1, NoDebtIsHidden DEF NoBorrowers
<1>3. vBalance[a][u] <= vSupply[a] /\ vBalance[a][u] \in Nat
  BY <1>1, TotalCovers DEF BooksBalance
<1>4. QED
  BY <1>2, <1>3

(* Whoever opens a debt has no siloed one, or only this one.                *)
LEMMA DebtKeepsSiloedAlone ==
    ASSUME TypeOK, SiloedDebtIsAlone, NEW u \in Users, NEW v \in Users, NEW a \in Assets,
           NEW n \in Nat, NEW released \in Nat, ExecuteBorrow(u, a, n, v, released)
    PROVE  SiloedDebtIsAlone'
<1>0. borrowing \in [Accounts -> SUBSET Assets] /\ config \in [Assets -> ReserveConfiguration]
      /\ Users \subseteq Accounts
  BY DEF TypeOK, AccountsOK, SettingsOK, Accounts
<1>1. /\ borrowing' = WithBit(borrowing, v, a) /\ config' = config
      /\ ValidSiloedBorrow(v, a)
  BY DEF ExecuteBorrow, ValidBorrow, adminVars
<1>2. ASSUME NEW x \in Accounts, NEW b \in borrowing'[x], config'[b].siloedBorrowing
      PROVE  borrowing'[x] = {b}
  <2>1. CASE x # v
    <3>1. borrowing'[x] = borrowing[x]
      BY <1>0, <1>1, <2>1 DEF WithBit
    <3>2. QED
      BY <1>1, <1>2, <3>1 DEF SiloedDebtIsAlone
  <2>2. CASE x = v
    <3>1. borrowing'[x] = borrowing[v] \cup {a} /\ v \in Accounts
      BY <1>0, <1>1, <2>2 DEF WithBit
    <3>2. CASE borrowing[v] = {}
      BY <1>2, <3>1, <3>2
    <3>3. CASE borrowing[v] # {} /\ \E s \in Assets : SiloedIn(v, s)
      <4>1. borrowing[v] = {a}
        BY <1>1, <3>3 DEF ValidSiloedBorrow, isBorrowingAny, SiloedIn
      <4>2. QED
        BY <1>2, <3>1, <4>1
    <3>4. CASE borrowing[v] # {} /\ ~(\E s \in Assets : SiloedIn(v, s))
      <4>1. ~config[a].siloedBorrowing
        BY <1>1, <3>4 DEF ValidSiloedBorrow, isBorrowingAny
      <4>2. b \in borrowing[v] /\ b \in Assets /\ config[b].siloedBorrowing
        BY <1>0, <1>1, <1>2, <3>1, <4>1
      <4>3. borrowing[v] = {b}
        BY <3>1, <4>2 DEF SiloedDebtIsAlone
      <4>4. QED
        BY <3>4, <4>2, <4>3 DEF SiloedIn
    <3>5. QED
      BY <3>2, <3>3, <3>4
  <2>3. QED
    BY <2>1, <2>2
<1>3. QED
  BY <1>2 DEF SiloedDebtIsAlone

LEMMA NextKeepsSiloedAlone ==
    ASSUME TypeOK, BooksBalance, BorrowingBitsMatchDebts, SiloedDebtIsAlone, [Next]_vars
    PROVE  SiloedDebtIsAlone'
<1>0. borrowing \in [Accounts -> SUBSET Assets] /\ config \in [Assets -> ReserveConfiguration]
      /\ Users \subseteq Accounts
  BY DEF TypeOK, AccountsOK, SettingsOK, Accounts
<1>1. CASE NoneSiloed /\ DebtsShrink
  <2> SUFFICES ASSUME NEW u \in Accounts, NEW a \in borrowing'[u], config'[a].siloedBorrowing
               PROVE  borrowing'[u] = {a}
    BY DEF SiloedDebtIsAlone
  <2>1. borrowing'[u] \subseteq borrowing[u] /\ a \in borrowing[u] /\ a \in Assets
    BY <1>0, <1>1 DEF DebtsShrink
  <2>2. config[a].siloedBorrowing
    BY <1>1, <2>1 DEF NoneSiloed
  <2>3. borrowing[u] = {a}
    BY <2>1, <2>2 DEF SiloedDebtIsAlone
  <2>4. QED
    BY <2>1, <2>3
<1>2. CASE \E u \in Users, v \in Users, a \in Assets, n \in Nat : Borrow(u, a, n, v)
  BY <1>2, DebtKeepsSiloedAlone DEF Borrow
<1>3. CASE /\ UNCHANGED <<borrowing, vBalance>>
           /\ \E a \in Assets : SetSiloedBorrowing(a, TRUE)
  <2>1. PICK a \in Assets : SetSiloedBorrowing(a, TRUE)
    BY <1>3
  <2>2. /\ NoBorrowers(a)
        /\ config' = [config EXCEPT ![a] = [config[a] EXCEPT !.siloedBorrowing = TRUE]]
    BY <2>1 DEF SetSiloedBorrowing, SetConfiguration
  <2>3. ASSUME NEW x \in Accounts, NEW b \in borrowing'[x], config'[b].siloedBorrowing
        PROVE  borrowing'[x] = {b}
    <3>1. b \in borrowing[x] /\ b \in Assets
      BY <1>0, <1>3
    <3>2. vBalance[b][x] # 0
      <4>1. vBalance[b][x] > 0 /\ vBalance[b][x] \in Nat
        BY <3>1 DEF BorrowingBitsMatchDebts, TypeOK, LedgersOK
      <4>2. QED
        BY <4>1
    <3>3. b # a
      BY <2>2, <3>1, <3>2, NoBorrowersNoDebt
    <3>4. config[b].siloedBorrowing
      BY <1>0, <2>2, <2>3, <3>1, <3>3
    <3>5. QED
      BY <1>3, <3>1, <3>4 DEF SiloedDebtIsAlone
  <2>4. QED
    BY <2>3 DEF SiloedDebtIsAlone
<1>4. QED
  BY <1>1, <1>2, <1>3, OnlyBorrowsAddDebt, OnlyAdminsSilo

(* In every reachable state a siloed debt is a user's only debt: borrowing *)
(* looks at the debts there are, and an asset is made siloed only while    *)
(* its total debt, however rounded, is nothing.                            *)
THEOREM SiloedStaysAlone == Spec => []SiloedDebtIsAlone
<1>1. Init => SiloedDebtIsAlone
  BY DEF Init, SiloedDebtIsAlone
<1>2. /\ TypeOK /\ BooksBalance /\ BorrowingBitsMatchDebts /\ SiloedDebtIsAlone
      /\ [Next]_vars
      => SiloedDebtIsAlone'
  BY NextKeepsSiloedAlone
<1>3. QED
  BY <1>1, <1>2, TypeCorrect, BooksStayBalanced, BitsAreDebts, PTL DEF Spec

-----------------------------------------------------------------------------
(* Collateral.                                                             *)

(* Of an asset without suppliers, as the configurator reads the total, no  *)
(* account holds a token.                                                  *)
LEMMA NoSuppliersNoTokens ==
    ASSUME TypeOK, BooksBalance, NEW a \in Assets, NoSuppliers(a), NEW u \in Accounts
    PROVE  aBalance[a][u] = 0
<1>1. /\ aSupply[a] \in Nat /\ aBalance[a] \in [Accounts -> Nat]
      /\ NormalizedIncome(a) \in Nat \ {0} /\ NormalizedIncome(a) >= RAY
  BY CallIndexes DEF TypeOK, LedgersOK
<1>2. /\ ATokenBalance(aSupply[a], NormalizedIncome(a)) = 0
      /\ ATokenBalance(aSupply[a], NormalizedIncome(a)) >= aSupply[a]
  BY <1>1, WorthAtLeastScaled DEF NoSuppliers
<1>3. aSupply[a] = 0
  BY <1>1, <1>2
<1>4. aBalance[a][u] <= aSupply[a] /\ aBalance[a][u] \in Nat
  BY <1>1, TotalCovers DEF BooksBalance
<1>5. QED
  BY <1>3, <1>4

(* What the configurator may make of the collateral settings of a reserve. *)
MayBecome(a, c) ==
    /\ \/ c.debtCeiling = config[a].debtCeiling
       \/ config[a].debtCeiling # 0
       \/ NoSuppliers(a)
    /\ \/ /\ c.ltv = config[a].ltv
          /\ c.liquidationThreshold = config[a].liquidationThreshold
          /\ c.liquidationBonus = config[a].liquidationBonus
       \/ /\ c.ltv <= c.liquidationThreshold
          /\ c.liquidationThreshold # 0 => c.liquidationBonus > PERCENTAGE_FACTOR
          /\ c.liquidationThreshold = 0 => NoSuppliers(a)

LEMMA OneReserveConfigured ==
    ASSUME SettingsOK, NEW a \in Assets, NEW c, SetConfiguration(a, c), MayBecome(a, c)
    PROVE  /\ \A x \in Assets : MayBecome(x, config'[x])
           /\ UNCHANGED <<eModeCategories, aBalance, usingAsCollateral, userEMode>>
<1>1. config \in [Assets -> ReserveConfiguration] /\ config' = [config EXCEPT ![a] = c]
  BY DEF SettingsOK, SetConfiguration
<1>2. \A x \in Assets : MayBecome(x, config[x])
  BY DEF MayBecome
<1>3. QED
  BY <1>1, <1>2 DEF SetConfiguration, ledgerVars, bitVars

(* A setting that is none of a collateral's may take any value.            *)
LEMMA OtherSettings ==
    ASSUME NEW a \in Assets, config[a] \in ReserveConfiguration, NEW v
    PROVE  /\ MayBecome(a, [config[a] EXCEPT !.active = v])
           /\ MayBecome(a, [config[a] EXCEPT !.paused = v])
           /\ MayBecome(a, [config[a] EXCEPT !.frozen = v])
           /\ MayBecome(a, [config[a] EXCEPT !.borrowingEnabled = v])
           /\ MayBecome(a, [config[a] EXCEPT !.supplyCap = v])
           /\ MayBecome(a, [config[a] EXCEPT !.borrowCap = v])
           /\ MayBecome(a, [config[a] EXCEPT !.siloedBorrowing = v])
           /\ MayBecome(a, [config[a] EXCEPT !.reserveFactor = v])
           /\ MayBecome(a, [config[a] EXCEPT !.liquidationProtocolFee = v])
           /\ MayBecome(a, [config[a] EXCEPT !.borrowableInIsolation = v])
           /\ MayBecome(a, [config[a] EXCEPT !.eModeCategory = v])
BY DEF MayBecome, ReserveConfiguration

LEMMA CollateralSettings ==
    ASSUME TypeOK, [Next]_vars
    PROVE  \/ UNCHANGED <<config, eModeCategories>>
           \/ /\ \A a \in Assets : MayBecome(a, config'[a])
              /\ UNCHANGED <<eModeCategories, aBalance, usingAsCollateral, userEMode>>
           \/ \E c \in Categories, p \in EModeCategory : SetEModeCategory(c, p)
<1>1. SettingsOK /\ config \in [Assets -> ReserveConfiguration]
  BY DEF TypeOK, SettingsOK
<1>2. CASE UserCall
  BY <1>2, UserCallsKeepSettings
<1>3. CASE AdminStep
  <2>1. PICK a \in Assets :
            \/ \E b \in AdminChoices.active : SetReserveActive(a, b)
            \/ \E b \in AdminChoices.paused : SetReservePause(a, b)
            \/ \E b \in AdminChoices.frozen : SetReserveFreeze(a, b)
            \/ \E b \in AdminChoices.borrowing : SetReserveBorrowing(a, b)
            \/ \E n \in AdminChoices.supplyCap : SetSupplyCap(a, n)
            \/ \E n \in AdminChoices.borrowCap : SetBorrowCap(a, n)
            \/ \E b \in AdminChoices.siloed : SetSiloedBorrowing(a, b)
            \/ \E n \in AdminChoices.debtCeiling : SetDebtCeiling(a, n)
            \/ \E n \in AdminChoices.reserveFactor : SetReserveFactor(a, n)
            \/ \E p \in AdminChoices.collateral : ConfigureReserveAsCollateral(a, p)
            \/ \E n \in AdminChoices.protocolFee : SetLiquidationProtocolFee(a, n)
            \/ \E b \in AdminChoices.isolated : SetBorrowableInIsolation(a, b)
            \/ \E c \in AdminChoices.category : SetAssetEModeCategory(a, c)
    BY <1>3, PoolAssumption DEF AdminStep
  <2>2. config[a] \in ReserveConfiguration
    BY <1>1
  <2>3. CASE \E n \in AdminChoices.debtCeiling : SetDebtCeiling(a, n)
    <3>1. PICK n : SetDebtCeiling(a, n)
      BY <2>3
    <3> DEFINE c == [config[a] EXCEPT !.debtCeiling = n]
    <3>2. SetConfiguration(a, c)
      BY <3>1 DEF SetDebtCeiling
    <3>3. MayBecome(a, c)
      <4>1. config[a].debtCeiling = 0 => NoSuppliers(a)
        BY <3>1 DEF SetDebtCeiling
      <4>2. /\ c.ltv = config[a].ltv
            /\ c.liquidationThreshold = config[a].liquidationThreshold
            /\ c.liquidationBonus = config[a].liquidationBonus
        BY <2>2 DEF ReserveConfiguration
      <4>3. QED
        BY <4>1, <4>2 DEF MayBecome
    <3> HIDE DEF c
    <3>4. QED
      BY <1>1, <3>2, <3>3, OneReserveConfigured
  <2>4. CASE \E p \in AdminChoices.collateral : ConfigureReserveAsCollateral(a, p)
    <3>1. PICK p \in [ltv: Nat, liquidationThreshold: Nat, liquidationBonus: Bonus] :
              ConfigureReserveAsCollateral(a, p)
      BY <2>4, PoolAssumption
    <3> DEFINE c == [config[a] EXCEPT !.ltv = p.ltv,
                                      !.liquidationThreshold = p.liquidationThreshold,
                                      !.liquidationBonus = p.liquidationBonus]
    <3>2. SetConfiguration(a, c)
      BY <3>1 DEF ConfigureReserveAsCollateral
    <3>3. MayBecome(a, c)
      <4>1. /\ p.ltv <= p.liquidationThreshold
            /\ p.liquidationThreshold # 0 => p.liquidationBonus > PERCENTAGE_FACTOR
            /\ p.liquidationThreshold = 0 => NoSuppliers(a)
        BY <3>1 DEF ConfigureReserveAsCollateral
      <4>2. /\ c.debtCeiling = config[a].debtCeiling /\ c.ltv = p.ltv
            /\ c.liquidationThreshold = p.liquidationThreshold
            /\ c.liquidationBonus = p.liquidationBonus
        BY <2>2 DEF ReserveConfiguration
      <4>3. QED
        BY <4>1, <4>2 DEF MayBecome
    <3> HIDE DEF c
    <3>4. QED
      BY <1>1, <3>2, <3>3, OneReserveConfigured
  <2>5. CASE \/ \E b \in AdminChoices.active : SetReserveActive(a, b)
             \/ \E b \in AdminChoices.paused : SetReservePause(a, b)
             \/ \E b \in AdminChoices.frozen : SetReserveFreeze(a, b)
             \/ \E b \in AdminChoices.borrowing : SetReserveBorrowing(a, b)
             \/ \E n \in AdminChoices.supplyCap : SetSupplyCap(a, n)
             \/ \E n \in AdminChoices.borrowCap : SetBorrowCap(a, n)
             \/ \E b \in AdminChoices.siloed : SetSiloedBorrowing(a, b)
             \/ \E n \in AdminChoices.reserveFactor : SetReserveFactor(a, n)
             \/ \E n \in AdminChoices.protocolFee : SetLiquidationProtocolFee(a, n)
             \/ \E b \in AdminChoices.isolated : SetBorrowableInIsolation(a, b)
             \/ \E c \in AdminChoices.category : SetAssetEModeCategory(a, c)
    <3>1. \E v : \/ SetConfiguration(a, [config[a] EXCEPT !.active = v])
                 \/ SetConfiguration(a, [config[a] EXCEPT !.paused = v])
                 \/ SetConfiguration(a, [config[a] EXCEPT !.frozen = v])
                 \/ SetConfiguration(a, [config[a] EXCEPT !.borrowingEnabled = v])
                 \/ SetConfiguration(a, [config[a] EXCEPT !.supplyCap = v])
                 \/ SetConfiguration(a, [config[a] EXCEPT !.borrowCap = v])
                 \/ SetConfiguration(a, [config[a] EXCEPT !.siloedBorrowing = v])
                 \/ SetConfiguration(a, [config[a] EXCEPT !.reserveFactor = v])
                 \/ SetConfiguration(a, [config[a] EXCEPT !.liquidationProtocolFee = v])
                 \/ SetConfiguration(a, [config[a] EXCEPT !.borrowableInIsolation = v])
                 \/ SetConfiguration(a, [config[a] EXCEPT !.eModeCategory = v])
      BY <2>5 DEF SetReserveActive, SetReservePause, SetReserveFreeze, SetReserveBorrowing,
          SetSupplyCap, SetBorrowCap, SetSiloedBorrowing, SetReserveFactor,
          SetLiquidationProtocolFee, SetBorrowableInIsolation, SetAssetEModeCategory
    <3>2. PICK c : MayBecome(a, c) /\ SetConfiguration(a, c)
      BY <2>2, <3>1, OtherSettings
    <3>3. QED
      BY <1>1, <3>2, OneReserveConfigured
  <2>6. QED
    BY <2>1, <2>3, <2>4, <2>5
<1>4. CASE \E b \in AdminChoices.poolPaused : SetPoolPause(b)
  <2>1. PICK b : SetPoolPause(b)
    BY <1>4
  <2>2. ASSUME NEW a \in Assets PROVE MayBecome(a, config'[a])
    <3>1. config'[a] = [config[a] EXCEPT !.paused = b] /\ config[a] \in ReserveConfiguration
      BY <1>1, <2>1 DEF SetPoolPause
    <3>2. QED
      BY <3>1, OtherSettings
  <2>3. QED
    BY <2>1, <2>2 DEF SetPoolPause, ledgerVars, bitVars
<1>5. CASE \E c \in Categories, p \in AdminChoices.eMode : SetEModeCategory(c, p)
  BY <1>5, PoolAssumption
<1>6. CASE \/ \E f \in Feeds : \E p \in PriceChoices[f] : SetPrice(f, p)
           \/ Tick
           \/ UNCHANGED vars
  BY <1>6 DEF SetPrice, Tick, vars, adminVars
<1>7. QED
  BY <1>2, <1>3, <1>4, <1>5, <1>6 DEF Next, WorldStep

(* The collateral bits of u in a step: nothing is switched on, or one      *)
(* asset that the user may use, or the user's category is chosen.          *)
LEMMA NewCollateral ==
    ASSUME TypeOK, [Next]_vars, NEW u \in Accounts
    PROVE  \/ usingAsCollateral'[u] \subseteq usingAsCollateral[u] /\ UNCHANGED userEMode
           \/ \E b \in Assets :
                 /\ usingAsCollateral'[u] \subseteq usingAsCollateral[u] \cup {b}
                 /\ MayUseAsCollateral(u, b)
                 /\ UNCHANGED <<config, eModeCategories, userEMode>>
           \/ /\ UNCHANGED <<config, eModeCategories, usingAsCollateral>>
              /\ \E x \in Users, c \in Categories \cup {0} : SetUserEMode(x, c)
<1>0. usingAsCollateral \in [Accounts -> SUBSET Assets] /\ Users \subseteq Accounts
  BY DEF TypeOK, AccountsOK, Accounts
<1>1. ASSUME NEW x \in Users, NEW y \in Users, NEW a \in Assets, NEW n \in Nat,
             \/ Supply(x, a, n, y) \/ Withdraw(x, a, n, y) \/ Transfer(x, a, n, y)
             \/ Borrow(x, a, n, y) \/ Repay(x, a, n, y) \/ RepayWithATokens(x, a, n)
             \/ ApproveDelegation(x, a, y, n)
      PROVE  \/ usingAsCollateral'[u] \subseteq usingAsCollateral[u]
             \/ \E b \in Assets :
                   /\ usingAsCollateral'[u] \subseteq usingAsCollateral[u] \cup {b}
                   /\ MayUseAsCollateral(u, b)
  <2>0. x \in Accounts /\ y \in Accounts
    BY <1>0
  <2>1. CASE Supply(x, a, n, y)
    <3>1. \/ usingAsCollateral' = usingAsCollateral
          \/ /\ usingAsCollateral' = WithBit(usingAsCollateral, y, a)
             /\ MayUseAsCollateral(y, a)
      BY <2>1 DEF Supply, AutomaticUseAsCollateral
    <3>2. QED
      BY <1>0, <2>0, <3>1 DEF WithBit
  <2>2. CASE Withdraw(x, a, n, y)
    BY <1>0, <2>0, <2>2 DEF Withdraw, WithoutBit
  <2>3. CASE Transfer(x, a, n, y)
    <3> DEFINE after == IF ATokenTransferScaled(n, NormalizedIncome(a)) = aBalance[a][x]
                          THEN WithoutBit(usingAsCollateral, x, a)
                          ELSE usingAsCollateral
    <3>1. \/ usingAsCollateral' = usingAsCollateral
          \/ usingAsCollateral' = after
          \/ usingAsCollateral' = WithBit(after, y, a) /\ MayUseAsCollateral(y, a)
      BY <2>3 DEF Transfer, BitsAfterTransfer
    <3>2. /\ after \in [Accounts -> SUBSET Assets]
          /\ \A z \in Accounts : after[z] \subseteq usingAsCollateral[z]
      BY <1>0, <2>0 DEF WithoutBit
    <3> HIDE DEF after
    <3>3. QED
      BY <1>0, <2>0, <3>1, <3>2 DEF WithBit
  <2>4. CASE RepayWithATokens(x, a, n)
    BY <1>0, <2>0, <2>4 DEF RepayWithATokens, WithoutBit
  <2>5. CASE Borrow(x, a, n, y) \/ Repay(x, a, n, y) \/ ApproveDelegation(x, a, y, n)
    BY <2>5 DEF Borrow, ExecuteBorrow, Repay, ApproveDelegation, bitVars
  <2>6. QED
    BY <1>1, <2>1, <2>2, <2>3, <2>4, <2>5
<1>2. ASSUME NEW x \in Users, NEW y \in Users, NEW a \in Assets, NEW n \in Nat,
             \/ Supply(x, a, n, y) \/ Withdraw(x, a, n, y) \/ Transfer(x, a, n, y)
             \/ Borrow(x, a, n, y) \/ Repay(x, a, n, y) \/ RepayWithATokens(x, a, n)
             \/ ApproveDelegation(x, a, y, n)
      PROVE  UNCHANGED <<config, eModeCategories, userEMode>>
  BY <1>2 DEF Supply, Withdraw, Transfer, Borrow, ExecuteBorrow, Repay, RepayWithATokens,
      ApproveDelegation, adminVars
<1>3. ASSUME NEW x \in Users, NEW a \in Assets, NEW on \in BOOLEAN,
             SetUserUseReserveAsCollateral(x, a, on)
      PROVE  /\ \/ usingAsCollateral'[u] \subseteq usingAsCollateral[u]
                \/ \E b \in Assets :
                      /\ usingAsCollateral'[u] \subseteq usingAsCollateral[u] \cup {b}
                      /\ MayUseAsCollateral(u, b)
             /\ UNCHANGED <<config, eModeCategories, userEMode>>
  <2>1. \/ usingAsCollateral' = WithoutBit(usingAsCollateral, x, a)
        \/ usingAsCollateral' = WithBit(usingAsCollateral, x, a) /\ MayUseAsCollateral(x, a)
    BY <1>3 DEF SetUserUseReserveAsCollateral
  <2>2. UNCHANGED <<config, eModeCategories, userEMode>>
    BY <1>3 DEF SetUserUseReserveAsCollateral, adminVars
  <2>3. QED
    BY <1>0, <2>1, <2>2 DEF WithBit, WithoutBit
<1>4. ASSUME NEW w \in Users, NEW x \in Users, NEW c \in Assets, NEW d \in Assets,
             NEW n \in Nat, NEW receive \in BOOLEAN,
             LiquidationCall(w, x, c, d, n, receive)
      PROVE  /\ \/ usingAsCollateral'[u] \subseteq usingAsCollateral[u]
                \/ \E b \in Assets :
                      /\ usingAsCollateral'[u] \subseteq usingAsCollateral[u] \cup {b}
                      /\ MayUseAsCollateral(u, b)
             /\ UNCHANGED <<config, eModeCategories, userEMode>>
  <2>1. PICK o \in LiquidationAmounts : LiquidationMoves(w, x, c, d, n, receive, o)
    BY <1>4, LiquidationOutcome
  <2> DEFINE after == IF \/ o.collateral + o.fee = ATokenBalanceOf(x, c)
                         \/ aBalance[c][x] - o.seized = o.feeScaled
                        THEN WithoutBit(usingAsCollateral, x, c)
                        ELSE usingAsCollateral
  <2>2. \/ usingAsCollateral' = after
        \/ usingAsCollateral' = WithBit(after, w, c) /\ MayUseAsCollateral(w, c)
    BY <2>1 DEF LiquidationMoves, AutomaticUseAsCollateral
  <2>3. UNCHANGED <<config, eModeCategories, userEMode>>
    BY <2>1 DEF LiquidationMoves, adminVars
  <2>4. /\ after \in [Accounts -> SUBSET Assets]
        /\ \A z \in Accounts : after[z] \subseteq usingAsCollateral[z]
    BY <1>0 DEF WithoutBit
  <2> HIDE DEF after
  <2>5. QED
    BY <1>0, <2>2, <2>3, <2>4 DEF WithBit
<1>5. CASE \E a \in Assets : MintToTreasury(a)
  BY <1>5 DEF MintToTreasury, bitVars
<1>6. CASE \E x \in Users, c \in Categories \cup {0} : SetUserEMode(x, c)
  BY <1>6 DEF SetUserEMode, bitVars, adminVars
<1>7. CASE UNCHANGED <<ledgerVars, borrowAllowance, bitVars, userEMode>>
  BY <1>7 DEF bitVars
<1>8. QED
  BY <1>1, <1>2, <1>3, <1>4, <1>5, <1>6, <1>7, StepCases

(* What stands for tokens and alone stays alone: what is switched on may   *)
(* be, and a debt ceiling comes only to an asset nobody supplies.          *)
LEMMA NextKeepsIsolation ==
    ASSUME TypeOK, BooksBalance, [Next]_vars, NEW u \in Accounts,
           BitsHaveTokens(u), IsolatedAlone(u)
    PROVE  IsolatedAlone(u)'
<1>0. usingAsCollateral[u] \subseteq Assets
  BY DEF TypeOK, AccountsOK
<1>1. CASE UNCHANGED <<config, eModeCategories>>
  <2>1. CASE usingAsCollateral'[u] \subseteq usingAsCollateral[u]
    BY <1>1, <2>1 DEF IsolatedAlone
  <2>2. ASSUME NEW b \in Assets,
               usingAsCollateral'[u] \subseteq usingAsCollateral[u] \cup {b},
               MayUseAsCollateral(u, b)
        PROVE  IsolatedAlone(u)'
    <3>1. CASE usingAsCollateral[u] = {}
      BY <2>2, <3>1 DEF IsolatedAlone
    <3>2. CASE ~isolationModeActive(u) /\ config[b].debtCeiling = 0
      <4>1. ASSUME NEW a \in usingAsCollateral'[u], config'[a].debtCeiling # 0
            PROVE  FALSE
        <5>1. a \in usingAsCollateral[u] /\ config[a].debtCeiling # 0 /\ a \in Assets
          BY <1>0, <1>1, <2>2, <3>2, <4>1
        <5>2. usingAsCollateral[u] = {a}
          BY <5>1 DEF IsolatedAlone
        <5>3. QED
          BY <3>2, <5>1, <5>2 DEF isolationModeActive, InIsolation
      <4>2. QED
        BY <4>1 DEF IsolatedAlone
    <3>3. QED
      BY <2>2, <3>1, <3>2 DEF MayUseAsCollateral
  <2>3. QED
    BY <1>1, <2>1, <2>2, NewCollateral DEF IsolatedAlone
<1>2. CASE /\ \A a \in Assets : MayBecome(a, config'[a])
           /\ UNCHANGED <<eModeCategories, aBalance, usingAsCollateral, userEMode>>
  <2>1. ASSUME NEW a \in usingAsCollateral[u], config'[a].debtCeiling # 0
        PROVE  usingAsCollateral[u] = {a}
    <3>1. a \in Assets /\ MayBecome(a, config'[a])
      BY <1>0, <1>2
    <3>2. ~NoSuppliers(a)
      <4>1. aBalance[a][u] > 0 /\ aBalance[a][u] \in Nat
        BY <3>1 DEF BitsHaveTokens, TypeOK, LedgersOK
      <4>2. QED
        BY <3>1, <4>1, NoSuppliersNoTokens
    <3>3. config[a].debtCeiling # 0
      BY <2>1, <3>1, <3>2 DEF MayBecome
    <3>4. QED
      BY <3>3 DEF IsolatedAlone
  <2>2. QED
    BY <1>2, <2>1 DEF IsolatedAlone
<1>3. CASE \E c \in Categories, p \in EModeCategory : SetEModeCategory(c, p)
  BY <1>3 DEF SetEModeCategory, bitVars, IsolatedAlone
<1>4. QED
  BY <1>1, <1>2, <1>3, CollateralSettings

(* No step of anybody puts other collateral next to an isolated one, for a *)
(* user whose collateral bits stand for aTokens.                           *)
THEOREM IsolationStays == Spec => IsolationIsKept
<1>1. TypeOK /\ BooksBalance /\ [Next]_vars
      => [\A u \in Accounts :
             BitsHaveTokens(u) /\ IsolatedAlone(u) => IsolatedAlone(u)']_vars
  BY NextKeepsIsolation
<1>2. QED
  BY <1>1, TypeCorrect, BooksStayBalanced, PTL DEF Spec, IsolationIsKept

(* So as long as every bit stands for tokens, isolated collateral is the   *)
(* only collateral of its user.                                            *)
THEOREM IsolatedWithTokens ==
    Spec /\ [](\A u \in Accounts : BitsHaveTokens(u))
      => [](\A u \in Accounts : IsolatedAlone(u))
<1>1. Init => \A u \in Accounts : IsolatedAlone(u)
  BY DEF Init, IsolatedAlone
<1>2. /\ TypeOK /\ BooksBalance /\ (\A u \in Accounts : BitsHaveTokens(u))
      /\ (\A u \in Accounts : IsolatedAlone(u)) /\ [Next]_vars
      => (\A u \in Accounts : IsolatedAlone(u))'
  BY NextKeepsIsolation
<1>3. QED
  BY <1>1, <1>2, TypeCorrect, BooksStayBalanced, PTL DEF Spec

(* The parameters of a position: whatever has a threshold has a bonus that *)
(* pays, no loan to value is above its threshold, and a category somebody  *)
(* is in has a threshold.                                                  *)
SoundParameters ==
    /\ \A a \in Assets :
          /\ config[a].ltv <= config[a].liquidationThreshold
          /\ config[a].liquidationThreshold # 0
               => config[a].liquidationBonus > PERCENTAGE_FACTOR
    /\ \A c \in Categories :
          /\ eModeCategories[c].ltv <= eModeCategories[c].liquidationThreshold
          /\ eModeCategories[c].liquidationThreshold # 0
               => eModeCategories[c].liquidationBonus > PERCENTAGE_FACTOR
    /\ \A u \in Accounts :
          userEMode[u] # 0 => eModeCategories[userEMode[u]].liquidationThreshold # 0

LEMMA NextKeepsParameters ==
    ASSUME TypeOK, SoundParameters, [Next]_vars
    PROVE  SoundParameters'
<1>0. /\ userEMode \in [Accounts -> Categories \cup {0}] /\ Users \subseteq Accounts
      /\ eModeCategories \in [Categories -> EModeCategory]
  BY DEF TypeOK, AccountsOK, SettingsOK, Accounts
<1>1. CASE UNCHANGED <<config, eModeCategories>>
  <2>1. ASSUME NEW u \in Accounts, userEMode'[u] # 0
        PROVE  eModeCategories[userEMode'[u]].liquidationThreshold # 0
    <3>1. CASE UNCHANGED userEMode
      BY <2>1, <3>1 DEF SoundParameters
    <3>2. ASSUME NEW x \in Users, NEW c \in Categories \cup {0}, SetUserEMode(x, c)
          PROVE  eModeCategories[userEMode'[u]].liquidationThreshold # 0
      <4>1. /\ userEMode' = [userEMode EXCEPT ![x] = c]
            /\ c # 0 => eModeCategories[c].liquidationThreshold # 0
        BY <3>2 DEF SetUserEMode
      <4>2. CASE u = x
        BY <1>0, <2>1, <4>1, <4>2
      <4>3. CASE u # x
        BY <1>0, <2>1, <4>1, <4>3 DEF SoundParameters
      <4>4. QED
        BY <4>2, <4>3
    <3>3. QED
      BY <3>1, <3>2, NewCollateral
  <2>2. QED
    BY <1>1, <2>1 DEF SoundParameters
<1>2. CASE /\ \A a \in Assets : MayBecome(a, config'[a])
           /\ UNCHANGED <<eModeCategories, aBalance, usingAsCollateral, userEMode>>
  <2>1. ASSUME NEW a \in Assets
        PROVE  /\ config'[a].ltv <= config'[a].liquidationThreshold
               /\ config'[a].liquidationThreshold # 0
                    => config'[a].liquidationBonus > PERCENTAGE_FACTOR
    BY <1>2 DEF MayBecome, SoundParameters
  <2>2. QED
    BY <1>2, <2>1 DEF SoundParameters
<1>3. CASE \E c \in Categories, p \in EModeCategory : SetEModeCategory(c, p)
  <2>1. PICK c \in Categories, p \in EModeCategory : SetEModeCategory(c, p)
    BY <1>3
  <2>2. /\ eModeCategories' = [eModeCategories EXCEPT ![c] = p]
        /\ p.ltv # 0 /\ p.ltv <= p.liquidationThreshold
        /\ p.liquidationBonus > PERCENTAGE_FACTOR
        /\ UNCHANGED <<config, userEMode>>
    BY <2>1 DEF SetEModeCategory
  <2>3. p.liquidationThreshold # 0
    BY <2>2 DEF EModeCategory
  <2>4. ASSUME NEW e \in Categories
        PROVE  /\ eModeCategories'[e].ltv <= eModeCategories'[e].liquidationThreshold
               /\ eModeCategories'[e].liquidationThreshold # 0
                    => eModeCategories'[e].liquidationBonus > PERCENTAGE_FACTOR
               /\ eModeCategories[e].liquidationThreshold # 0
                    => eModeCategories'[e].liquidationThreshold # 0
    <3>1. eModeCategories'[e] = IF e = c THEN p ELSE eModeCategories[e]
      BY <1>0, <2>2
    <3>2. QED
      BY <2>2, <2>3, <3>1 DEF SoundParameters
  <2>5. ASSUME NEW u \in Accounts, userEMode[u] # 0
        PROVE  eModeCategories'[userEMode[u]].liquidationThreshold # 0
    BY <1>0, <2>4, <2>5 DEF SoundParameters
  <2>6. QED
    BY <2>2, <2>4, <2>5 DEF SoundParameters
<1>4. QED
  BY <1>1, <1>2, <1>3, CollateralSettings

LEMMA InitialParameters == Init => SoundParameters
<1> SUFFICES ASSUME Init PROVE SoundParameters
  OBVIOUS
<1>1. config = InitialConfig /\ eModeCategories = InitialCategories
  BY DEF Init
<1>2. \A u \in Accounts : userEMode[u] = 0
  BY DEF Init
<1>3. QED
  BY <1>1, <1>2, PoolAssumption DEF SoundParameters

THEOREM ParametersStaySound == Spec => []SoundParameters
<1>1. TypeOK /\ SoundParameters /\ [Next]_vars => SoundParameters'
  BY NextKeepsParameters
<1>2. QED
  BY <1>1, InitialParameters, TypeCorrect, PTL DEF Spec

(* With sound parameters a threshold in the configuration is enough.       *)
HasThresholds(u) ==
    \A a \in usingAsCollateral[u] : config[a].liquidationThreshold > 0

ThresholdsSuffice == \A u \in Accounts : HasThresholds(u) => Seizable(u)

LEMMA SeizableByThreshold == TypeOK /\ SoundParameters => ThresholdsSuffice
<1> SUFFICES ASSUME TypeOK, SoundParameters, NEW u \in Accounts, HasThresholds(u)
             PROVE  Seizable(u)
  BY DEF ThresholdsSuffice
<1>0. /\ usingAsCollateral[u] \subseteq Assets
      /\ userEMode[u] \in Categories \cup {0}
      /\ config \in [Assets -> ReserveConfiguration]
      /\ eModeCategories \in [Categories -> EModeCategory]
  BY DEF TypeOK, AccountsOK, SettingsOK
<1>1. ASSUME NEW a \in usingAsCollateral[u]
      PROVE  /\ config[a].liquidationThreshold > 0
             /\ config[a].liquidationBonus > PERCENTAGE_FACTOR
             /\ ThresholdFor(userEMode[u], a) > 0
             /\ LiquidationBonus(u, a) > PERCENTAGE_FACTOR
  <2>1. a \in Assets /\ config[a].liquidationThreshold > 0
    BY <1>0 DEF HasThresholds
  <2>2. config[a].liquidationThreshold \in Nat
    BY <1>0, <2>1 DEF ReserveConfiguration
  <2>3. config[a].liquidationBonus > PERCENTAGE_FACTOR
    BY <2>1, <2>2 DEF SoundParameters
  <2>4. CASE isInEModeCategory(userEMode[u], a)
    <3>1. userEMode[u] # 0 /\ userEMode[u] \in Categories
      BY <1>0, <2>4 DEF isInEModeCategory
    <3>2. /\ eModeCategories[userEMode[u]].liquidationThreshold # 0
          /\ eModeCategories[userEMode[u]].liquidationBonus > PERCENTAGE_FACTOR
      BY <3>1 DEF SoundParameters
    <3>3. eModeCategories[userEMode[u]].liquidationThreshold \in Nat
      BY <1>0, <3>1 DEF EModeCategory
    <3>4. QED
      BY <2>1, <2>3, <2>4, <3>2, <3>3 DEF ThresholdFor, LiquidationBonus
  <2>5. CASE ~isInEModeCategory(userEMode[u], a)
    BY <2>1, <2>3, <2>5 DEF ThresholdFor, LiquidationBonus
  <2>6. QED
    BY <2>4, <2>5
<1>2. QED
  BY <1>1 DEF Seizable

LEMMA SeizableByThresholdAfter == TypeOK' /\ SoundParameters' => ThresholdsSuffice'
BY SeizableByThreshold, PTL

LEMMA NextKeepsThresholds ==
    ASSUME TypeOK, BooksBalance, SoundParameters, [Next]_vars, NEW u \in Accounts,
           BitsHaveTokens(u), HasThresholds(u)
    PROVE  HasThresholds(u)'
<1>0. /\ usingAsCollateral[u] \subseteq Assets /\ config \in [Assets -> ReserveConfiguration]
      /\ TypeOK'
  BY NextSound DEF TypeOK, AccountsOK, SettingsOK
<1>1. CASE UNCHANGED <<config, eModeCategories>>
  <2>1. ASSUME NEW b \in Assets, MayUseAsCollateral(u, b)
        PROVE  config[b].liquidationThreshold > 0
    <3>1. config[b].ltv # 0 /\ config[b].ltv <= config[b].liquidationThreshold
      BY <2>1 DEF MayUseAsCollateral, SoundParameters
    <3>2. config[b].ltv \in Nat /\ config[b].liquidationThreshold \in Nat
      BY <1>0 DEF ReserveConfiguration
    <3>3. QED
      BY <3>1, <3>2
  <2>2. QED
    BY <1>1, <2>1, NewCollateral DEF HasThresholds
<1>2. CASE /\ \A a \in Assets : MayBecome(a, config'[a])
           /\ UNCHANGED <<eModeCategories, aBalance, usingAsCollateral, userEMode>>
  <2>1. ASSUME NEW a \in usingAsCollateral[u]
        PROVE  config'[a].liquidationThreshold > 0
    <3>1. a \in Assets /\ MayBecome(a, config'[a])
      BY <1>0, <1>2
    <3>2. ~NoSuppliers(a)
      <4>1. aBalance[a][u] > 0 /\ aBalance[a][u] \in Nat
        BY <3>1 DEF BitsHaveTokens, TypeOK, LedgersOK
      <4>2. QED
        BY <3>1, <4>1, NoSuppliersNoTokens
    <3>3. config'[a].liquidationThreshold \in Nat /\ config[a].liquidationThreshold > 0
      BY <1>0, <3>1 DEF TypeOK, SettingsOK, ReserveConfiguration, HasThresholds
    <3>4. QED
      BY <3>1, <3>2, <3>3 DEF MayBecome
  <2>2. QED
    BY <1>2, <2>1 DEF HasThresholds
<1>3. CASE \E c \in Categories, p \in EModeCategory : SetEModeCategory(c, p)
  BY <1>3 DEF SetEModeCategory, bitVars, HasThresholds
<1>4. QED
  BY <1>1, <1>2, <1>3, CollateralSettings

(* Collateral that can be seized, by a user whose bits stand for aTokens,  *)
(* can be seized after any step.                                           *)
LEMMA NextKeepsSeizable ==
    ASSUME TypeOK, BooksBalance, SoundParameters, [Next]_vars, NEW u \in Accounts,
           BitsHaveTokens(u), Seizable(u)
    PROVE  Seizable(u)'
<1>1. TypeOK' /\ SoundParameters' /\ HasThresholds(u)'
  <2>1. HasThresholds(u)
    BY DEF Seizable, HasThresholds
  <2>2. QED
    BY <2>1, NextSound, NextKeepsParameters, NextKeepsThresholds
<1>2. QED
  BY <1>1, SeizableByThresholdAfter DEF ThresholdsSuffice

(* No admin takes the threshold or the bonus from collateral in use, and   *)
(* no call switches on what has none: for a user whose bits stand for      *)
(* aTokens the collateral stays one that a liquidator can be paid with.    *)
THEOREM SeizabilityStays == Spec => CollateralStaysSeizable
<1>1. TypeOK /\ BooksBalance /\ SoundParameters /\ [Next]_vars
      => [\A u \in Accounts :
             BitsHaveTokens(u) /\ Seizable(u) => Seizable(u)']_vars
  BY NextKeepsSeizable
<1>2. QED
  BY <1>1, TypeCorrect, BooksStayBalanced, ParametersStaySound, PTL
  DEF Spec, CollateralStaysSeizable
=============================================================================
