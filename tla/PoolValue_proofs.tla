--------------------------- MODULE PoolValue_proofs ---------------------------
(***************************************************************************)
(* What a call does to the books of a reserve, proved for every call:      *)
(* either the reserve is left alone, or its treasury is paid, or it is     *)
(* settled, exchanges value at the settled indexes without a loss, and is  *)
(* rated for what it then holds.  That no call takes value out of a        *)
(* reserve, that the rates in storage are fresh, and that an accrual is    *)
(* only ever paid to the treasury follow from this one fact.  The second   *)
(* half is about those who leave: that exits are complete, bits go with    *)
(* the last unit, and a liquidator takes no more than it pays for.  The    *)
(* last part is about those who stay: no call makes a healthy user         *)
(* liquidatable, and the arithmetic keeps nobody from liquidating others.  *)
(***************************************************************************)
EXTENDS PoolInvariants_proofs

(* Two reserve records that differ at most in the isolated debt.           *)
SameBooks(r, s) ==
    /\ s.liquidityIndex = r.liquidityIndex
    /\ s.variableBorrowIndex = r.variableBorrowIndex
    /\ s.currentLiquidityRate = r.currentLiquidityRate
    /\ s.currentVariableBorrowRate = r.currentVariableBorrowRate
    /\ s.lastUpdateTimestamp = r.lastUpdateTimestamp
    /\ s.accruedToTreasury = r.accruedToTreasury

(* Reserve a is settled as of now, and its rates are those of what it holds *)
(* after the call.                                                         *)
Settled(a) ==
    LET r == UpdatedReserve(a)
        rates == InterestRates(a, VTokenBalance(vSupply'[a], r.variableBorrowIndex),
                               cash'[a], config'[a].reserveFactor)
    IN  SameBooks([r EXCEPT !.currentLiquidityRate = rates.liquidity,
                            !.currentVariableBorrowRate = rates.variable],
                  reserve'[a])

(* At the settled indexes of a what comes in is worth at least what goes.  *)
FairExchange(a) ==
    LET r == UpdatedReserve(a)
    IN  (RAY * cash'[a] + vSupply'[a] * r.variableBorrowIndex)
          + aSupply[a] * r.liquidityIndex
        >= (RAY * cash[a] + vSupply[a] * r.variableBorrowIndex)
             + aSupply'[a] * r.liquidityIndex

(* The step does not touch what reserve a owns, owes or earns.             *)
Idle(a) ==
    /\ SameBooks(reserve[a], reserve'[a])
    /\ aSupply'[a] = aSupply[a]
    /\ vSupply'[a] = vSupply[a]
    /\ cash'[a] = cash[a]
    /\ config'[a].reserveFactor = config[a].reserveFactor

(* What a step may do to a reserve.                                        *)
FairStep(a) ==
    \/ Idle(a)
    \/ now' = now /\ Settled(a) /\ FairExchange(a)
    \/ now' = now /\ MintToTreasury(a)

-----------------------------------------------------------------------------
(* The records.                                                            *)

(* The isolated debt of a reserve is kept apart from its books.            *)
LEMMA IsolatedDebtApart ==
    ASSUME NEW rs \in [Assets -> ReserveData], NEW u, NEW a, NEW n, NEW c \in Assets
    PROVE  /\ SameBooks(rs[c], WithIsolatedDebtRepaid(rs, u, a, n)[c])
           /\ SameBooks(rs[c], WithIsolatedDebtBorrowed(rs, u, a, n)[c])
<1>1. rs[c] \in ReserveData
  OBVIOUS
<1>2. ASSUME NEW m
      PROVE  SameBooks(rs[c], [rs[c] EXCEPT !.isolationModeTotalDebt = m])
  BY <1>1 DEF SameBooks, ReserveData
<1>3. SameBooks(rs[c], rs[c])
  BY DEF SameBooks
<1>4. SameBooks(rs[c], WithIsolatedDebtRepaid(rs, u, a, n)[c])
  BY <1>2, <1>3 DEF WithIsolatedDebtRepaid
<1>5. SameBooks(rs[c], WithIsolatedDebtBorrowed(rs, u, a, n)[c])
  BY <1>2, <1>3 DEF WithIsolatedDebtBorrowed
<1>6. QED
  BY <1>4, <1>5

LEMMA SameBooksTransitive ==
    ASSUME NEW r, NEW s, NEW t, SameBooks(r, s), SameBooks(s, t)
    PROVE  SameBooks(r, t)
BY DEF SameBooks

(* Settling and rating look at the books only.                             *)
LEMMA SettlingReadsBooks ==
    ASSUME NEW a, NEW r \in ReserveData, NEW s \in ReserveData, SameBooks(r, s)
    PROVE  SameBooks(UpdatedState(a, r), UpdatedState(a, s))
<1>1. /\ IncomeOf(s) = IncomeOf(r) /\ DebtIndexOf(s) = DebtIndexOf(r)
  BY DEF SameBooks, IncomeOf, DebtIndexOf
<1>2. /\ NextLiquidityIndex(s) = NextLiquidityIndex(r)
      /\ NextVariableBorrowIndex(a, s) = NextVariableBorrowIndex(a, r)
  BY <1>1 DEF SameBooks, NextLiquidityIndex, NextVariableBorrowIndex
<1>3. TreasuryAccrual(a, s) = TreasuryAccrual(a, r)
  BY <1>2 DEF SameBooks, TreasuryAccrual
<1>4. QED
  BY <1>2, <1>3 DEF SameBooks, UpdatedState, ReserveData

LEMMA RatingReadsBooks ==
    ASSUME NEW a, NEW debt, NEW liquidity,
           NEW r \in ReserveData, NEW s \in ReserveData, SameBooks(r, s)
    PROVE  SameBooks(WithRates(a, r, debt, liquidity), WithRates(a, s, debt, liquidity))
BY DEF SameBooks, WithRates, ReserveData

(* Rating again forgets the first rates.                                   *)
LEMMA RatingTwice ==
    ASSUME NEW a, NEW debt, NEW liquidity, NEW debt1, NEW liquidity1,
           NEW r \in ReserveData
    PROVE  SameBooks(WithRates(a, r, debt, liquidity),
                     WithRates(a, WithRates(a, r, debt1, liquidity1), debt, liquidity))
BY DEF SameBooks, WithRates, ReserveData

(* What is settled stays as it is when settled again at the same time.     *)
LEMMA SettlingTwice ==
    ASSUME SettingsOK, vSupply \in [Assets -> Nat], NEW a \in Assets, NEW r \in ReserveData,
           r.lastUpdateTimestamp = now, r.liquidityIndex # 0
    PROVE  SameBooks(r, UpdatedState(a, r))
<1>1. /\ r.liquidityIndex \in Nat \ {0} /\ r.variableBorrowIndex \in Nat
      /\ r.accruedToTreasury \in Nat /\ vSupply[a] \in Nat
      /\ config[a].reserveFactor \in Nat
  BY UnitsAssumption DEF ReserveData, SettingsOK, ReserveConfiguration
<1>2. NextLiquidityIndex(r) = r.liquidityIndex
  BY DEF NextLiquidityIndex, IncomeOf
<1>3. NextVariableBorrowIndex(a, r) = r.variableBorrowIndex
  BY DEF NextVariableBorrowIndex, DebtIndexOf
<1>4. TreasuryAccrual(a, r) = 0
  <2>1. r.variableBorrowIndex - r.variableBorrowIndex = 0
    BY <1>1
  <2>2. QED
    BY <1>1, <1>2, <1>3, <2>1, NothingAccrues DEF TreasuryAccrual
<1>5. r.accruedToTreasury + 0 = r.accruedToTreasury
  BY <1>1
<1>6. QED
  BY <1>2, <1>3, <1>4, <1>5 DEF SameBooks, UpdatedState, ReserveData

(* The index balances are shown at is the one a settlement leaves: where   *)
(* updateState skips the product, the product would change nothing.        *)
LEMMA IncomeIsSettledIndex ==
    ASSUME TypeOK, NEW a \in Assets
    PROVE  NormalizedIncome(a) = UpdatedReserve(a).liquidityIndex
<1> DEFINE r == reserve[a]
<1>1. /\ r \in ReserveData /\ r.liquidityIndex \in Nat
      /\ r.lastUpdateTimestamp \in Nat /\ r.lastUpdateTimestamp <= now /\ now \in Nat
  BY DEF TypeOK, ReservesOK, WorldOK, ReserveData
<1>2. now - r.lastUpdateTimestamp \in Nat
  BY <1>1
<1>3. UpdatedReserve(a).liquidityIndex = NextLiquidityIndex(r)
  BY <1>1 DEF UpdatedReserve, UpdatedState, ReserveData
<1> HIDE DEF r
<1>4. r.currentLiquidityRate = 0 => IncomeOf(r) = r.liquidityIndex
  BY <1>1, <1>2, NothingAccrues DEF IncomeOf
<1>5. NextLiquidityIndex(r) = IncomeOf(r)
  BY <1>4 DEF NextLiquidityIndex
<1>6. QED
  BY <1>3, <1>5 DEF NormalizedIncome, r

-----------------------------------------------------------------------------
(* The exchange of one call.                                               *)

(* A call that takes cashIn and pays cashOut, mints and burns debt and      *)
(* aTokens, is fair when what it gains is worth what it gives.             *)
LEMMA FairTrade ==
    ASSUME NEW a, NEW cashIn \in Nat, NEW cashOut \in Nat,
           NEW debtUp \in Nat, NEW debtDown \in Nat, NEW aUp \in Nat, NEW aDown \in Nat,
           cash[a] \in Nat, vSupply[a] \in Nat, aSupply[a] \in Nat,
           cash'[a] \in Nat, vSupply'[a] \in Nat, aSupply'[a] \in Nat,
           UpdatedReserve(a).liquidityIndex \in Nat,
           UpdatedReserve(a).variableBorrowIndex \in Nat,
           cash'[a] + cashOut = cash[a] + cashIn,
           vSupply'[a] + debtDown = vSupply[a] + debtUp,
           aSupply'[a] + aDown = aSupply[a] + aUp,
           RAY * cashOut + debtDown * UpdatedReserve(a).variableBorrowIndex
                         + aUp * UpdatedReserve(a).liquidityIndex
             <= RAY * cashIn + debtUp * UpdatedReserve(a).variableBorrowIndex
                             + aDown * UpdatedReserve(a).liquidityIndex
    PROVE  FairExchange(a)
<1> DEFINE x == UpdatedReserve(a).liquidityIndex
           y == UpdatedReserve(a).variableBorrowIndex
           c == cash[a]
           c2 == cash'[a]
           v == vSupply[a]
           v2 == vSupply'[a]
           s == aSupply[a]
           s2 == aSupply'[a]
<1>1. /\ x \in Nat /\ y \in Nat /\ RAY \in Nat /\ c \in Nat /\ c2 \in Nat
      /\ v \in Nat /\ v2 \in Nat /\ s \in Nat /\ s2 \in Nat
  BY UnitsAssumption
<1>2. c2 + cashOut = c + cashIn /\ v2 + debtDown = v + debtUp /\ s2 + aDown = s + aUp
  OBVIOUS
<1>3. RAY * cashOut + debtDown * y + aUp * x <= RAY * cashIn + debtUp * y + aDown * x
  OBVIOUS
<1>4. SUFFICES (RAY * c2 + v2 * y) + s * x >= (RAY * c + v * y) + s2 * x
  BY DEF FairExchange
<1> HIDE DEF x, y, c, c2, v, v2, s, s2
<1>5. /\ RAY * c2 + RAY * cashOut = RAY * c + RAY * cashIn
      /\ v2 * y + debtDown * y = v * y + debtUp * y
      /\ s2 * x + aDown * x = s * x + aUp * x
  <2>1. \A i, j, k, l, m \in Nat : i + j = k + l => m * i + m * j = m * k + m * l
    <3> TAKE i \in Nat, j \in Nat, k \in Nat, l \in Nat, m \in Nat
    <3>1. m * (i + j) = m * i + m * j /\ m * (k + l) = m * k + m * l
      OBVIOUS
    <3>2. QED
      BY <3>1
  <2>2. \A i, j, k, l, m \in Nat : i + j = k + l => i * m + j * m = k * m + l * m
    <3> TAKE i \in Nat, j \in Nat, k \in Nat, l \in Nat, m \in Nat
    <3>1. (i + j) * m = i * m + j * m /\ (k + l) * m = k * m + l * m
      OBVIOUS
    <3>2. QED
      BY <3>1
  <2>3. QED
    BY <1>1, <1>2, <2>1, <2>2
<1>6. /\ RAY * c2 \in Nat /\ RAY * cashOut \in Nat /\ RAY * c \in Nat /\ RAY * cashIn \in Nat
      /\ v2 * y \in Nat /\ debtDown * y \in Nat /\ v * y \in Nat /\ debtUp * y \in Nat
      /\ s2 * x \in Nat /\ aDown * x \in Nat /\ s * x \in Nat /\ aUp * x \in Nat
  BY <1>1, ProductNat
<1>7. QED
  BY <1>3, <1>5, <1>6

(* The types of what a trade is about.                                     *)
LEMMA TradeTypes ==
    ASSUME TypeOK, TypeOK', NEW a \in Assets
    PROVE  /\ cash[a] \in Nat /\ vSupply[a] \in Nat /\ aSupply[a] \in Nat
           /\ cash'[a] \in Nat /\ vSupply'[a] \in Nat /\ aSupply'[a] \in Nat
           /\ UpdatedReserve(a).liquidityIndex \in Nat \ {0}
           /\ UpdatedReserve(a).variableBorrowIndex \in Nat \ {0}
           /\ UpdatedReserve(a) \in ReserveData
           /\ UpdatedReserve(a).lastUpdateTimestamp = now
<1>1. /\ cash[a] \in Nat /\ vSupply[a] \in Nat /\ aSupply[a] \in Nat
      /\ cash'[a] \in Nat /\ vSupply'[a] \in Nat /\ aSupply'[a] \in Nat
  BY DEF TypeOK, LedgersOK
<1>2. /\ UpdatedReserve(a).liquidityIndex \in Nat \ {0}
      /\ UpdatedReserve(a).variableBorrowIndex \in Nat \ {0}
      /\ UpdatedReserve(a) \in ReserveData
  BY CallIndexes DEF SoundReserve
<1>3. UpdatedReserve(a).lastUpdateTimestamp = now
  BY DEF TypeOK, ReservesOK, ReserveData, UpdatedReserve, UpdatedState
<1>4. QED
  BY <1>1, <1>2, <1>3

(* A reserve whose record is the settled and rated one.                    *)
LEMMA RatedIsSettled ==
    ASSUME NEW a, config' = config,
           SameBooks(WithRates(a, UpdatedReserve(a), vSupply'[a], cash'[a]), reserve'[a])
    PROVE  Settled(a)
BY DEF Settled, WithRates

(* A reserve the call does not name.                                       *)
LEMMA OthersIdle ==
    ASSUME NEW b, config' = config, SameBooks(reserve[b], reserve'[b]),
           aSupply'[b] = aSupply[b], vSupply'[b] = vSupply[b], cash'[b] = cash[b]
    PROVE  FairStep(b)
BY DEF FairStep, Idle

LEMMA SameBooksReflexive ==
    ASSUME NEW r
    PROVE  SameBooks(r, r)
BY DEF SameBooks

LEMMA SupplyIsFair ==
    ASSUME TypeOK, TypeOK', NEW caller \in Users, NEW v \in Users, NEW a \in Assets,
           NEW amount \in Nat, Supply(caller, a, amount, v), NEW b \in Assets
    PROVE  FairStep(b)
<1> DEFINE r == UpdatedReserve(a)
           scaled == ATokenMintScaled(amount, r.liquidityIndex)
<1>1. /\ reserve' = [reserve EXCEPT ![a] = WithRates(a, r, vSupply[a], cash[a] + amount)]
      /\ cash' = [cash EXCEPT ![a] = @ + amount]
      /\ aSupply' = [aSupply EXCEPT ![a] = @ + scaled]
      /\ vSupply' = vSupply /\ config' = config /\ now' = now
  BY DEF Supply, adminVars, worldVars
<1>2. /\ reserve \in [Assets -> ReserveData] /\ cash \in [Assets -> Nat]
      /\ aSupply \in [Assets -> Nat]
  BY DEF TypeOK, ReservesOK, LedgersOK
<1>3. CASE b # a
  BY <1>1, <1>2, <1>3, SameBooksReflexive, OthersIdle
<1>4. CASE b = a
  <2>1. /\ cash'[a] = cash[a] + amount /\ vSupply'[a] = vSupply[a]
        /\ aSupply'[a] = aSupply[a] + scaled
        /\ reserve'[a] = WithRates(a, r, vSupply[a], cash[a] + amount)
    BY <1>1, <1>2
  <2>2. Settled(a)
    BY <1>1, <2>1, SameBooksReflexive, RatedIsSettled
  <2>3. scaled \in Nat /\ scaled * r.liquidityIndex <= RAY * amount
    BY TradeTypes, DivideTypes, RoundingFavoursPool
  <2> HIDE DEF scaled
  <2>4. FairExchange(a)
    <3>1. r.liquidityIndex \in Nat /\ r.variableBorrowIndex \in Nat /\ RAY \in Nat
      BY TradeTypes, UnitsAssumption
    <3> DEFINE x == r.liquidityIndex
               y == r.variableBorrowIndex
    <3>2. RAY * 0 + 0 * y + scaled * x <= RAY * amount + 0 * y + 0 * x
      <4> HIDE DEF x, y
      <4>1. x \in Nat /\ y \in Nat /\ scaled * x <= RAY * amount
        BY <2>3, <3>1 DEF x, y
      <4>2. RAY * 0 = 0 /\ 0 * y = 0 /\ 0 * x = 0 /\ RAY * amount \in Nat /\ scaled * x \in Nat
        BY <2>3, <3>1, <4>1
      <4>3. QED
        BY <4>1, <4>2
    <3>3. /\ cash'[a] + 0 = cash[a] + amount /\ vSupply'[a] + 0 = vSupply[a] + 0
          /\ aSupply'[a] + 0 = aSupply[a] + scaled
      BY <2>1, <2>3, TradeTypes
    <3>4. QED
      BY <2>3, <3>1, <3>2, <3>3, TradeTypes, FairTrade
  <2>5. QED
    BY <1>1, <1>4, <2>2, <2>4 DEF FairStep
<1>5. QED
  BY <1>3, <1>4

LEMMA WithdrawIsFair ==
    ASSUME TypeOK, TypeOK', NEW caller \in Users, NEW to \in Users, NEW a \in Assets,
           NEW requested \in Nat, Withdraw(caller, a, requested, to), NEW b \in Assets
    PROVE  FairStep(b)
<1> DEFINE r == UpdatedReserve(a)
           balance == ATokenBalance(aBalance[a][caller], r.liquidityIndex)
           amount == IF requested = MAX_UINT THEN balance ELSE requested
           scaled == ATokenBurnScaled(amount, r.liquidityIndex)
<1>1. /\ reserve' = [reserve EXCEPT ![a] = WithRates(a, r, vSupply[a], cash[a] - amount)]
      /\ cash' = [cash EXCEPT ![a] = @ - amount]
      /\ aSupply' = [aSupply EXCEPT ![a] = @ - scaled]
      /\ vSupply' = vSupply /\ config' = config /\ now' = now
      /\ amount <= cash[a] /\ scaled <= aSupply[a]
  BY DEF Withdraw, Burnable, adminVars, worldVars
<1>2. /\ reserve \in [Assets -> ReserveData] /\ cash \in [Assets -> Nat]
      /\ aSupply \in [Assets -> Nat] /\ aBalance[a][caller] \in Nat
  BY DEF TypeOK, ReservesOK, LedgersOK, Accounts
<1>3. /\ r.liquidityIndex \in Nat \ {0} /\ r.variableBorrowIndex \in Nat
  BY TradeTypes
<1>4. CASE b # a
  <2> HIDE DEF r, amount, scaled
  <2>1. QED
    BY <1>1, <1>2, <1>4, SameBooksReflexive, OthersIdle
<1>5. CASE b = a
  <2>1. amount \in Nat
    <3> HIDE DEF r
    <3>1. balance \in Nat
      BY <1>2, <1>3, MultiplyTypes
    <3> HIDE DEF balance
    <3>2. QED
      BY <3>1
  <2> HIDE DEF amount
  <2>2. scaled \in Nat /\ scaled * r.liquidityIndex >= RAY * amount
    BY <1>3, <2>1, DivideTypes, RoundingFavoursPool
  <2> HIDE DEF scaled
  <2>3. /\ cash'[a] = cash[a] - amount /\ vSupply'[a] = vSupply[a]
        /\ aSupply'[a] = aSupply[a] - scaled
        /\ reserve'[a] = WithRates(a, r, vSupply[a], cash[a] - amount)
    BY <1>1, <1>2
  <2>4. Settled(a)
    BY <1>1, <2>3, SameBooksReflexive, RatedIsSettled
  <2>5. FairExchange(a)
    <3> DEFINE x == r.liquidityIndex
               y == r.variableBorrowIndex
    <3>1. RAY * amount + 0 * y + 0 * x <= RAY * 0 + 0 * y + scaled * x
      <4> HIDE DEF x, y
      <4>1. x \in Nat /\ y \in Nat /\ scaled * x >= RAY * amount /\ RAY \in Nat
        BY <1>3, <2>2, UnitsAssumption DEF x, y
      <4>2. RAY * 0 = 0 /\ 0 * y = 0 /\ 0 * x = 0 /\ RAY * amount \in Nat /\ scaled * x \in Nat
        BY <2>1, <2>2, <4>1
      <4>3. QED
        BY <4>1, <4>2
    <3>2. /\ cash'[a] + amount = cash[a] + 0 /\ vSupply'[a] + 0 = vSupply[a] + 0
          /\ aSupply'[a] + scaled = aSupply[a] + 0
      BY <1>1, <2>1, <2>2, <2>3, TradeTypes
    <3>3. QED
      BY <1>3, <2>1, <2>2, <3>1, <3>2, TradeTypes, FairTrade
  <2>6. QED
    BY <1>1, <1>5, <2>4, <2>5 DEF FairStep
<1>6. QED
  BY <1>4, <1>5

(* A borrow mints debt worth at least its amount and settles the reserve;  *)
(* the isolated debt it is counted against is not part of the books.       *)
LEMMA ExecuteBorrowSettles ==
    ASSUME TypeOK, TypeOK', NEW caller \in Users, NEW v \in Users, NEW a \in Assets,
           NEW amount \in Nat, NEW released \in Nat,
           ExecuteBorrow(caller, a, amount, v, released), NEW b \in Assets
    PROVE  /\ Settled(a) /\ config' = config /\ now' = now /\ aSupply' = aSupply
           /\ cash'[a] + released = cash[a]
           /\ \E scaled \in Nat : /\ vSupply'[a] = vSupply[a] + scaled
                                 /\ RAY * amount
                                      <= scaled * UpdatedReserve(a).variableBorrowIndex
           /\ b # a => /\ SameBooks(reserve[b], reserve'[b])
                       /\ vSupply'[b] = vSupply[b] /\ cash'[b] = cash[b]
<1> DEFINE r == UpdatedReserve(a)
           scaled == VTokenMintScaled(amount, r.variableBorrowIndex)
           increase == RealizedDebtIncrease(a, r, v, scaled)
           settled == [reserve EXCEPT
                         ![a] = WithRates(a, r, vSupply[a] + scaled, cash[a] - released)]
<1>1. /\ reserve' = WithIsolatedDebtBorrowed(settled, v, a, increase)
      /\ cash' = [cash EXCEPT ![a] = @ - released]
      /\ vSupply' = [vSupply EXCEPT ![a] = @ + scaled]
      /\ aSupply' = aSupply /\ config' = config /\ now' = now
      /\ released <= cash[a]
  BY DEF ExecuteBorrow, adminVars, worldVars
<1>2. /\ reserve \in [Assets -> ReserveData] /\ cash \in [Assets -> Nat]
      /\ vSupply \in [Assets -> Nat]
  BY DEF TypeOK, ReservesOK, LedgersOK
<1>3. /\ r.variableBorrowIndex \in Nat \ {0} /\ r.liquidityIndex \in Nat
      /\ r \in ReserveData /\ SoundReserve(r)
  BY TradeTypes, CallIndexes
<1>4. scaled \in Nat /\ scaled * r.variableBorrowIndex >= RAY * amount
  BY <1>3, DivideTypes, RoundingFavoursPool
<1>5. settled \in [Assets -> ReserveData]
  <2> HIDE DEF r, scaled
  <2>1. vSupply[a] + scaled \in Nat /\ cash[a] - released \in Nat
    BY <1>1, <1>2, <1>4
  <2>2. WithRates(a, r, vSupply[a] + scaled, cash[a] - released) \in ReserveData
    BY <1>3, <2>1, RatedReserve DEF TypeOK, SoundReserve
  <2>3. QED
    BY <1>2, <2>2
<1> HIDE DEF scaled, increase
<1>6. SameBooks(settled[b], reserve'[b]) /\ SameBooks(settled[a], reserve'[a])
  BY <1>1, <1>5, IsolatedDebtApart
<1>7. /\ cash'[a] = cash[a] - released /\ vSupply'[a] = vSupply[a] + scaled
      /\ settled[a] = WithRates(a, r, vSupply[a] + scaled, cash[a] - released)
      /\ cash'[a] + released = cash[a]
      /\ b # a => settled[b] = reserve[b] /\ vSupply'[b] = vSupply[b] /\ cash'[b] = cash[b]
  <2> HIDE DEF r
  <2>1. QED
    BY <1>1, <1>2
<1>8. Settled(a)
  BY <1>1, <1>6, <1>7, RatedIsSettled
<1>9. QED
  BY <1>1, <1>4, <1>6, <1>7, <1>8

(* So it is fair if it releases no more than that.                         *)
LEMMA ExecuteBorrowIsFair ==
    ASSUME TypeOK, TypeOK', NEW caller \in Users, NEW v \in Users, NEW a \in Assets,
           NEW amount \in Nat, NEW released \in Nat, released <= amount,
           ExecuteBorrow(caller, a, amount, v, released), NEW b \in Assets
    PROVE  FairStep(b)
<1> DEFINE y == UpdatedReserve(a).variableBorrowIndex
           x == UpdatedReserve(a).liquidityIndex
<1>1. /\ Settled(a) /\ config' = config /\ now' = now /\ aSupply' = aSupply
      /\ cash'[a] + released = cash[a]
      /\ b # a => /\ SameBooks(reserve[b], reserve'[b])
                  /\ vSupply'[b] = vSupply[b] /\ cash'[b] = cash[b]
  BY ExecuteBorrowSettles
<1>2. PICK scaled \in Nat : vSupply'[a] = vSupply[a] + scaled /\ RAY * amount <= scaled * y
  BY ExecuteBorrowSettles
<1>3. CASE b # a
  BY <1>1, <1>3, OthersIdle
<1>4. CASE b = a
  <2>1. x \in Nat /\ y \in Nat /\ RAY \in Nat
    BY TradeTypes, UnitsAssumption
  <2>2. RAY * released + 0 * y + 0 * x <= RAY * 0 + scaled * y + 0 * x
    <3> HIDE DEF x, y
    <3>1. RAY * released <= RAY * amount
      BY <2>1
    <3>2. /\ RAY * 0 = 0 /\ 0 * y = 0 /\ 0 * x = 0 /\ RAY * amount \in Nat
          /\ RAY * released \in Nat /\ scaled * y \in Nat
      BY <2>1
    <3>3. QED
      BY <1>2, <3>1, <3>2
  <2>3. /\ cash'[a] + released = cash[a] + 0 /\ vSupply'[a] + 0 = vSupply[a] + scaled
        /\ aSupply'[a] + 0 = aSupply[a] + 0
    BY <1>1, <1>2, TradeTypes
  <2>4. FairExchange(a)
    BY <1>2, <2>1, <2>2, <2>3, TradeTypes, FairTrade
  <2>5. QED
    BY <1>1, <1>4, <2>4 DEF FairStep
<1>5. QED
  BY <1>3, <1>4

(* Books, debt and cash of reserve b stay as they are.                     *)
Spared(b) == /\ SameBooks(reserve[b], reserve'[b])
             /\ vSupply'[b] = vSupply[b] /\ cash'[b] = cash[b]

(* The debt half of a repayment, for the reserves it does not name and for *)
(* the one it does: what is left to compare there is the exchange.         *)
LEMMA BurnDebtSettles ==
    ASSUME TypeOK, NEW u \in Users, NEW a \in Assets, NEW scaled \in Nat,
           NEW added \in Nat, BurnDebt(u, a, UpdatedReserve(a), scaled, added),
           config' = config, cash' = [cash EXCEPT ![a] = cash[a] + added], NEW b \in Assets
    PROVE  /\ vSupply'[a] + scaled = vSupply[a] /\ cash'[a] = cash[a] + added
           /\ Settled(a)
           /\ b # a => Spared(b)
<1> DEFINE r == UpdatedReserve(a)
           repaid == VTokenBalance(vBalance[a][u], r.variableBorrowIndex)
                      - VTokenBalance(vBalance[a][u] - scaled, r.variableBorrowIndex)
           settled == [reserve EXCEPT
                         ![a] = WithRates(a, r, vSupply[a] - scaled, cash[a] + added)]
<1>1. /\ reserve' = WithIsolatedDebtRepaid(settled, u, a, repaid)
      /\ vSupply' = [vSupply EXCEPT ![a] = @ - scaled]
      /\ scaled <= vSupply[a]
  BY DEF BurnDebt, Burnable
<1>2. /\ reserve \in [Assets -> ReserveData] /\ cash \in [Assets -> Nat]
      /\ vSupply \in [Assets -> Nat]
  BY DEF TypeOK, ReservesOK, LedgersOK
<1>3. SoundReserve(r)
  BY CallIndexes
<1> HIDE DEF repaid
<1>4. settled \in [Assets -> ReserveData]
  <2> HIDE DEF r
  <2>1. vSupply[a] - scaled \in Nat /\ cash[a] + added \in Nat
    BY <1>1, <1>2
  <2>2. WithRates(a, r, vSupply[a] - scaled, cash[a] + added) \in ReserveData
    BY <1>3, <2>1, RatedReserve DEF TypeOK, SoundReserve
  <2>3. QED
    BY <1>2, <2>2
<1>5. \A c \in Assets : SameBooks(settled[c], reserve'[c])
  BY <1>1, <1>4, IsolatedDebtApart
<1>6. /\ cash'[a] = cash[a] + added /\ vSupply'[a] = vSupply[a] - scaled
      /\ settled[a] = WithRates(a, r, vSupply[a] - scaled, cash[a] + added)
  BY <1>1, <1>2
<1>7. Settled(a)
  BY <1>5, <1>6, RatedIsSettled
<1>8. vSupply'[a] + scaled = vSupply[a]
  BY <1>1, <1>2, <1>6
<1>9. ASSUME b # a
      PROVE  Spared(b)
  <2>1. settled[b] = reserve[b]
    BY <1>2, <1>9
  <2>2. QED
    BY <1>1, <1>2, <1>5, <1>9, <2>1 DEF Spared
<1>10. QED
  BY <1>6, <1>7, <1>8, <1>9

LEMMA RepayIsFair ==
    ASSUME TypeOK, TypeOK', NEW caller \in Users, NEW v \in Users, NEW a \in Assets,
           NEW amount \in Nat, Repay(caller, a, amount, v), NEW b \in Assets
    PROVE  FairStep(b)
<1> DEFINE r == UpdatedReserve(a)
           debt == VTokenBalance(vBalance[a][v], r.variableBorrowIndex)
           payback == IF amount < debt THEN amount ELSE debt
           scaled == DebtBurnScaled(v, a, payback, r.variableBorrowIndex)
<1>1. /\ BurnDebt(v, a, r, scaled, payback)
      /\ cash' = [cash EXCEPT ![a] = @ + payback]
      /\ aSupply' = aSupply /\ config' = config /\ now' = now
  BY DEF Repay, adminVars, worldVars
<1>2. /\ v \in Accounts /\ LedgersOK /\ vBalance[a][v] \in Nat
      /\ r.variableBorrowIndex \in Nat \ {0} /\ r.liquidityIndex \in Nat
  BY TradeTypes DEF TypeOK, LedgersOK, Accounts
<1>3. payback \in Nat
  <2> HIDE DEF r
  <2>1. debt \in Nat
    BY <1>2, MultiplyTypes
  <2> HIDE DEF debt
  <2>2. QED
    BY <2>1
<1> HIDE DEF payback
<1>4. scaled \in Nat /\ scaled * r.variableBorrowIndex <= RAY * payback
  <2> HIDE DEF r
  <2>1. QED
    BY <1>2, <1>3, BurnAmountType, DebtBurntIsPaid
<1> HIDE DEF scaled
<1>5. /\ vSupply'[a] + scaled = vSupply[a] /\ cash'[a] = cash[a] + payback
      /\ Settled(a)
      /\ b # a => Spared(b)
  BY <1>1, <1>3, <1>4, BurnDebtSettles
<1>6. CASE b # a
  BY <1>1, <1>5, <1>6, OthersIdle DEF Spared
<1>7. CASE b = a
  <2>1. FairExchange(a)
    <3> DEFINE x == r.liquidityIndex
               y == r.variableBorrowIndex
    <3>1. RAY * 0 + scaled * y + 0 * x <= RAY * payback + 0 * y + 0 * x
      <4> HIDE DEF x, y
      <4>1. x \in Nat /\ y \in Nat /\ scaled * y <= RAY * payback /\ RAY \in Nat
        BY <1>2, <1>4, UnitsAssumption DEF x, y
      <4>2. RAY * 0 = 0 /\ 0 * y = 0 /\ 0 * x = 0 /\ RAY * payback \in Nat /\ scaled * y \in Nat
        BY <1>3, <1>4, <4>1
      <4>3. QED
        BY <4>1, <4>2
    <3>2. /\ cash'[a] + 0 = cash[a] + payback /\ vSupply'[a] + scaled = vSupply[a] + 0
          /\ aSupply'[a] + 0 = aSupply[a] + 0
      BY <1>1, <1>3, <1>4, <1>5, TradeTypes
    <3>3. QED
      BY <1>2, <1>3, <1>4, <3>1, <3>2, TradeTypes, FairTrade
  <2>2. QED
    BY <1>1, <1>5, <1>7, <2>1 DEF FairStep
<1>8. QED
  BY <1>6, <1>7

(* Debt against aTokens of one payback, each rounded its own way.          *)
LEMMA RepayWithATokensIsFair ==
    ASSUME TypeOK, TypeOK', NEW u \in Users, NEW a \in Assets, NEW amount \in Nat,
           RepayWithATokens(u, a, amount), NEW b \in Assets
    PROVE  FairStep(b)
<1> DEFINE r == UpdatedReserve(a)
           debt == VTokenBalance(vBalance[a][u], r.variableBorrowIndex)
           held == ATokenBalance(aBalance[a][u], r.liquidityIndex)
           offered == IF amount = MAX_UINT \/ amount > held THEN held ELSE amount
           payback == IF offered < debt THEN offered ELSE debt
           aScaled == ATokenBurnScaled(payback, r.liquidityIndex)
           scaled == DebtBurnScaled(u, a, payback, r.variableBorrowIndex)
<1>1. /\ BurnDebt(u, a, r, scaled, 0)
      /\ aSupply' = [aSupply EXCEPT ![a] = @ - aScaled] /\ aScaled <= aSupply[a]
      /\ cash' = cash /\ config' = config /\ now' = now
  BY DEF RepayWithATokens, Burnable, adminVars, worldVars
<1>2. /\ u \in Accounts /\ LedgersOK /\ vBalance[a][u] \in Nat /\ aBalance[a][u] \in Nat
      /\ r.variableBorrowIndex \in Nat \ {0} /\ r.liquidityIndex \in Nat \ {0}
      /\ cash \in [Assets -> Nat] /\ aSupply \in [Assets -> Nat]
  BY TradeTypes DEF TypeOK, LedgersOK, Accounts
<1>3. payback \in Nat
  <2> HIDE DEF r
  <2>1. debt \in Nat /\ held \in Nat
    BY <1>2, MultiplyTypes
  <2> HIDE DEF debt, held
  <2>2. QED
    BY <2>1
<1> HIDE DEF payback
<1>4. /\ scaled \in Nat /\ scaled * r.variableBorrowIndex <= RAY * payback
      /\ aScaled \in Nat /\ aScaled * r.liquidityIndex >= RAY * payback
  <2> HIDE DEF r
  <2>1. QED
    BY <1>2, <1>3, BurnAmountType, DebtBurntIsPaid, DivideTypes, RoundingFavoursPool
<1> HIDE DEF scaled, aScaled
<1>5. cash' = [cash EXCEPT ![a] = @ + 0]
  <2>1. cash[a] + 0 = cash[a]
    BY <1>2
  <2>2. QED
    BY <1>1, <1>2, <2>1
<1>6. /\ vSupply'[a] + scaled = vSupply[a] /\ cash'[a] = cash[a] + 0
      /\ Settled(a)
      /\ b # a => Spared(b)
  BY <1>1, <1>4, <1>5, BurnDebtSettles
<1>7. CASE b # a
  BY <1>1, <1>2, <1>6, <1>7, OthersIdle DEF Spared
<1>8. CASE b = a
  <2>1. FairExchange(a)
    <3> DEFINE x == r.liquidityIndex
               y == r.variableBorrowIndex
    <3>1. RAY * 0 + scaled * y + 0 * x <= RAY * 0 + 0 * y + aScaled * x
      <4> HIDE DEF x, y
      <4>1. /\ x \in Nat /\ y \in Nat /\ RAY \in Nat
            /\ scaled * y <= RAY * payback /\ RAY * payback <= aScaled * x
        BY <1>2, <1>4, UnitsAssumption DEF x, y
      <4>2. /\ RAY * 0 = 0 /\ 0 * y = 0 /\ 0 * x = 0 /\ RAY * payback \in Nat
            /\ scaled * y \in Nat /\ aScaled * x \in Nat
        BY <1>3, <1>4, <4>1
      <4>3. QED
        BY <4>1, <4>2
    <3>2. /\ cash'[a] + 0 = cash[a] + 0 /\ vSupply'[a] + scaled = vSupply[a] + 0
          /\ aSupply'[a] + aScaled = aSupply[a] + 0
      <4>1. aSupply'[a] = aSupply[a] - aScaled
        BY <1>1, <1>2
      <4>2. QED
        BY <1>1, <1>4, <1>6, <4>1, TradeTypes
    <3>3. QED
      BY <1>2, <1>4, <3>1, <3>2, TradeTypes, FairTrade
  <2>2. QED
    BY <1>1, <1>6, <1>8, <2>1 DEF FairStep
<1>9. QED
  BY <1>7, <1>8

(* The accrual of the treasury becomes its balance; nothing else moves.    *)
LEMMA MintToTreasuryIsFair ==
    ASSUME TypeOK, NEW a \in Assets, MintToTreasury(a), NEW b \in Assets
    PROVE  FairStep(b)
<1>1. /\ reserve' = [reserve EXCEPT ![a].accruedToTreasury = 0]
      /\ \E n : aSupply' = [aSupply EXCEPT ![a] = n]
      /\ vSupply' = vSupply /\ cash' = cash /\ config' = config /\ now' = now
  BY DEF MintToTreasury, adminVars, worldVars
<1>2. reserve \in [Assets -> ReserveData] /\ aSupply \in [Assets -> Nat]
  BY DEF TypeOK, ReservesOK, LedgersOK
<1>3. CASE b # a
  <2>1. reserve'[b] = reserve[b] /\ aSupply'[b] = aSupply[b]
    BY <1>1, <1>2, <1>3
  <2>2. QED
    BY <1>1, <2>1, SameBooksReflexive, OthersIdle
<1>4. CASE b = a
  BY <1>1, <1>4 DEF FairStep
<1>5. QED
  BY <1>3, <1>4

-----------------------------------------------------------------------------
(* Liquidation.                                                            *)

(* Whichever side touches a reserve last leaves it settled and rated for    *)
(* what it then holds: the collateral side counts what the debt side has   *)
(* brought in, although the aToken receives it only at the end.            *)
LEMMA LiquidationRates ==
    ASSUME TypeOK, NEW w \in Users, NEW u \in Users, NEW c \in Assets, NEW d \in Assets,
           NEW toCover, NEW receive \in BOOLEAN, NEW o \in LiquidationAmounts,
           LiquidationMoves(w, u, c, d, toCover, receive, o), NEW b \in Assets
    PROVE  /\ (b = d \/ (b = c /\ ~receive)) => Settled(b)
           /\ ~(b = d \/ (b = c /\ ~receive)) => SameBooks(reserve[b], reserve'[b])
<1> DEFINE collateral == o.collateral
           debt == o.debt
           burnt == o.burnt
           m == o.repaid
           r == UpdatedReserve(d)
           rated == [reserve EXCEPT ![d] = WithRates(d, r, vSupply[d] - burnt, cash[d] + debt)]
           debtSide == WithIsolatedDebtRepaid(rated, u, d, m)
           supply == [vSupply EXCEPT ![d] = @ - burnt]
           released == IF receive THEN 0 ELSE collateral
           here == IF c = d THEN debt ELSE 0
<1>1. /\ burnt <= vSupply[d]
      /\ ~receive => collateral <= cash[c]
      /\ vSupply' = supply /\ config' = config
      /\ cash' = [[cash EXCEPT ![c] = @ - released] EXCEPT ![d] = @ + debt]
      /\ reserve' = IF receive THEN debtSide
                    ELSE CollateralReserveAfter(debtSide, c, collateral, here, supply[c])
  BY DEF LiquidationMoves, adminVars
<1>2. /\ reserve \in [Assets -> ReserveData] /\ cash \in [Assets -> Nat]
      /\ vSupply \in [Assets -> Nat] /\ SettingsOK
      /\ collateral \in Nat /\ debt \in Nat /\ burnt \in Nat /\ m \in Nat
  BY DEF TypeOK, ReservesOK, LedgersOK, LiquidationAmounts
<1> HIDE DEF collateral, debt, burnt, m
<1>3. SoundReserve(r) /\ r.lastUpdateTimestamp = now
  BY CallIndexes DEF TypeOK, ReservesOK, UpdatedReserve, UpdatedState, ReserveData
<1>4. /\ WithRates(d, r, vSupply[d] - burnt, cash[d] + debt) \in ReserveData
      /\ SoundReserve(WithRates(d, r, vSupply[d] - burnt, cash[d] + debt))
  <2> HIDE DEF r
  <2>1. vSupply[d] - burnt \in Nat /\ cash[d] + debt \in Nat
    BY <1>1, <1>2
  <2>2. QED
    BY <1>2, <1>3, <2>1, RatedReserve DEF SoundReserve
<1>5. rated \in [Assets -> ReserveData]
  <2> HIDE DEF r
  <2>1. QED
    BY <1>2, <1>4
<1>6. /\ rated[d] = WithRates(d, r, vSupply[d] - burnt, cash[d] + debt)
      /\ b # d => rated[b] = reserve[b]
  <2> HIDE DEF r
  <2>1. QED
    BY <1>2
<1>7. /\ \A e \in Assets : SameBooks(rated[e], debtSide[e])
      /\ debtSide \in [Assets -> ReserveData]
  <2>1. \A e \in Assets : SoundReserve(rated[e])
    <3> HIDE DEF r
    <3>1. \A e \in Assets : rated[e] = reserve[e] \/ e = d
      BY <1>2
    <3>2. \A e \in Assets : SoundReserve(reserve[e])
      BY DEF TypeOK, ReservesOK, SoundReserve
    <3> HIDE DEF rated
    <3>3. QED
      BY <1>4, <1>6, <3>1, <3>2
  <2> HIDE DEF rated
  <2>2. \A e \in Assets : SoundReserve(debtSide[e])
    BY <1>2, <1>5, <2>1, IsolatedDebtKeepsReserves
  <2>3. debtSide = [e \in Assets |-> debtSide[e]]
    BY DEF WithIsolatedDebtRepaid
  <2>4. \A e \in Assets : SameBooks(rated[e], debtSide[e])
    BY <1>5, IsolatedDebtApart
  <2> HIDE DEF debtSide
  <2>5. debtSide \in [Assets -> ReserveData]
    BY <2>2, <2>3 DEF SoundReserve
  <2>6. QED
    BY <2>4, <2>5
<1>8. /\ SameBooks(rated[b], debtSide[b]) /\ debtSide[b] \in ReserveData
      /\ SameBooks(rated[c], debtSide[c]) /\ debtSide[c] \in ReserveData
  BY <1>7
<1> HIDE DEF r, rated, debtSide
<1>9. receive => reserve'[b] = debtSide[b]
  BY <1>1
<1>10. ~receive => reserve'[b] = IF b = c
                     THEN WithRates(c, UpdatedState(c, debtSide[c]), supply[c],
                                    cash[c] + here - collateral)
                     ELSE debtSide[b]
  <2>1. CollateralReserveAfter(debtSide, c, collateral, here, supply[c])
          = [debtSide EXCEPT ![c] = WithRates(c, UpdatedState(c, debtSide[c]), supply[c],
                                              cash[c] + here - collateral)]
    BY DEF CollateralReserveAfter
  <2> HIDE DEF here, supply
  <2>2. QED
    BY <1>1, <1>7, <2>1
<1>11. CASE ~(b = d \/ (b = c /\ ~receive))
  BY <1>6, <1>8, <1>9, <1>10, <1>11
<1>12. CASE b = d /\ ~(b = c /\ ~receive)
  <2>1. SameBooks(rated[d], reserve'[d])
    BY <1>8, <1>9, <1>10, <1>12
  <2>2. vSupply'[d] = vSupply[d] - burnt
    BY <1>1, <1>2
  <2>3. cash'[d] = cash[d] + debt
    <3>1. CASE c = d
      <4>1. cash[d] - 0 + debt = cash[d] + debt
        BY <1>2
      <4>2. receive
        BY <1>12, <3>1
      <4>3. QED
        BY <1>1, <1>2, <3>1, <4>1, <4>2
    <3>2. CASE c # d
      <4> HIDE DEF released
      <4>1. QED
        BY <1>1, <1>2, <3>2
    <3>3. QED
      BY <3>1, <3>2
  <2>4. SameBooks(WithRates(d, UpdatedReserve(d), vSupply'[d], cash'[d]), reserve'[d])
    BY <1>6, <2>1, <2>2, <2>3 DEF r
  <2>5. QED
    BY <1>1, <1>12, <2>4, RatedIsSettled
<1>13. CASE b = c /\ ~receive
  <2> DEFINE liquidity == cash[c] + here - collateral
  <2>1. reserve'[c] = WithRates(c, UpdatedState(c, debtSide[c]), supply[c], liquidity)
    BY <1>10, <1>13
  <2>2. supply[c] = vSupply'[c] /\ supply[c] \in Nat
    BY <1>1, <1>2
  <2>3. liquidity = cash'[c] /\ liquidity \in Nat
    <3>1. cash[c] \in Nat /\ collateral <= cash[c]
      BY <1>1, <1>2, <1>13
    <3>2. CASE c = d
      <4>1. cash'[c] = cash[c] - collateral + debt
        BY <1>1, <1>2, <1>13, <3>2
      <4>2. QED
        BY <1>2, <3>1, <3>2, <4>1
    <3>3. CASE c # d
      <4>1. cash'[c] = cash[c] - collateral
        BY <1>1, <1>2, <1>13, <3>3
      <4>2. QED
        BY <1>2, <3>1, <3>3, <4>1
    <3>4. QED
      BY <3>2, <3>3
  <2> HIDE DEF liquidity, supply
  <2>4. SoundReserve(reserve[c]) /\ UpdatedReserve(c) \in ReserveData
    BY CallIndexes DEF TypeOK, ReservesOK, SoundReserve
  <2>5. /\ UpdatedState(c, debtSide[c]) \in ReserveData
        /\ SameBooks(WithRates(c, UpdatedReserve(c), supply[c], liquidity),
                     WithRates(c, UpdatedState(c, debtSide[c]), supply[c], liquidity))
    <3>0. SoundReserve(debtSide[c]) /\ now \in Nat
      <4>1. SoundReserve(rated[c])
        <5>1. rated[c] = reserve[c] \/ c = d
          BY <1>6, <1>13
        <5>2. QED
          BY <1>4, <1>6, <2>4, <5>1
      <4>2. QED
        BY <1>8, <4>1 DEF SoundReserve, SameBooks, TypeOK, WorldOK
    <3>1. UpdatedState(c, debtSide[c]) \in ReserveData
      BY <1>2, <3>0, SettledReserve DEF SoundReserve
    <3>2. CASE c # d
      <4>1. SameBooks(reserve[c], debtSide[c]) /\ reserve[c] \in ReserveData
        BY <1>2, <1>6, <1>8, <1>13, <3>2
      <4>2. SameBooks(UpdatedReserve(c), UpdatedState(c, debtSide[c]))
        BY <1>8, <4>1, SettlingReadsBooks DEF UpdatedReserve
      <4>3. QED
        BY <2>4, <3>1, <4>2, RatingReadsBooks
    <3>3. CASE c = d
      <4> DEFINE first == WithRates(c, UpdatedReserve(c), vSupply[d] - burnt, cash[d] + debt)
      <4>1. /\ first = rated[c] /\ first \in ReserveData
            /\ first.lastUpdateTimestamp = now
        <5>1. first = rated[c] /\ first \in ReserveData
          BY <1>4, <1>6, <3>3 DEF r
        <5>2. first.lastUpdateTimestamp = UpdatedReserve(c).lastUpdateTimestamp
          BY <2>4 DEF WithRates, ReserveData
        <5>3. QED
          BY <1>3, <3>3, <5>1, <5>2 DEF r
      <4> HIDE DEF first
      <4>2. SameBooks(debtSide[c], UpdatedState(c, debtSide[c]))
        <5>1. debtSide[c].lastUpdateTimestamp = now
          BY <1>8, <4>1 DEF SameBooks
        <5>2. debtSide[c].liquidityIndex # 0
          BY <3>0, UnitsAssumption DEF SoundReserve, ReserveData
        <5>3. QED
          BY <1>2, <1>8, <5>1, <5>2, SettlingTwice
      <4>3. SameBooks(first, UpdatedState(c, debtSide[c]))
        BY <1>8, <4>1, <4>2, SameBooksTransitive
      <4>4. SameBooks(WithRates(c, first, supply[c], liquidity),
                      WithRates(c, UpdatedState(c, debtSide[c]), supply[c], liquidity))
        BY <3>1, <4>1, <4>3, RatingReadsBooks
      <4>5. SameBooks(WithRates(c, UpdatedReserve(c), supply[c], liquidity),
                      WithRates(c, first, supply[c], liquidity))
        BY <2>4, RatingTwice DEF first
      <4>6. QED
        BY <3>1, <4>4, <4>5, SameBooksTransitive
    <3>4. QED
      BY <3>1, <3>2, <3>3
  <2>6. SameBooks(WithRates(c, UpdatedReserve(c), vSupply'[c], cash'[c]), reserve'[c])
    BY <2>1, <2>2, <2>3, <2>5
  <2>7. QED
    BY <1>1, <1>13, <2>6, RatedIsSettled
<1>14. QED
  BY <1>11, <1>12, <1>13

(* The debt side burns at most what is paid for, the collateral side burns *)
(* at least what is released, and in one and the same reserve both hold.   *)
LEMMA LiquidationIsFair ==
    ASSUME TypeOK, TypeOK', NEW w \in Users, NEW u \in Users, NEW c \in Assets,
           NEW d \in Assets, NEW toCover \in Nat, NEW receive \in BOOLEAN,
           LiquidationCall(w, u, c, d, toCover, receive), NEW b \in Assets
    PROVE  FairStep(b)
<1>1. PICK o \in LiquidationAmounts : LiquidationMoves(w, u, c, d, toCover, receive, o)
  BY LiquidationOutcome
<1> DEFINE collateral == o.collateral
           debt == o.debt
           burnt == o.burnt
           seized == o.seized
           released == IF receive THEN 0 ELSE collateral
           taken == IF receive THEN 0 ELSE seized
           x == UpdatedReserve(b).liquidityIndex
           y == UpdatedReserve(b).variableBorrowIndex
<1>2. /\ cash \in [Assets -> Nat] /\ vSupply \in [Assets -> Nat] /\ aSupply \in [Assets -> Nat]
      /\ cash[b] \in Nat /\ vSupply[b] \in Nat /\ aSupply[b] \in Nat
  BY DEF TypeOK, LedgersOK
<1>3. /\ burnt <= vSupply[d]
      /\ ~receive => seized <= aSupply[c]
      /\ ~receive => collateral <= cash[c]
      /\ burnt * UpdatedReserve(d).variableBorrowIndex <= RAY * debt
      /\ seized = ATokenTransferScaled(collateral, NormalizedIncome(c))
      /\ vSupply' = [vSupply EXCEPT ![d] = @ - burnt]
      /\ aSupply' = [aSupply EXCEPT ![c] = IF receive THEN @ ELSE @ - seized]
      /\ cash' = [[cash EXCEPT ![c] = @ - released] EXCEPT ![d] = @ + debt]
      /\ config' = config /\ now' = now
  BY <1>1 DEF LiquidationMoves, adminVars, worldVars
<1>a. collateral \in Nat /\ debt \in Nat /\ burnt \in Nat /\ seized \in Nat
  BY DEF LiquidationAmounts
<1> HIDE DEF collateral, debt, burnt, seized
<1>4. /\ (b = d \/ (b = c /\ ~receive)) => Settled(b)
      /\ ~(b = d \/ (b = c /\ ~receive)) => SameBooks(reserve[b], reserve'[b])
  BY <1>1, LiquidationRates
<1>5. x \in Nat /\ y \in Nat /\ RAY \in Nat
  BY TradeTypes, UnitsAssumption
<1>6. b = c => taken * x >= RAY * released
  <2> SUFFICES ASSUME b = c PROVE taken * x >= RAY * released
    OBVIOUS
  <2>1. /\ UpdatedReserve(c).liquidityIndex \in Nat \ {0}
        /\ NormalizedIncome(c) = UpdatedReserve(c).liquidityIndex
    BY IncomeIsSettledIndex, TradeTypes
  <2>2. seized * x >= RAY * collateral
    BY <1>3, <2>1, RoundingFavoursPool, <1>a
  <2>3. 0 * x >= RAY * 0
    <3> HIDE DEF x
    <3>1. QED
      BY <1>5, <1>a
  <2> HIDE DEF x
  <2>4. QED
    BY <2>2, <2>3
<1>7. b = d => burnt * y <= RAY * debt
  BY <1>3
<1>8. released \in Nat /\ taken \in Nat
  BY <1>a
<1>9. b = c => released <= cash[c] /\ taken <= aSupply[c]
  <2>1. 0 <= cash[b] /\ 0 <= aSupply[b]
    BY <1>2
  <2>2. QED
    BY <1>3, <2>1
<1>10. aSupply'[c] = aSupply[c] - taken
  <2>1. aSupply[c] - 0 = aSupply[c]
    BY <1>2
  <2>2. QED
    BY <1>2, <1>3, <2>1
<1>11. /\ b # c => aSupply'[b] = aSupply[b]
       /\ b # d => vSupply'[b] = vSupply[b]
       /\ b # c /\ b # d => cash'[b] = cash[b]
  BY <1>2, <1>3, <1>a
<1>12. vSupply'[d] = vSupply[d] - burnt
  BY <1>2, <1>3, <1>a
<1> HIDE DEF released, taken, x, y
<1>13. /\ b = c /\ c # d => cash'[b] = cash[b] - released
       /\ b = d /\ c # d => cash'[b] = cash[b] + debt
       /\ b = d /\ c = d => cash'[b] = cash[b] - released + debt
  <2>1. b = c /\ c # d => cash'[b] = cash[b] - released
    BY <1>2, <1>3, <1>a
  <2>2. b = d /\ c # d => cash'[b] = cash[b] + debt
    BY <1>2, <1>3, <1>a
  <2>3. b = d /\ c = d => cash'[b] = cash[b] - released + debt
    <3> SUFFICES ASSUME b = d, c = d
                 PROVE  cash'[b] = cash[b] - released + debt
      OBVIOUS
    <3> DEFINE paidOut == [cash EXCEPT ![d] = @ - released]
    <3>1. cash' = [paidOut EXCEPT ![d] = @ + debt]
      BY <1>3
    <3>2. paidOut[d] = cash[d] - released /\ DOMAIN paidOut = Assets
      BY <1>2
    <3> HIDE DEF paidOut
    <3>3. cash'[d] = paidOut[d] + debt
      BY <3>1, <3>2
    <3>4. QED
      BY <3>2, <3>3
  <2>4. QED
    BY <2>1, <2>2, <2>3
<1>14. CASE b # c /\ b # d
  BY <1>3, <1>4, <1>11, <1>14, OthersIdle
<1>15. CASE b = c /\ b # d
  <2>1. CASE receive
    <3>1. released = 0 /\ taken = 0
      BY <2>1 DEF released, taken
    <3>2. cash'[b] = cash[b] /\ aSupply'[b] = aSupply[b] /\ vSupply'[b] = vSupply[b]
      BY <1>2, <1>10, <1>11, <1>13, <1>15, <3>1
    <3>3. QED
      BY <1>3, <1>4, <1>15, <2>1, <3>2, OthersIdle
  <2>2. CASE ~receive
    <3>1. RAY * released + 0 * y + 0 * x <= RAY * 0 + 0 * y + taken * x
      <4>1. RAY * 0 = 0 /\ 0 * y = 0 /\ 0 * x = 0 /\ RAY * released \in Nat /\ taken * x \in Nat
        BY <1>5, <1>8, <1>a
      <4>2. QED
        BY <1>6, <1>15, <4>1
    <3>2. /\ cash'[b] + released = cash[b] + 0 /\ vSupply'[b] + 0 = vSupply[b] + 0
          /\ aSupply'[b] + taken = aSupply[b] + 0
      BY <1>2, <1>8, <1>9, <1>10, <1>11, <1>13, <1>15
    <3>3. FairExchange(b)
      BY <1>5, <1>8, <3>1, <3>2, <1>a, TradeTypes, FairTrade DEF x, y
    <3>4. QED
      BY <1>3, <1>4, <1>15, <2>2, <3>3 DEF FairStep
  <2>3. QED
    BY <2>1, <2>2
<1>16. CASE b = d /\ b # c
  <2>1. RAY * 0 + burnt * y + 0 * x <= RAY * debt + 0 * y + 0 * x
    <3>1. RAY * 0 = 0 /\ 0 * y = 0 /\ 0 * x = 0 /\ RAY * debt \in Nat /\ burnt * y \in Nat
      BY <1>5, <1>a
    <3>2. QED
      BY <1>7, <1>16, <3>1
  <2>2. /\ cash'[b] + 0 = cash[b] + debt /\ vSupply'[b] + burnt = vSupply[b] + 0
        /\ aSupply'[b] + 0 = aSupply[b] + 0
    BY <1>2, <1>3, <1>a, <1>11, <1>12, <1>13, <1>16
  <2>3. FairExchange(b)
    BY <1>5, <2>1, <2>2, <1>a, TradeTypes, FairTrade DEF x, y
  <2>4. QED
    BY <1>3, <1>4, <1>16, <2>3 DEF FairStep
<1>17. CASE b = d /\ b = c
  <2>1. RAY * released + burnt * y + 0 * x <= RAY * debt + 0 * y + taken * x
    <3>1. /\ 0 * y = 0 /\ 0 * x = 0 /\ RAY * debt \in Nat /\ burnt * y \in Nat
          /\ RAY * released \in Nat /\ taken * x \in Nat
      BY <1>5, <1>8, <1>a
    <3>2. QED
      BY <1>6, <1>7, <1>17, <3>1
  <2>2. /\ cash'[b] + released = cash[b] + debt /\ vSupply'[b] + burnt = vSupply[b] + 0
        /\ aSupply'[b] + taken = aSupply[b] + 0
    BY <1>2, <1>3, <1>8, <1>9, <1>10, <1>12, <1>13, <1>17, <1>a
  <2>3. FairExchange(b)
    BY <1>5, <1>8, <2>1, <2>2, <1>a, TradeTypes, FairTrade DEF x, y
  <2>4. QED
    BY <1>3, <1>4, <1>17, <2>3 DEF FairStep
<1>18. QED
  BY <1>14, <1>15, <1>16, <1>17

-----------------------------------------------------------------------------
(* The configurator.                                                       *)

(* A new configuration with the factor there was touches no books.         *)
LEMMA SameFactorIsFair ==
    ASSUME TypeOK, NEW a \in Assets, NEW c, SetConfiguration(a, c),
           c.reserveFactor = config[a].reserveFactor,
           NEW b \in Assets, SameBooks(reserve[b], reserve'[b])
    PROVE  FairStep(b)
<1>1. config' = [config EXCEPT ![a] = c] /\ UNCHANGED ledgerVars
  BY DEF SetConfiguration
<1>2. config'[b].reserveFactor = config[b].reserveFactor
  BY <1>1 DEF TypeOK, SettingsOK
<1>3. QED
  BY <1>1, <1>2 DEF FairStep, Idle, ledgerVars

(* A new factor comes with a settlement under the old one.                 *)
LEMMA SetReserveFactorIsFair ==
    ASSUME TypeOK, TypeOK', NEW a \in Assets, NEW factor, SetReserveFactor(a, factor),
           NEW b \in Assets
    PROVE  FairStep(b)
<1> DEFINE r == UpdatedReserve(a)
           rates == InterestRates(a, VTokenBalance(vSupply[a], r.variableBorrowIndex),
                                  cash[a], factor)
           next == [r EXCEPT !.currentLiquidityRate = rates.liquidity,
                             !.currentVariableBorrowRate = rates.variable]
<1>1. /\ config' = [config EXCEPT ![a] = [config[a] EXCEPT !.reserveFactor = factor]]
      /\ reserve' = [reserve EXCEPT ![a] = next]
      /\ UNCHANGED ledgerVars /\ now' = now
  BY DEF SetReserveFactor, SetConfiguration, worldVars
<1>2. /\ reserve \in [Assets -> ReserveData]
      /\ config \in [Assets -> ReserveConfiguration]
  BY DEF TypeOK, ReservesOK, SettingsOK
<1>3. CASE b # a
  <2>1. reserve'[b] = reserve[b] /\ config'[b] = config[b]
    <3> HIDE DEF next
    <3>1. QED
      BY <1>1, <1>2, <1>3
  <2>2. QED
    BY <1>1, <2>1, SameBooksReflexive DEF FairStep, Idle, ledgerVars
<1>4. CASE b = a
  <2>1. reserve'[a] = next
    <3> HIDE DEF next
    <3>1. QED
      BY <1>1, <1>2
  <2>2. config'[a].reserveFactor = factor
    BY <1>1, <1>2 DEF ReserveConfiguration
  <2>3. Settled(a)
    BY <1>1, <2>1, <2>2, SameBooksReflexive DEF Settled, ledgerVars
  <2>4. FairExchange(a)
    <3> DEFINE gain == (RAY * cash[a] + vSupply[a] * r.variableBorrowIndex)
                         + aSupply[a] * r.liquidityIndex
    <3>1. gain \in Nat
      <4> DEFINE x == r.liquidityIndex
                 y == r.variableBorrowIndex
      <4>1. x \in Nat /\ y \in Nat /\ RAY \in Nat /\ cash[a] \in Nat /\ vSupply[a] \in Nat
            /\ aSupply[a] \in Nat
        BY TradeTypes, UnitsAssumption
      <4> HIDE DEF x, y
      <4>2. RAY * cash[a] \in Nat /\ vSupply[a] * y \in Nat /\ aSupply[a] * x \in Nat
        BY <4>1, ProductNat
      <4>3. (RAY * cash[a] + vSupply[a] * y) + aSupply[a] * x \in Nat
        BY <4>2
      <4>4. QED
        BY <4>3 DEF x, y
    <3>2. gain >= gain
      <4> HIDE DEF gain
      <4>1. QED
        BY <3>1
    <3>3. QED
      BY <1>1, <3>2 DEF FairExchange, ledgerVars
  <2>5. QED
    BY <1>1, <1>4, <2>3, <2>4 DEF FairStep
<1>5. QED
  BY <1>3, <1>4

(* Every setting but the reserve factor is written without touching the    *)
(* books of any reserve.                                                   *)
LEMMA AdminIsFair ==
    ASSUME TypeOK, TypeOK', AdminStep, NEW b \in Assets
    PROVE  FairStep(b)
<1>1. PICK a \in Assets :
        \/ \E v \in AdminChoices.active : SetReserveActive(a, v)
        \/ \E v \in AdminChoices.paused : SetReservePause(a, v)
        \/ \E v \in AdminChoices.frozen : SetReserveFreeze(a, v)
        \/ \E v \in AdminChoices.borrowing : SetReserveBorrowing(a, v)
        \/ \E n \in AdminChoices.supplyCap : SetSupplyCap(a, n)
        \/ \E n \in AdminChoices.borrowCap : SetBorrowCap(a, n)
        \/ \E v \in AdminChoices.siloed : SetSiloedBorrowing(a, v)
        \/ \E n \in AdminChoices.debtCeiling : SetDebtCeiling(a, n)
        \/ \E n \in AdminChoices.reserveFactor : SetReserveFactor(a, n)
        \/ \E p \in AdminChoices.collateral : ConfigureReserveAsCollateral(a, p)
        \/ \E n \in AdminChoices.protocolFee : SetLiquidationProtocolFee(a, n)
        \/ \E v \in AdminChoices.isolated : SetBorrowableInIsolation(a, v)
        \/ \E c \in AdminChoices.category : SetAssetEModeCategory(a, c)
  BY PoolAssumption DEF AdminStep
<1>2. config[a] \in ReserveConfiguration
  BY DEF TypeOK, SettingsOK
<1>3. CASE \/ \E v \in AdminChoices.active : SetReserveActive(a, v)
           \/ \E v \in AdminChoices.paused : SetReservePause(a, v)
           \/ \E v \in AdminChoices.frozen : SetReserveFreeze(a, v)
           \/ \E v \in AdminChoices.borrowing : SetReserveBorrowing(a, v)
           \/ \E n \in AdminChoices.supplyCap : SetSupplyCap(a, n)
           \/ \E n \in AdminChoices.borrowCap : SetBorrowCap(a, n)
           \/ \E v \in AdminChoices.siloed : SetSiloedBorrowing(a, v)
           \/ \E n \in AdminChoices.protocolFee : SetLiquidationProtocolFee(a, n)
           \/ \E v \in AdminChoices.isolated : SetBorrowableInIsolation(a, v)
           \/ \E c \in AdminChoices.category : SetAssetEModeCategory(a, c)
  <2>1. /\ reserve' = reserve
        /\ \E v : \/ SetConfiguration(a, [config[a] EXCEPT !.active = v])
                  \/ SetConfiguration(a, [config[a] EXCEPT !.paused = v])
                  \/ SetConfiguration(a, [config[a] EXCEPT !.frozen = v])
                  \/ SetConfiguration(a, [config[a] EXCEPT !.borrowingEnabled = v])
                  \/ SetConfiguration(a, [config[a] EXCEPT !.supplyCap = v])
                  \/ SetConfiguration(a, [config[a] EXCEPT !.borrowCap = v])
                  \/ SetConfiguration(a, [config[a] EXCEPT !.siloedBorrowing = v])
                  \/ SetConfiguration(a, [config[a] EXCEPT !.liquidationProtocolFee = v])
                  \/ SetConfiguration(a, [config[a] EXCEPT !.borrowableInIsolation = v])
                  \/ SetConfiguration(a, [config[a] EXCEPT !.eModeCategory = v])
    BY <1>3 DEF SetReserveActive, SetReservePause, SetReserveFreeze, SetReserveBorrowing,
        SetSupplyCap, SetBorrowCap, SetSiloedBorrowing, SetLiquidationProtocolFee,
        SetBorrowableInIsolation, SetAssetEModeCategory
  <2>2. PICK c : c.reserveFactor = config[a].reserveFactor /\ SetConfiguration(a, c)
    BY <1>2, <2>1 DEF ReserveConfiguration
  <2>3. SameBooks(reserve[b], reserve'[b])
    BY <2>1, SameBooksReflexive
  <2>4. QED
    BY <2>2, <2>3, SameFactorIsFair
<1>4. CASE \E n \in AdminChoices.debtCeiling : SetDebtCeiling(a, n)
  <2>1. PICK n : SetDebtCeiling(a, n)
    BY <1>4
  <2>2. PICK c : c.reserveFactor = config[a].reserveFactor /\ SetConfiguration(a, c)
    BY <1>2, <2>1 DEF SetDebtCeiling, ReserveConfiguration
  <2>3. SameBooks(reserve[b], reserve'[b])
    <3>1. reserve \in [Assets -> ReserveData] /\ reserve[a] \in ReserveData
      BY DEF TypeOK, ReservesOK
    <3>2. CASE n = 0 /\ b = a
      <4>1. reserve'[a] = [reserve[a] EXCEPT !.isolationModeTotalDebt = 0]
        BY <2>1, <3>1, <3>2 DEF SetDebtCeiling
      <4>2. QED
        BY <3>1, <3>2, <4>1 DEF SameBooks, ReserveData
    <3>3. CASE ~(n = 0 /\ b = a)
      <4>1. reserve'[b] = reserve[b]
        BY <2>1, <3>1, <3>3 DEF SetDebtCeiling
      <4>2. QED
        BY <4>1, SameBooksReflexive
    <3>4. QED
      BY <3>2, <3>3
  <2>4. QED
    BY <2>2, <2>3, SameFactorIsFair
<1>5. CASE \E n \in AdminChoices.reserveFactor : SetReserveFactor(a, n)
  BY <1>5, SetReserveFactorIsFair
<1>6. CASE \E p \in AdminChoices.collateral : ConfigureReserveAsCollateral(a, p)
  <2>1. PICK p : /\ SetConfiguration(a, [config[a] EXCEPT !.ltv = p.ltv,
                             !.liquidationThreshold = p.liquidationThreshold,
                             !.liquidationBonus = p.liquidationBonus])
                 /\ reserve' = reserve
    BY <1>6 DEF ConfigureReserveAsCollateral
  <2>2. PICK c : c.reserveFactor = config[a].reserveFactor /\ SetConfiguration(a, c)
    BY <1>2, <2>1 DEF ReserveConfiguration
  <2>3. SameBooks(reserve[b], reserve'[b])
    BY <2>1, SameBooksReflexive
  <2>4. QED
    BY <2>2, <2>3, SameFactorIsFair
<1>7. QED
  BY <1>1, <1>3, <1>4, <1>5, <1>6

-----------------------------------------------------------------------------
(* Every step.                                                             *)

LEMMA UserCallIsFair ==
    ASSUME TypeOK, TypeOK', UserCall, NEW b \in Assets
    PROVE  FairStep(b)
<1>1. CASE UserStep
  <2>1. PICK u \in Users : \E v \in Beneficiaries[u], a \in Assets :
            \/ \E n \in CallChoices[u].supply : Supply(u, a, n, v)
            \/ \E n \in CallChoices[u].withdraw : Withdraw(u, a, n, v)
            \/ \E n \in CallChoices[u].transfer : Transfer(u, a, n, v)
            \/ \E n \in CallChoices[u].borrow : Borrow(u, a, n, v)
            \/ \E n \in CallChoices[u].repay : Repay(u, a, n, v)
            \/ \E n \in CallChoices[u].delegate : ApproveDelegation(u, a, v, n)
    BY <1>1 DEF UserStep
  <2>2. PICK v \in Users, a \in Assets, n \in Nat :
            \/ Supply(u, a, n, v) \/ Withdraw(u, a, n, v) \/ Transfer(u, a, n, v)
            \/ Borrow(u, a, n, v) \/ Repay(u, a, n, v) \/ ApproveDelegation(u, a, v, n)
    BY <2>1, PoolAssumption
  <2>3. CASE Supply(u, a, n, v)
    BY <2>3, SupplyIsFair
  <2>4. CASE Withdraw(u, a, n, v)
    BY <2>4, WithdrawIsFair
  <2>5. CASE Borrow(u, a, n, v)
    BY <2>5, ExecuteBorrowIsFair DEF Borrow
  <2>6. CASE Repay(u, a, n, v)
    BY <2>6, RepayIsFair
  <2>7. CASE Transfer(u, a, n, v) \/ ApproveDelegation(u, a, v, n)
    <3>1. UNCHANGED <<reserve, aSupply, vSupply, cash, config>>
      BY <2>7 DEF Transfer, ApproveDelegation, ledgerVars, adminVars
    <3>2. QED
      BY <3>1, SameBooksReflexive, OthersIdle
  <2>8. QED
    BY <2>2, <2>3, <2>4, <2>5, <2>6, <2>7
<1>2. CASE OwnStep
  <2>1. PICK u \in Users, a \in Assets :
            \/ \E n \in CallChoices[u].repayWithATokens : RepayWithATokens(u, a, n)
            \/ \E v \in CallChoices[u].useAsCollateral :
                  SetUserUseReserveAsCollateral(u, a, v)
    BY <1>2 DEF OwnStep
  <2>2. CASE \E n \in CallChoices[u].repayWithATokens : RepayWithATokens(u, a, n)
    <3>1. PICK n \in Nat : RepayWithATokens(u, a, n)
      BY <2>2, PoolAssumption
    <3>2. QED
      BY <3>1, RepayWithATokensIsFair
  <2>3. CASE \E v \in CallChoices[u].useAsCollateral : SetUserUseReserveAsCollateral(u, a, v)
    <3>1. UNCHANGED <<reserve, aSupply, vSupply, cash, config>>
      BY <2>3 DEF SetUserUseReserveAsCollateral, ledgerVars, adminVars
    <3>2. QED
      BY <3>1, SameBooksReflexive, OthersIdle
  <2>4. QED
    BY <2>1, <2>2, <2>3
<1>3. CASE Liquidate
  <2>1. PICK w \in Users, u \in Users, c \in Assets, d \in Assets, n \in Nat,
             v \in BOOLEAN : LiquidationCall(w, u, c, d, n, v)
    BY <1>3, PoolAssumption DEF Liquidate
  <2>2. QED
    BY <2>1, LiquidationIsFair
<1>4. CASE \E a \in Assets : MintToTreasury(a)
  BY <1>4, MintToTreasuryIsFair
<1>5. CASE \E u \in Users, c \in Categories \cup {0} : SetUserEMode(u, c)
  <2>1. UNCHANGED <<reserve, aSupply, vSupply, cash, config>>
    BY <1>5 DEF SetUserEMode, ledgerVars, adminVars
  <2>2. QED
    BY <2>1, SameBooksReflexive, OthersIdle
<1>6. QED
  BY <1>1, <1>2, <1>3, <1>4, <1>5 DEF UserCall

(* What any step does to any reserve: nothing, a settled and fair exchange, *)
(* or the payment of its treasury.                                         *)
LEMMA NextIsFair ==
    ASSUME TypeOK, [Next]_vars, NEW b \in Assets
    PROVE  FairStep(b)
<1>1. TypeOK'
  BY NextSound
<1>2. CASE UserCall
  BY <1>1, <1>2, UserCallIsFair
<1>3. CASE AdminStep
  BY <1>1, <1>3, AdminIsFair
<1>4. CASE \E v \in AdminChoices.poolPaused : SetPoolPause(v)
  <2>1. PICK v : SetPoolPause(v)
    BY <1>4
  <2>2. config'[b].reserveFactor = config[b].reserveFactor
    BY <2>1 DEF SetPoolPause, TypeOK, SettingsOK, ReserveConfiguration
  <2>3. UNCHANGED <<reserve, aSupply, vSupply, cash>>
    BY <2>1 DEF SetPoolPause, ledgerVars
  <2>4. QED
    BY <2>2, <2>3, SameBooksReflexive DEF FairStep, Idle
<1>5. CASE \/ \E c \in Categories, p \in AdminChoices.eMode : SetEModeCategory(c, p)
           \/ \E f \in Feeds : \E p \in PriceChoices[f] : SetPrice(f, p)
           \/ Tick
           \/ UNCHANGED vars
  <2>1. UNCHANGED <<reserve, aSupply, vSupply, cash, config>>
    BY <1>5 DEF SetEModeCategory, SetPrice, Tick, vars, ledgerVars, adminVars
  <2>2. QED
    BY <2>1, SameBooksReflexive, OthersIdle
<1>6. QED
  BY <1>2, <1>3, <1>4, <1>5 DEF Next, WorldStep

-----------------------------------------------------------------------------
(* No value leaves a reserve.                                              *)

(* What a reserve is worth is counted at its settled indexes, in the next  *)
(* state too: these are the indexes the next state shows.                  *)
SameIndexes(a) ==
    /\ UpdatedReserve(a)'.liquidityIndex = UpdatedReserve(a).liquidityIndex
    /\ UpdatedReserve(a)'.variableBorrowIndex = UpdatedReserve(a).variableBorrowIndex

SameAccrual(a) ==
    UpdatedReserve(a)'.accruedToTreasury = UpdatedReserve(a).accruedToTreasury

(* The accrual of a settlement is a number of scaled units.                *)
LEMMA AccrualType ==
    ASSUME TypeOK, NEW a \in Assets
    PROVE  TreasuryAccrual(a, reserve[a]) \in Nat
<1> DEFINE r == reserve[a]
           growth == NextVariableBorrowIndex(a, r) - r.variableBorrowIndex
<1>1. /\ SoundReserve(r) /\ now \in Nat /\ vSupply[a] \in Nat
      /\ config[a].reserveFactor \in Nat
      /\ r.liquidityIndex \in Nat /\ r.variableBorrowIndex \in Nat
  BY UnitsAssumption DEF TypeOK, ReservesOK, LedgersOK, WorldOK, SoundReserve, SettingsOK,
                         ReserveConfiguration, ReserveData
<1>2. growth \in Nat
  BY <1>1, IndexesGrow
<1>3. NextLiquidityIndex(r) \in Nat \ {0}
  <2>1. r.liquidityIndex >= RAY
    BY <1>1 DEF SoundReserve
  <2>2. NextLiquidityIndex(r) \in Nat /\ NextLiquidityIndex(r) >= r.liquidityIndex
    BY <1>1, IndexesGrow
  <2>3. QED
    BY <1>1, <2>1, <2>2, UnitsAssumption
<1> HIDE DEF growth
<1>4. rayMulFloor(vSupply[a], growth) \in Nat
  BY <1>1, <1>2, MultiplyTypes
<1>5. percentMul(rayMulFloor(vSupply[a], growth), config[a].reserveFactor) \in Nat
  BY <1>1, <1>4, MultiplyTypes
<1>6. QED
  BY <1>3, <1>5, DivideTypes DEF TreasuryAccrual, growth

(* A reserve left alone is settled tomorrow as it would be today.          *)
LEMMA IdleIndexes ==
    ASSUME TypeOK, TypeOK', NEW a \in Assets, Idle(a), now' = now
    PROVE  SameIndexes(a) /\ SameAccrual(a)
<1> DEFINE r == reserve[a]
           s == reserve'[a]
<1>1. r \in ReserveData /\ s \in ReserveData
  BY DEF TypeOK, ReservesOK
<1>2. SameBooks(r, s) /\ vSupply'[a] = vSupply[a]
      /\ config'[a].reserveFactor = config[a].reserveFactor
  BY DEF Idle
<1>3. /\ NextLiquidityIndex(r)' = NextLiquidityIndex(r)
      /\ NextVariableBorrowIndex(a, r)' = NextVariableBorrowIndex(a, r)
  BY <1>2 DEF SameBooks, NextLiquidityIndex, NextVariableBorrowIndex, IncomeOf, DebtIndexOf
<1>4. TreasuryAccrual(a, r)' = TreasuryAccrual(a, r)
  BY <1>2, <1>3 DEF SameBooks, TreasuryAccrual
<1>5. QED
  BY <1>1, <1>2, <1>3, <1>4
     DEF SameIndexes, SameAccrual, UpdatedReserve, UpdatedState, SameBooks, ReserveData

(* A reserve settled as of now stays as it is when settled again.          *)
LEMMA SettledStays ==
    ASSUME TypeOK', NEW a \in Assets, reserve'[a].lastUpdateTimestamp = now, now' = now
    PROVE  /\ UpdatedReserve(a)'.liquidityIndex = reserve'[a].liquidityIndex
           /\ UpdatedReserve(a)'.variableBorrowIndex = reserve'[a].variableBorrowIndex
           /\ UpdatedReserve(a)'.accruedToTreasury = reserve'[a].accruedToTreasury
<1> DEFINE s == reserve'[a]
           factor == config'[a].reserveFactor
<1>1. /\ s \in ReserveData /\ s.liquidityIndex \in Nat /\ s.variableBorrowIndex \in Nat
      /\ s.liquidityIndex >= RAY
      /\ s.accruedToTreasury \in Nat /\ vSupply'[a] \in Nat /\ factor \in Nat
  BY UnitsAssumption
     DEF TypeOK, ReservesOK, ReserveData, SettingsOK, ReserveConfiguration, LedgersOK
<1>2. s.liquidityIndex # 0
  BY <1>1, UnitsAssumption
<1>3. s.lastUpdateTimestamp = now
  OBVIOUS
<1>4. /\ NextLiquidityIndex(reserve[a])' = s.liquidityIndex
      /\ NextVariableBorrowIndex(a, reserve[a])' = s.variableBorrowIndex
  BY <1>2, <1>3 DEF NextLiquidityIndex, NextVariableBorrowIndex, IncomeOf, DebtIndexOf
<1>5. TreasuryAccrual(a, reserve[a])' = 0
  <2>1. s.variableBorrowIndex - s.variableBorrowIndex = 0
    BY <1>1
  <2>2. QED
    BY <1>1, <1>2, <1>4, <2>1, NothingAccrues DEF TreasuryAccrual
<1>6. s.accruedToTreasury + 0 = s.accruedToTreasury
  BY <1>1
<1>7. UpdatedReserve(a)' = [s EXCEPT !.liquidityIndex = s.liquidityIndex,
                                     !.variableBorrowIndex = s.variableBorrowIndex,
                                     !.accruedToTreasury = s.accruedToTreasury + 0,
                                     !.lastUpdateTimestamp = now']
  BY <1>4, <1>5 DEF UpdatedReserve, UpdatedState
<1>8. QED
  BY <1>1, <1>6, <1>7 DEF ReserveData

LEMMA SettledIndexes ==
    ASSUME TypeOK, TypeOK', NEW a \in Assets, Settled(a), now' = now
    PROVE  SameIndexes(a) /\ SameAccrual(a)
<1> DEFINE r == UpdatedReserve(a)
           s == reserve'[a]
<1>1. r \in ReserveData /\ r.lastUpdateTimestamp = now
  BY TradeTypes
<1>2. /\ s.liquidityIndex = r.liquidityIndex
      /\ s.variableBorrowIndex = r.variableBorrowIndex
      /\ s.accruedToTreasury = r.accruedToTreasury
      /\ s.lastUpdateTimestamp = now
  BY <1>1 DEF Settled, SameBooks, ReserveData
<1>3. QED
  BY <1>2, SettledStays DEF SameIndexes, SameAccrual

(* The payment of the treasury turns its accrual into as many scaled units. *)
LEMMA TreasuryIsPaid ==
    ASSUME TypeOK, NEW a \in Assets, MintToTreasury(a)
    PROVE  /\ reserve' = [reserve EXCEPT ![a].accruedToTreasury = 0]
           /\ aBalance' = Credit(aBalance, a, Treasury, reserve[a].accruedToTreasury)
           /\ aSupply' = [aSupply EXCEPT ![a] = @ + reserve[a].accruedToTreasury]
           /\ UNCHANGED <<vSupply, cash, config, now>>
<1>1. reserve[a].accruedToTreasury \in Nat
  BY DEF TypeOK, ReservesOK, ReserveData
<1>2. ATokenMintScaled(rayMulCeil(reserve[a].accruedToTreasury, NormalizedIncome(a)),
                       NormalizedIncome(a)) = reserve[a].accruedToTreasury
  BY <1>1, CallIndexes, AccrualRoundTrip
<1>3. QED
  BY <1>2 DEF MintToTreasury, adminVars, worldVars

LEMMA PaymentIndexes ==
    ASSUME TypeOK, TypeOK', NEW a \in Assets, MintToTreasury(a)
    PROVE  /\ SameIndexes(a)
           /\ aSupply'[a] + UpdatedReserve(a)'.accruedToTreasury
                = aSupply[a] + UpdatedReserve(a).accruedToTreasury
<1> DEFINE r == reserve[a]
           s == reserve'[a]
           accrual == TreasuryAccrual(a, r)
<1>1. /\ reserve' = [reserve EXCEPT ![a].accruedToTreasury = 0]
      /\ aSupply' = [aSupply EXCEPT ![a] = @ + r.accruedToTreasury]
      /\ UNCHANGED <<vSupply, cash, config, now>>
  BY TreasuryIsPaid
<1>2. reserve \in [Assets -> ReserveData] /\ r \in ReserveData /\ s \in ReserveData
      /\ aSupply \in [Assets -> Nat] /\ aSupply[a] \in Nat /\ r.accruedToTreasury \in Nat
  BY DEF TypeOK, ReservesOK, LedgersOK, ReserveData
<1>3. s = [r EXCEPT !.accruedToTreasury = 0]
  BY <1>1, <1>2
<1>4. /\ s.liquidityIndex = r.liquidityIndex
      /\ s.variableBorrowIndex = r.variableBorrowIndex
      /\ s.currentLiquidityRate = r.currentLiquidityRate
      /\ s.currentVariableBorrowRate = r.currentVariableBorrowRate
      /\ s.lastUpdateTimestamp = r.lastUpdateTimestamp
      /\ s.accruedToTreasury = 0
  BY <1>2, <1>3 DEF ReserveData
<1>5. /\ NextLiquidityIndex(reserve[a])' = NextLiquidityIndex(r)
      /\ NextVariableBorrowIndex(a, reserve[a])' = NextVariableBorrowIndex(a, r)
  BY <1>1, <1>4 DEF NextLiquidityIndex, NextVariableBorrowIndex, IncomeOf, DebtIndexOf
<1>6. TreasuryAccrual(a, reserve[a])' = accrual
  BY <1>1, <1>4, <1>5 DEF TreasuryAccrual
<1>7. /\ UpdatedReserve(a)'.accruedToTreasury = 0 + accrual
      /\ UpdatedReserve(a).accruedToTreasury = r.accruedToTreasury + accrual
      /\ SameIndexes(a)
  BY <1>2, <1>4, <1>5, <1>6 DEF SameIndexes, UpdatedReserve, UpdatedState, ReserveData
<1>8. accrual \in Nat
  BY AccrualType
<1>9. aSupply'[a] = aSupply[a] + r.accruedToTreasury
  BY <1>1, <1>2
<1>10. QED
  BY <1>2, <1>7, <1>8, <1>9

(* Whatever the step, the reserve's assets grow at least as its claims do. *)
LEMMA EquityOfFairStep ==
    ASSUME TypeOK, TypeOK', NEW a \in Assets, FairStep(a), now' = now
    PROVE  Assets2Rays(a)' + OwedRays(a) >= Assets2Rays(a) + OwedRays(a)'
<1> DEFINE x == UpdatedReserve(a).liquidityIndex
           y == UpdatedReserve(a).variableBorrowIndex
           e == UpdatedReserve(a).accruedToTreasury
           e2 == UpdatedReserve(a)'.accruedToTreasury
           c == cash[a]
           c2 == cash'[a]
           v == vSupply[a]
           v2 == vSupply'[a]
           s == aSupply[a]
           s2 == aSupply'[a]
<1>1. /\ x \in Nat /\ y \in Nat /\ RAY \in Nat /\ c \in Nat /\ c2 \in Nat
      /\ v \in Nat /\ v2 \in Nat /\ s \in Nat /\ s2 \in Nat /\ e \in Nat
  BY TradeTypes, UnitsAssumption DEF ReserveData
<1>2. SameIndexes(a)
  BY IdleIndexes, SettledIndexes, PaymentIndexes DEF FairStep
<1>3. /\ Assets2Rays(a) = RAY * c + v * y
      /\ OwedRays(a) = (s + e) * x
      /\ Assets2Rays(a)' = RAY * c2 + v2 * y
      /\ OwedRays(a)' = (s2 + e2) * x
  BY <1>2 DEF Assets2Rays, OwedRays, SameIndexes
<1>4. \/ e2 = e /\ (RAY * c2 + v2 * y) + s * x >= (RAY * c + v * y) + s2 * x
      \/ s2 + e2 = s + e /\ c2 = c /\ v2 = v
  <2>1. CASE Idle(a)
    <3>1. e2 = e /\ c2 = c /\ v2 = v /\ s2 = s
      BY <2>1, IdleIndexes DEF SameAccrual, Idle
    <3>2. QED
      BY <3>1
  <2>2. CASE Settled(a) /\ FairExchange(a)
    <3>1. e2 = e
      BY <2>2, SettledIndexes DEF SameAccrual
    <3>2. QED
      BY <2>2, <3>1 DEF FairExchange
  <2>3. CASE MintToTreasury(a)
    <3>1. s2 + e2 = s + e
      BY <2>3, PaymentIndexes
    <3>2. c2 = c /\ v2 = v
      BY <2>3, TreasuryIsPaid
    <3>3. QED
      BY <3>1, <3>2
  <2>4. QED
    BY <2>1, <2>2, <2>3 DEF FairStep
<1> HIDE DEF x, y, e, e2, c, c2, v, v2, s, s2
<1>5. /\ RAY * c \in Nat /\ RAY * c2 \in Nat /\ v * y \in Nat /\ v2 * y \in Nat
      /\ s * x \in Nat /\ s2 * x \in Nat /\ e * x \in Nat
  BY <1>1, ProductNat
<1>6. CASE e2 = e /\ (RAY * c2 + v2 * y) + s * x >= (RAY * c + v * y) + s2 * x
  <2>1. (s + e) * x = s * x + e * x /\ (s2 + e) * x = s2 * x + e * x
    BY <1>1
  <2>2. (RAY * c2 + v2 * y) + (s + e) * x >= (RAY * c + v * y) + (s2 + e) * x
    BY <1>5, <1>6, <2>1
  <2>3. QED
    BY <1>3, <1>6, <2>2
<1>7. CASE s2 + e2 = s + e /\ c2 = c /\ v2 = v
  <2>1. (s + e) * x \in Nat
    BY <1>1
  <2>2. (RAY * c + v * y) + (s + e) * x >= (RAY * c + v * y) + (s + e) * x
    BY <1>5, <2>1
  <2>3. QED
    BY <1>3, <1>7, <2>2
<1>8. QED
  BY <1>4, <1>6, <1>7

(* No call, of anybody and in any order, takes value out of a reserve: at  *)
(* any one instant every rounding in it is in favour of the pool.          *)
THEOREM EquityIsKept == Spec => EquityNeverFalls
<1>1. TypeOK /\ [Next]_vars => EquityNeverFallsStep
  <2> SUFFICES ASSUME TypeOK, [Next]_vars, now' = now, NEW a \in Assets
               PROVE  Assets2Rays(a)' + OwedRays(a) >= Assets2Rays(a) + OwedRays(a)'
    BY DEF EquityNeverFallsStep
  <2>1. TypeOK'
    BY NextSound
  <2>2. FairStep(a)
    BY NextIsFair
  <2>3. QED
    BY <2>1, <2>2, EquityOfFairStep
<1>2. QED
  BY <1>1, TypeCorrect, PTL DEF Spec, EquityNeverFalls

-----------------------------------------------------------------------------
(* The treasury.                                                           *)

(* No call of the pool drops an accrual.                                   *)
LEMMA NextPaysAccrual ==
    TypeOK /\ [Next]_vars => TreasuryGetsItsAccrualStep
<1> SUFFICES ASSUME TypeOK, [Next]_vars, NEW a \in Assets,
                    reserve'[a].accruedToTreasury < reserve[a].accruedToTreasury
             PROVE  aBalance'[a][Treasury]
                      = aBalance[a][Treasury] + reserve[a].accruedToTreasury
  BY DEF TreasuryGetsItsAccrualStep
<1>1. TypeOK' /\ FairStep(a)
  BY NextSound, NextIsFair
<1>2. /\ reserve[a].accruedToTreasury \in Nat
      /\ reserve'[a].accruedToTreasury \in Nat
      /\ aBalance \in [Assets -> [Accounts -> Nat]] /\ Treasury \in Accounts
  BY <1>1 DEF TypeOK, ReservesOK, LedgersOK, ReserveData, Accounts
<1>3. CASE Idle(a)
  BY <1>2, <1>3 DEF Idle, SameBooks
<1>4. CASE Settled(a)
  <2>1. reserve'[a].accruedToTreasury = UpdatedReserve(a).accruedToTreasury
    BY <1>1, <1>4, TradeTypes DEF Settled, SameBooks, ReserveData
  <2>2. UpdatedReserve(a).accruedToTreasury
          = reserve[a].accruedToTreasury + TreasuryAccrual(a, reserve[a])
    BY DEF UpdatedReserve, UpdatedState, TypeOK, ReservesOK, ReserveData
  <2>3. QED
    BY <1>2, <2>1, <2>2, AccrualType
<1>5. CASE MintToTreasury(a)
  BY <1>2, <1>5, TreasuryIsPaid DEF Credit
<1>6. QED
  BY <1>1, <1>3, <1>4, <1>5 DEF FairStep

(* An accrual never disappears: where it gets less, it has been paid out,  *)
(* unit for unit, to the treasury.                                         *)
THEOREM AccrualIsPaid == Spec => TreasuryGetsItsAccrual
<1>1. TypeOK /\ [Next]_vars => TreasuryGetsItsAccrualStep
  BY NextPaysAccrual
<1>2. QED
  BY <1>1, TypeCorrect, PTL DEF Spec, TreasuryGetsItsAccrual

-----------------------------------------------------------------------------
(* The rates.                                                              *)

LEMMA InitRatesFresh == Init => RatesFresh
<1> SUFFICES ASSUME Init, NEW a \in Assets, reserve[a].lastUpdateTimestamp # 0
             PROVE  RatesFreshFor(a)
  BY DEF RatesFresh, RatesFreshFor
<1> DEFINE rates == InterestRates(a, 0, 0, InitialConfig[a].reserveFactor)
<1>1. reserve[a] = EmptiedReserve(a)
  BY DEF Init, NewReserve
<1>2. vSupply[a] = 0 /\ cash[a] = 0 /\ config[a] = InitialConfig[a]
  BY DEF Init
<1>3. VTokenBalance(0, InitialIndexes[a].variableBorrowIndex) = 0
  <2>1. InitialIndexes[a].variableBorrowIndex \in Nat
        /\ InitialIndexes[a].variableBorrowIndex >= RAY
    BY PoolAssumption
  <2>2. QED
    BY <2>1, UnitsAssumption, NoDebtIsHidden
<1> HIDE DEF rates
<1>4. /\ reserve[a].currentLiquidityRate = rates.liquidity
      /\ reserve[a].currentVariableBorrowRate = rates.variable
      /\ reserve[a].variableBorrowIndex = InitialIndexes[a].variableBorrowIndex
  BY <1>1 DEF EmptiedReserve, rates
<1>5. QED
  BY <1>2, <1>3, <1>4 DEF RatesFreshFor, rates

(* A settled reserve has fresh rates, and a fair step keeps rates fresh.   *)
LEMMA SettledIsFresh ==
    ASSUME TypeOK, TypeOK', NEW a \in Assets, Settled(a)
    PROVE  RatesFreshFor(a)'
<1>1. UpdatedReserve(a) \in ReserveData
  BY TradeTypes
<1>2. QED
  BY <1>1 DEF RatesFreshFor, Settled, SameBooks, ReserveData

LEMMA FairStepKeepsFresh ==
    ASSUME TypeOK, TypeOK', NEW a \in Assets, FairStep(a), RatesFreshFor(a)
    PROVE  RatesFreshFor(a)'
<1>1. reserve \in [Assets -> ReserveData]
  BY DEF TypeOK, ReservesOK
<1>2. CASE Idle(a)
  BY <1>1, <1>2 DEF RatesFreshFor, Idle, SameBooks
<1>3. CASE Settled(a)
  BY <1>3, SettledIsFresh
<1>4. CASE MintToTreasury(a)
  <2>1. /\ reserve'[a] = [reserve[a] EXCEPT !.accruedToTreasury = 0]
        /\ UNCHANGED <<vSupply, cash, config>>
    BY <1>1, <1>4, TreasuryIsPaid
  <2>2. /\ reserve'[a].currentLiquidityRate = reserve[a].currentLiquidityRate
        /\ reserve'[a].currentVariableBorrowRate = reserve[a].currentVariableBorrowRate
        /\ reserve'[a].variableBorrowIndex = reserve[a].variableBorrowIndex
        /\ reserve'[a].lastUpdateTimestamp = reserve[a].lastUpdateTimestamp
    BY <1>1, <2>1 DEF ReserveData
  <2>3. QED
    BY <2>1, <2>2 DEF RatesFreshFor
<1>5. QED
  BY <1>2, <1>3, <1>4 DEF FairStep

(* The rates in storage are always those the strategy gives for the cash   *)
(* and the debt in storage, although every call computes them before its   *)
(* funds move, and a liquidation in one reserve computes them twice.       *)
THEOREM RatesStayFresh == Spec => []RatesFresh
<1>1. Init => RatesFresh
  BY InitRatesFresh
<1>2. TypeOK /\ RatesFresh /\ [Next]_vars => RatesFresh'
  <2> SUFFICES ASSUME TypeOK, RatesFresh, [Next]_vars, NEW a \in Assets
               PROVE  RatesFreshFor(a)'
    BY DEF RatesFresh
  <2>1. QED
    BY NextSound, NextIsFair, FairStepKeepsFresh DEF RatesFresh
<1>3. QED
  BY <1>1, <1>2, TypeCorrect, PTL DEF Spec

-----------------------------------------------------------------------------
(* Interest is shared.                                                     *)

(* The average rate is the rate, rounded twice.                            *)
LEMMA AverageRate ==
    ASSUME NEW D \in Nat \ {0}, NEW V \in Nat
    PROVE  /\ OverallBorrowRate(D, V) \in Nat
           /\ 2 * (D * OverallBorrowRate(D, V)) <= 2 * (D * V) + DivCeil(RAY, WAD_RAY_RATIO) + D
           /\ OverallBorrowRate(D, V) <= V + RAY
<1> DEFINE W == D * WAD_RAY_RATIO
           m == rayMul(W, V)
           O == rayDiv(m, W)
           K == DivCeil(RAY, WAD_RAY_RATIO)
<1>1. RAY \in Nat \ {0} /\ WAD_RAY_RATIO \in Nat \ {0}
  BY UnitsAssumption, StrategyAssumption
<1>2. W \in Nat \ {0}
  BY <1>1
<1>3. K \in Nat /\ RAY <= WAD_RAY_RATIO * K /\ K <= RAY
  <2>1. RAY <= WAD_RAY_RATIO * RAY
    BY <1>1
  <2> QED BY <1>1, <2>1, RoundingTypes, CeilBounds, QuotientAtMost
<1> HIDE DEF K
<1>4. m \in Nat /\ 2 * (RAY * m) <= 2 * (W * V) + RAY
  <2>1. W * V \in Nat
    BY <1>2, ProductNat
  <2> QED BY <1>1, <2>1, HalfUpBounds DEF rayMul
<1> HIDE DEF m
<1>5. O \in Nat /\ 2 * (W * O) <= 2 * (m * RAY) + W
  <2>1. m * RAY \in Nat
    BY <1>1, <1>4, ProductNat
  <2> QED BY <1>2, <2>1, HalfUpBounds DEF rayDiv
<1> HIDE DEF O
<1>6. 2 * (W * O) <= 2 * (W * V) + RAY + W
  BY <1>1, <1>2, <1>4, <1>5
<1>7. 2 * (D * O) <= 2 * (D * V) + K + D
  <2>1. WAD_RAY_RATIO * (2 * (D * O)) = 2 * (W * O)
    BY <1>1, <1>5
  <2>2. WAD_RAY_RATIO * (2 * (D * V) + K + D) = 2 * (W * V) + WAD_RAY_RATIO * K + W
    BY <1>1, <1>3
  <2>3. WAD_RAY_RATIO * (2 * (D * O)) <= WAD_RAY_RATIO * (2 * (D * V) + K + D)
    BY <1>1, <1>2, <1>3, <1>5, <1>6, <2>1, <2>2
  <2>4. 2 * (D * O) \in Nat /\ 2 * (D * V) + K + D \in Nat
    BY <1>3, <1>5
  <2> QED BY <1>1, <2>3, <2>4, FactorCancels
<1>8. O <= V + RAY
  <2>1. K + D <= D * (RAY + 1)
    <3>1. D * RAY >= RAY /\ D * (RAY + 1) = D * RAY + D
      BY <1>1
    <3> QED BY <1>1, <1>3, <3>1
  <2>2. 2 * (D * V) + D * (RAY + 1) <= D * (2 * (V + RAY))
    <3>1. D * (2 * (V + RAY)) = 2 * (D * V) + D * (2 * RAY)
      BY <1>1
    <3>2. D * (RAY + 1) <= D * (2 * RAY)
      BY <1>1, ProductMonotone
    <3>3. D * V \in Nat /\ D * (RAY + 1) \in Nat /\ D * (2 * RAY) \in Nat
      BY <1>1
    <3> QED BY <3>1, <3>2, <3>3
  <2>3. D * (2 * O) <= D * (2 * (V + RAY))
    <3>1. D * (2 * O) = 2 * (D * O)
      BY <1>5
    <3>2. D * O \in Nat /\ D * V \in Nat /\ D * (RAY + 1) \in Nat /\ D * (2 * (V + RAY)) \in Nat
      BY <1>1, <1>5
    <3> QED BY <1>3, <1>7, <2>1, <2>2, <3>1, <3>2
  <2>4. 2 * O <= 2 * (V + RAY)
    <3>1. 2 * O \in Nat /\ 2 * (V + RAY) \in Nat
      BY <1>1, <1>5
    <3> QED BY <2>3, <3>1, FactorCancels
  <2> QED BY <1>1, <1>5, <2>4
<1>9. OverallBorrowRate(D, V) = O
  BY DEF OverallBorrowRate, O, m, W, wadToRay
<1> QED BY <1>5, <1>7, <1>8, <1>9 DEF K

(* What the rates pay the suppliers of claims C, no more than the cash c   *)
(* and the debt D: the debt's interest without the treasury's share q, and *)
(* dust.                                                                   *)
LEMMA SuppliersRate ==
    ASSUME NEW D \in Nat \ {0}, NEW c \in Nat, NEW V \in Nat, NEW C \in Nat,
           C <= RAY * (c + D), NEW q \in 0..PERCENTAGE_FACTOR
    PROVE  LET L == percentMul(rayMul(OverallBorrowRate(D, V), rayDiv(D, c + D)), q)
           IN  /\ L \in Nat
               /\ PERCENTAGE_FACTOR * (C * L)
                    <= q * (RAY * (D * V))
                         + PERCENTAGE_FACTOR * (RAY * (DivCeil(RAY, WAD_RAY_RATIO)
                                                        + rayMulCeil(c + D, V) + 2 * (c + D)))
<1> DEFINE T == c + D
           O == OverallBorrowRate(D, V)
           u == rayDiv(D, T)
           m == rayMul(O, u)
           L == percentMul(m, q)
           K == DivCeil(RAY, WAD_RAY_RATIO)
           M == rayMulCeil(T, V)
           P == PERCENTAGE_FACTOR
<1>1. /\ RAY \in Nat \ {0} /\ WAD_RAY_RATIO \in Nat \ {0} /\ P \in Nat \ {0}
      /\ q \in Nat /\ q <= P
  BY UnitsAssumption, StrategyAssumption
<1>2. T \in Nat \ {0} /\ D <= T
  OBVIOUS
<1>3. O \in Nat /\ 2 * (D * O) <= 2 * (D * V) + K + D /\ O <= V + RAY
  BY AverageRate
<1>4. K \in Nat
  BY <1>1, RoundingTypes
<1>5. M \in Nat /\ T * V <= RAY * M
  <2>1. T * V \in Nat
    BY <1>2, ProductNat
  <2> QED BY <1>1, <2>1, RoundingTypes, CeilBounds DEF rayMulCeil
<1> HIDE DEF O, K, M, P
<1>6. u \in Nat /\ 2 * (T * u) <= 2 * (D * RAY) + T
  <2>1. D * RAY \in Nat
    BY <1>1, ProductNat
  <2> QED BY <1>2, <2>1, HalfUpBounds DEF rayDiv
<1>7. C <= RAY * T
  OBVIOUS
<1> HIDE DEF u, T
<1>8. m \in Nat /\ 2 * (RAY * m) <= 2 * (O * u) + RAY
  <2>1. O * u \in Nat
    BY <1>3, <1>6, ProductNat
  <2> QED BY <1>1, <2>1, HalfUpBounds DEF rayMul
<1> HIDE DEF m
<1>9. L \in Nat /\ 2 * (P * L) <= 2 * (m * q) + P
  <2>1. m * q \in Nat
    BY <1>1, <1>8, ProductNat
  <2> QED BY <1>1, <2>1, HalfUpBounds DEF percentMul, P
<1> HIDE DEF L
\* The claims earn the average rate on the debt.
<1>10. 2 * (C * u) <= RAY * (2 * (D * RAY) + T)
  <2>1. C * u <= (RAY * T) * u
    BY <1>1, <1>2, <1>6, <1>7, ProductMonotone
  <2>2. RAY * (2 * (T * u)) <= RAY * (2 * (D * RAY) + T)
    BY <1>1, <1>2, <1>6, ProductMonotone
  <2>3. RAY * (2 * (T * u)) = 2 * ((RAY * T) * u)
    BY <1>1, <1>2, <1>6
  <2>4. C * u \in Nat /\ (RAY * T) * u \in Nat /\ RAY * (2 * (D * RAY) + T) \in Nat
    BY <1>1, <1>2, <1>6
  <2> QED BY <2>1, <2>2, <2>3, <2>4
<1>11. 2 * (C * (O * u)) <= RAY * (2 * (RAY * (D * O)) + T * O)
  <2>1. (2 * (C * u)) * O <= (RAY * (2 * (D * RAY) + T)) * O
    BY <1>1, <1>2, <1>3, <1>6, <1>10, ProductMonotone
  <2>2. (2 * (C * u)) * O = 2 * (C * (O * u))
    BY <1>3, <1>6
  <2>3. (RAY * (2 * (D * RAY) + T)) * O = RAY * (2 * (RAY * (D * O)) + T * O)
    BY <1>1, <1>2, <1>3
  <2> QED BY <2>1, <2>2, <2>3
<1>12. 2 * (C * m) <= 2 * (RAY * (D * O)) + T * O + RAY * T
  <2>1. C * (2 * (RAY * m)) <= C * (2 * (O * u) + RAY)
    BY <1>1, <1>3, <1>6, <1>8, ProductMonotone
  <2>2. /\ C * (2 * (RAY * m)) = RAY * (2 * (C * m))
        /\ C * (2 * (O * u) + RAY) = 2 * (C * (O * u)) + C * RAY
    BY <1>1, <1>3, <1>6, <1>8
  <2>3. C * RAY <= RAY * (RAY * T)
    BY <1>1, <1>2, <1>7, ProductMonotone
  <2>4. RAY * (2 * (RAY * (D * O)) + T * O) + RAY * (RAY * T)
          = RAY * (2 * (RAY * (D * O)) + T * O + RAY * T)
    BY <1>1, <1>2, <1>3
  <2>5. RAY * (2 * (C * m)) <= RAY * (2 * (RAY * (D * O)) + T * O + RAY * T)
    <3>1. /\ RAY * (2 * (C * m)) \in Nat /\ 2 * (C * (O * u)) \in Nat /\ C * RAY \in Nat
          /\ RAY * (RAY * T) \in Nat /\ RAY * (2 * (RAY * (D * O)) + T * O) \in Nat
      BY <1>1, <1>2, <1>3, <1>6, <1>8
    <3> QED BY <1>11, <2>1, <2>2, <2>3, <2>4, <3>1
  <2>6. 2 * (C * m) \in Nat /\ 2 * (RAY * (D * O)) + T * O + RAY * T \in Nat
    BY <1>1, <1>2, <1>3, <1>8
  <2> QED BY <1>1, <2>5, <2>6, FactorCancels
\* The average rate is the rate.
<1>13. 2 * (C * m) <= RAY * (2 * (D * V) + K + D + M + 2 * T)
  <2>1. RAY * (2 * (D * O)) <= RAY * (2 * (D * V) + K + D)
    BY <1>1, <1>3, <1>4, ProductMonotone
  <2>2. T * O <= T * (V + RAY)
    BY <1>1, <1>2, <1>3, ProductMonotone
  <2>3. T * (V + RAY) = T * V + RAY * T
    BY <1>1, <1>2
  <2>4. RAY * (2 * (D * O)) = 2 * (RAY * (D * O))
    BY <1>1, <1>3
  <2>5. RAY * (2 * (D * V) + K + D + M + 2 * T)
          = RAY * (2 * (D * V) + K + D) + RAY * M + RAY * T + RAY * T
    BY <1>1, <1>2, <1>4, <1>5
  <2>6. /\ 2 * (C * m) \in Nat /\ RAY * (2 * (D * O)) \in Nat /\ T * O \in Nat
        /\ T * V \in Nat /\ RAY * T \in Nat /\ RAY * M \in Nat
        /\ RAY * (2 * (D * V) + K + D) \in Nat
    BY <1>1, <1>2, <1>3, <1>4, <1>5, <1>8
  <2> QED BY <1>5, <1>12, <2>1, <2>2, <2>3, <2>4, <2>5, <2>6
\* The treasury's share is taken off.
<1>14. 2 * (P * (C * L)) <= q * (RAY * (2 * (D * V) + K + D + M + 2 * T)) + P * (RAY * T)
  <2>1. C * (2 * (P * L)) <= C * (2 * (m * q) + P)
    BY <1>1, <1>8, <1>9, ProductMonotone
  <2>2. /\ C * (2 * (P * L)) = 2 * (P * (C * L))
        /\ C * (2 * (m * q) + P) = q * (2 * (C * m)) + P * C
    BY <1>1, <1>8, <1>9
  <2>3. q * (2 * (C * m)) <= q * (RAY * (2 * (D * V) + K + D + M + 2 * T))
    BY <1>1, <1>2, <1>4, <1>5, <1>8, <1>13, ProductMonotone
  <2>4. P * C <= P * (RAY * T)
    BY <1>1, <1>2, <1>7, ProductMonotone
  <2>5. /\ 2 * (P * (C * L)) \in Nat /\ q * (2 * (C * m)) \in Nat /\ P * C \in Nat
        /\ P * (RAY * T) \in Nat
        /\ q * (RAY * (2 * (D * V) + K + D + M + 2 * T)) \in Nat
    BY <1>1, <1>2, <1>4, <1>5, <1>8, <1>9
  <2> QED BY <2>1, <2>2, <2>3, <2>4, <2>5
<1>15. 2 * (P * (C * L)) <= 2 * (q * (RAY * (D * V)) + P * (RAY * (K + M + 2 * T)))
  <2> DEFINE rest == RAY * (K + D + M + 2 * T)
  <2>1. q * (RAY * (2 * (D * V) + K + D + M + 2 * T))
          = 2 * (q * (RAY * (D * V))) + q * rest
    BY <1>1, <1>2, <1>4, <1>5
  <2>2. q * rest <= P * rest
    BY <1>1, <1>2, <1>4, <1>5, ProductMonotone
  <2>3. P * rest + P * (RAY * T) <= 2 * (P * (RAY * (K + M + 2 * T)))
    <3>1. K + D + M + 2 * T + T <= 2 * (K + M + 2 * T)
      BY <1>2, <1>4, <1>5
    <3>2. P * (RAY * (K + D + M + 2 * T + T)) <= P * (RAY * (2 * (K + M + 2 * T)))
      <4>1. RAY * (K + D + M + 2 * T + T) <= RAY * (2 * (K + M + 2 * T))
        BY <1>1, <1>2, <1>4, <1>5, <3>1, ProductMonotone
      <4> QED BY <1>1, <1>2, <1>4, <1>5, <4>1, ProductMonotone
    <3>3. P * (RAY * (K + D + M + 2 * T + T)) = P * rest + P * (RAY * T)
      BY <1>1, <1>2, <1>4, <1>5
    <3>4. P * (RAY * (2 * (K + M + 2 * T))) = 2 * (P * (RAY * (K + M + 2 * T)))
      BY <1>1, <1>2, <1>4, <1>5
    <3> QED BY <3>2, <3>3, <3>4
  <2>4. /\ rest \in Nat /\ P * (RAY * T) \in Nat /\ q * (RAY * (D * V)) \in Nat
        /\ P * (RAY * (K + M + 2 * T)) \in Nat
    BY <1>1, <1>2, <1>4, <1>5
  <2> HIDE DEF rest
  <2>5. q * rest \in Nat /\ P * rest \in Nat
    BY <1>1, <2>4, ProductNat
  <2>6. 2 * (P * (C * L)) \in Nat
    BY <1>1, <1>9
  <2> QED BY <1>14, <2>1, <2>2, <2>3, <2>4, <2>5, <2>6
<1>16. P * (C * L) <= q * (RAY * (D * V)) + P * (RAY * (K + M + 2 * T))
  <2>1. /\ P * (C * L) \in Nat /\ q * (RAY * (D * V)) \in Nat
        /\ P * (RAY * (K + M + 2 * T)) \in Nat
    BY <1>1, <1>2, <1>4, <1>5, <1>9
  <2> QED BY <1>15, <2>1
<1> QED BY <1>9, <1>16 DEF L, m, u, O, K, M, P, T

(* A reserve earns nothing, or by the rates of what it holds: the first    *)
(* call on a new reserve is the one that rates it.                         *)
RatedFor(a) ==
    LET r == reserve[a]
        rates == InterestRates(a, VTokenBalance(vSupply[a], r.variableBorrowIndex),
                               cash[a], config[a].reserveFactor)
    IN  \/ r.currentLiquidityRate = 0
        \/ /\ r.currentLiquidityRate = rates.liquidity
           /\ r.currentVariableBorrowRate = rates.variable

(* Every reserve does.                                                     *)
EarnsByRates == \A a \in Assets : RatedFor(a)

(* No reserve earns before it is first called.                             *)
LEMMA InitEarnsByRates == Init => EarnsByRates
<1> SUFFICES ASSUME Init, NEW a \in Assets PROVE RatedFor(a)
  BY DEF EarnsByRates
<1>1. CASE a \in NewAssets
  <2>1. reserve[a].currentLiquidityRate = 0
    BY <1>1 DEF Init, NewReserve
  <2> QED BY <2>1 DEF RatedFor
<1>2. CASE a \notin NewAssets
  <2>1. reserve[a].lastUpdateTimestamp # 0
    BY <1>2 DEF Init, EmptiedReserve
  <2>2. RatesFreshFor(a)
    BY InitRatesFresh DEF RatesFresh
  <2> QED BY <2>1, <2>2 DEF RatesFreshFor, RatedFor
<1> QED BY <1>1, <1>2

(* A settled reserve is rated for what it holds; the rest touches no rate. *)
LEMMA FairStepKeepsRated ==
    ASSUME TypeOK, TypeOK', NEW a \in Assets, FairStep(a), RatedFor(a)
    PROVE  RatedFor(a)'
<1>1. reserve \in [Assets -> ReserveData]
  BY DEF TypeOK, ReservesOK
<1>2. CASE Idle(a)
  BY <1>1, <1>2 DEF RatedFor, Idle, SameBooks
<1>3. CASE Settled(a)
  <2>1. UpdatedReserve(a) \in ReserveData
    BY TradeTypes
  <2> QED BY <1>3, <2>1 DEF RatedFor, Settled, SameBooks, ReserveData
<1>4. CASE MintToTreasury(a)
  <2>1. /\ reserve'[a] = [reserve[a] EXCEPT !.accruedToTreasury = 0]
        /\ UNCHANGED <<vSupply, cash, config>>
    BY <1>1, <1>4, TreasuryIsPaid
  <2>2. /\ reserve'[a].currentLiquidityRate = reserve[a].currentLiquidityRate
        /\ reserve'[a].currentVariableBorrowRate = reserve[a].currentVariableBorrowRate
        /\ reserve'[a].variableBorrowIndex = reserve[a].variableBorrowIndex
    BY <1>1, <2>1 DEF ReserveData
  <2> QED BY <2>1, <2>2 DEF RatedFor
<1> QED BY <1>2, <1>3, <1>4 DEF FairStep

(* Every reachable state has rates that belong to what reserves hold.      *)
LEMMA AlwaysEarnsByRates == Spec => []EarnsByRates
<1>1. TypeOK /\ EarnsByRates /\ [Next]_vars => EarnsByRates'
  <2> SUFFICES ASSUME TypeOK, EarnsByRates, [Next]_vars, NEW a \in Assets
               PROVE  RatedFor(a)'
    BY DEF EarnsByRates
  <2> QED BY NextSound, NextIsFair, FairStepKeepsRated DEF EarnsByRates
<1> QED BY <1>1, InitEarnsByRates, TypeCorrect, PTL DEF Spec

(* What claims C earn in a reserve that backs them.                        *)
LEMMA BackedClaimsEarn ==
    ASSUME TypeOK, NEW a \in Assets, RatedFor(a), NEW C \in Nat,
           C <= RAY * (cash[a] + VTokenBalance(vSupply[a], reserve[a].variableBorrowIndex))
    PROVE  LET r == reserve[a]
               V == r.currentVariableBorrowRate
               T == cash[a] + VTokenBalance(vSupply[a], r.variableBorrowIndex)
           IN  PERCENTAGE_FACTOR * (C * r.currentLiquidityRate)
                 <= (PERCENTAGE_FACTOR - config[a].reserveFactor)
                       * ((vSupply[a] * r.variableBorrowIndex) * V)
                      + PERCENTAGE_FACTOR * (RAY * (V + DivCeil(RAY, WAD_RAY_RATIO)
                                                      + 2 * T + rayMulCeil(T, V)))
<1> DEFINE r == reserve[a]
           V == r.currentVariableBorrowRate
           L == r.currentLiquidityRate
           I == r.variableBorrowIndex
           v == vSupply[a]
           c == cash[a]
           D == VTokenBalance(v, I)
           T == c + D
           q == PERCENTAGE_FACTOR - config[a].reserveFactor
           K == DivCeil(RAY, WAD_RAY_RATIO)
           M == rayMulCeil(T, V)
           P == PERCENTAGE_FACTOR
<1>1. /\ RAY \in Nat \ {0} /\ WAD_RAY_RATIO \in Nat \ {0} /\ P \in Nat \ {0}
  BY UnitsAssumption, StrategyAssumption
<1>2. /\ V \in Nat /\ L \in Nat /\ I \in Nat /\ v \in Nat /\ c \in Nat
      /\ config[a].reserveFactor \in 0..P
  BY DEF TypeOK, ReservesOK, LedgersOK, SettingsOK, ReserveData, ReserveConfiguration
<1>3. q \in 0..P /\ q \in Nat /\ q <= P
  BY <1>1, <1>2
<1> HIDE DEF q
<1>4. D \in Nat /\ RAY * D < v * I + RAY
  <2>1. v * I \in Nat
    BY <1>2, ProductNat
  <2> QED BY <1>1, <2>1, RoundingTypes, CeilBounds DEF VTokenBalance, rayMulCeil
<1>5. L = 0 \/ (/\ L = InterestRates(a, D, c, config[a].reserveFactor).liquidity
                /\ V = InterestRates(a, D, c, config[a].reserveFactor).variable)
  BY DEF RatedFor
<1>6. C <= RAY * T
  OBVIOUS
<1> HIDE DEF D, r, V, L, I, v, c
<1>7. T \in Nat /\ K \in Nat /\ M \in Nat
  <2>1. T \in Nat
    BY <1>2, <1>4
  <2>2. K \in Nat
    BY <1>1, RoundingTypes
  <2> HIDE DEF T
  <2>3. M \in Nat
    BY <1>2, <2>1, MultiplyTypes
  <2> QED BY <2>1, <2>2, <2>3
<1>8. D = 0 => L = 0
  <2> SUFFICES ASSUME D = 0, L # 0 PROVE FALSE
    BY <1>2
  <2>1. rayMul(0, 0) = 0 /\ percentMul(0, q) = 0
    <3>1. 0 * 0 = RAY * 0 /\ 0 * q = P * 0
      BY <1>1, <1>3
    <3> QED BY <1>1, <3>1, HalfUpOfMultiple DEF rayMul, percentMul
  <2>2. L = percentMul(rayMul(OverallBorrowRate(0, V), 0), q)
    BY <1>5 DEF InterestRates, q
  <2> QED BY <2>1, <2>2 DEF OverallBorrowRate
<1>9. ASSUME D # 0, L # 0
      PROVE  L = percentMul(rayMul(OverallBorrowRate(D, V), rayDiv(D, c + D)), q)
  BY <1>5, <1>9 DEF InterestRates, q
<1> HIDE DEF K, M, T, P
<1>10. P * (C * L) <= q * ((v * I) * V) + P * (RAY * (V + K + 2 * T + M))
  <2>1. CASE L = 0
    <3>1. P * (C * L) = 0
      BY <1>1, <2>1
    <3>2. q * ((v * I) * V) \in Nat /\ P * (RAY * (V + K + 2 * T + M)) \in Nat
      BY <1>1, <1>2, <1>3, <1>7, ProductNat
    <3> QED BY <3>1, <3>2
  <2>2. CASE L # 0
    <3>1. D \in Nat \ {0}
      BY <1>4, <1>8, <2>2
    <3>2. P * (C * L) <= q * (RAY * (D * V)) + P * (RAY * (K + M + 2 * T))
      BY <1>2, <1>3, <1>6, <1>9, <2>2, <3>1, SuppliersRate DEF K, M, T, P
    <3>3. q * (RAY * (D * V)) <= q * ((v * I) * V) + P * (RAY * V)
      <4>1. V * (RAY * D) <= V * (v * I + RAY)
        BY <1>1, <1>2, <1>4, ProductNat, ProductMonotone
      <4>2. q * (V * (RAY * D)) <= q * (V * (v * I + RAY))
        BY <1>1, <1>2, <1>3, <1>4, <4>1, ProductNat, ProductMonotone
      <4>3. /\ q * (V * (RAY * D)) = q * (RAY * (D * V))
            /\ q * (V * (v * I + RAY)) = q * ((v * I) * V) + q * (RAY * V)
        BY <1>1, <1>2, <1>3, <1>4
      <4>4. q * (RAY * V) <= P * (RAY * V)
        BY <1>1, <1>2, <1>3, ProductNat, ProductMonotone
      <4>5. /\ q * (RAY * (D * V)) \in Nat /\ q * ((v * I) * V) \in Nat
            /\ q * (RAY * V) \in Nat /\ P * (RAY * V) \in Nat
        BY <1>1, <1>2, <1>3, <1>4, ProductNat
      <4> QED BY <4>2, <4>3, <4>4, <4>5
    <3>4. P * (RAY * (V + K + 2 * T + M)) = P * (RAY * V) + P * (RAY * (K + M + 2 * T))
      BY <1>1, <1>2, <1>7
    <3>5. /\ P * (C * L) \in Nat /\ q * (RAY * (D * V)) \in Nat /\ q * ((v * I) * V) \in Nat
          /\ P * (RAY * V) \in Nat /\ P * (RAY * (K + M + 2 * T)) \in Nat
      BY <1>1, <1>2, <1>3, <1>4, <1>7, ProductNat
    <3> QED BY <3>2, <3>3, <3>4, <3>5
  <2> QED BY <2>1, <2>2
<1> QED BY <1>10 DEF P, q, L, v, I, V, K, T, M, D, c, r

-----------------------------------------------------------------------------
(* The settled reserve, part by part.                                      *)
LEMMA SettledParts ==
    ASSUME TypeOK, NEW a \in Assets
    PROVE  LET r == reserve[a]
               n == UpdatedReserve(a)
               dt == now - r.lastUpdateTimestamp
               growth == n.variableBorrowIndex - r.variableBorrowIndex
           IN  /\ dt \in Nat /\ growth \in Nat
               /\ n.liquidityIndex \in Nat \ {0} /\ n.liquidityIndex >= r.liquidityIndex
               /\ \/ n.liquidityIndex = r.liquidityIndex
                  \/ n.liquidityIndex = rayMul(LinearInterest(r.currentLiquidityRate, dt),
                                               r.liquidityIndex)
               /\ n.variableBorrowIndex \in Nat
               /\ n.variableBorrowIndex >= r.variableBorrowIndex
               /\ \/ n.variableBorrowIndex
                       = rayMul(CompoundedInterest(r.currentVariableBorrowRate, dt),
                                r.variableBorrowIndex)
                  \/ vSupply[a] = 0 \/ dt = 0
               /\ n.accruedToTreasury
                    = r.accruedToTreasury
                        + rayDivFloor(percentMul(rayMulFloor(vSupply[a], growth),
                                                 config[a].reserveFactor),
                                      n.liquidityIndex)
<1> DEFINE r == reserve[a]
           n == UpdatedReserve(a)
           dt == now - r.lastUpdateTimestamp
<1>1. /\ r \in ReserveData /\ SoundReserve(r) /\ now \in Nat /\ vSupply[a] \in Nat
      /\ r.lastUpdateTimestamp \in Nat /\ r.lastUpdateTimestamp <= now
      /\ r.liquidityIndex \in Nat /\ r.liquidityIndex >= RAY /\ r.variableBorrowIndex \in Nat
  BY DEF TypeOK, ReservesOK, LedgersOK, WorldOK, SoundReserve, ReserveData
<1>2. /\ n.liquidityIndex = NextLiquidityIndex(r)
      /\ n.variableBorrowIndex = NextVariableBorrowIndex(a, r)
      /\ n.accruedToTreasury = r.accruedToTreasury + TreasuryAccrual(a, r)
  BY <1>1 DEF UpdatedReserve, UpdatedState, ReserveData
<1> HIDE DEF n
<1>3. dt \in Nat /\ (r.lastUpdateTimestamp = now <=> dt = 0)
  BY <1>1
<1>4. /\ n.liquidityIndex \in Nat /\ n.liquidityIndex >= r.liquidityIndex
      /\ n.variableBorrowIndex \in Nat /\ n.variableBorrowIndex >= r.variableBorrowIndex
  BY <1>1, <1>2, IndexesGrow
<1>5. n.liquidityIndex # 0
  BY <1>1, <1>4, UnitsAssumption
<1>6. \/ n.liquidityIndex = r.liquidityIndex
      \/ n.liquidityIndex = rayMul(LinearInterest(r.currentLiquidityRate, dt),
                                   r.liquidityIndex)
  BY <1>2 DEF NextLiquidityIndex, IncomeOf
<1>7. \/ n.variableBorrowIndex = rayMul(CompoundedInterest(r.currentVariableBorrowRate, dt),
                                        r.variableBorrowIndex)
      \/ vSupply[a] = 0 \/ dt = 0
  BY <1>2, <1>3 DEF NextVariableBorrowIndex, DebtIndexOf
<1>8. n.accruedToTreasury
        = r.accruedToTreasury
            + rayDivFloor(percentMul(rayMulFloor(vSupply[a],
                                       n.variableBorrowIndex - r.variableBorrowIndex),
                                     config[a].reserveFactor),
                          n.liquidityIndex)
  BY <1>2 DEF TreasuryAccrual
<1>9. n.variableBorrowIndex - r.variableBorrowIndex \in Nat
  BY <1>1, <1>4
<1> QED BY <1>3, <1>4, <1>5, <1>6, <1>7, <1>8, <1>9 DEF n

(* One settlement of one reserve: the debt that backs the claims pays them, *)
(* the other claims are the unbacked interest, and each rounding on the way *)
(* is one term of the dust.                                                *)
LEMMA InterestSharedBy ==
    ASSUME TypeOK, NEW a \in Assets, RatedFor(a)
    PROVE  LET r == reserve[a]
               n == UpdatedReserve(a)
           IN  (aSupply[a] + n.accruedToTreasury) * n.liquidityIndex
                 <= (aSupply[a] + r.accruedToTreasury) * r.liquidityIndex
                      + vSupply[a] * (n.variableBorrowIndex - r.variableBorrowIndex)
                      + SharingDust(a) + UnbackedInterest(a)
<1> DEFINE r == reserve[a]
           n == UpdatedReserve(a)
           v == vSupply[a]
           I == r.liquidityIndex
           J == n.liquidityIndex
           B == r.variableBorrowIndex
           growth == n.variableBorrowIndex - B
           dt == now - r.lastUpdateTimestamp
           V == r.currentVariableBorrowRate
           L == r.currentLiquidityRate
           f == config[a].reserveFactor
           P == PERCENTAGE_FACTOR
           q == P - f
           Y == SECONDS_PER_YEAR
           S == aSupply[a] + r.accruedToTreasury
           D == VTokenBalance(v, B)
           T == cash[a] + D
           p == V + DivCeil(RAY, WAD_RAY_RATIO) + 2 * T + rayMulCeil(T, V)
           Z == DivCeil(p * dt, Y)
           t == rayDivFloor(percentMul(rayMulFloor(v, growth), f), J)
           G == v * growth
           C == IF S * I <= RAY * T THEN S * I ELSE RAY * T
           X == IF S * I <= RAY * T THEN 0 ELSE S * I - RAY * T
           N == UnbackedInterest(a)
<1>1. /\ RAY \in Nat \ {0} /\ P \in Nat \ {0} /\ Y \in Nat \ {0} /\ WAD_RAY_RATIO \in Nat \ {0}
  BY UnitsAssumption, StrategyAssumption
<1>2. /\ v \in Nat /\ I \in Nat /\ B \in Nat /\ B >= RAY /\ V \in Nat /\ L \in Nat
      /\ f \in 0..P /\ S \in Nat /\ cash[a] \in Nat /\ aSupply[a] \in Nat
      /\ r.accruedToTreasury \in Nat
  BY DEF TypeOK, ReservesOK, LedgersOK, SettingsOK, ReserveData, ReserveConfiguration
<1>3. f \in Nat /\ q \in Nat /\ q + f = P
  BY <1>1, <1>2
<1>4. /\ dt \in Nat /\ growth \in Nat /\ J \in Nat \ {0} /\ J >= I
      /\ J = rayMul(LinearInterest(L, dt), I) \/ J = I
      /\ n.variableBorrowIndex \in Nat /\ n.variableBorrowIndex >= B
      /\ \/ n.variableBorrowIndex = rayMul(CompoundedInterest(V, dt), B)
         \/ v = 0 \/ dt = 0
      /\ n.accruedToTreasury = r.accruedToTreasury + t
  BY SettledParts
<1>5. D \in Nat /\ v * B <= RAY * D
  BY <1>2, MultiplyTypes, ShownDebtCoversDebt
<1>6. PERCENTAGE_FACTOR * (C * L) <= q * ((v * B) * V) + PERCENTAGE_FACTOR * (RAY * p)
  <2>1. C \in Nat /\ C <= RAY * T
    BY <1>1, <1>2, <1>5, ProductNat
  <2> QED BY <2>1, BackedClaimsEarn
<1>7. N \in Nat /\ X * (L * dt) <= (Y * RAY) * N
  <2>1. S * I \in Nat /\ RAY * T \in Nat /\ Y * RAY \in Nat \ {0} /\ L * dt \in Nat
    BY <1>1, <1>2, <1>4, <1>5, ProductNat
  <2>2. CASE S * I <= RAY * T
    <3>1. N = 0 /\ X = 0
      BY <2>2 DEF UnbackedInterest
    <3> QED BY <2>1, <3>1
  <2>3. CASE ~(S * I <= RAY * T)
    <3>1. X \in Nat /\ X * (L * dt) \in Nat
      BY <2>1, <2>3, ProductNat
    <3>2. N = DivCeil(X * (L * dt), Y * RAY)
      BY <2>3 DEF UnbackedInterest
    <3> QED BY <2>1, <3>1, <3>2, RoundingTypes, CeilBounds
  <2> QED BY <2>2, <2>3
<1>8. C \in Nat /\ X \in Nat /\ C + X = S * I
  <2>1. S * I \in Nat /\ RAY * T \in Nat
    BY <1>1, <1>2, <1>5, ProductNat
  <2> QED BY <2>1
<1>9. SharingDust(a) = RAY \div 2 + 2 * D + aSupply[a] + r.accruedToTreasury + Z
  BY DEF SharingDust
<1> HIDE DEF C, X, N
<1>10. T \in Nat /\ p \in Nat
  <2>1. T \in Nat
    BY <1>2, <1>5
  <2> HIDE DEF T
  <2>2. DivCeil(RAY, WAD_RAY_RATIO) \in Nat /\ rayMulCeil(T, V) \in Nat
    BY <1>1, <1>2, <2>1, RoundingTypes, MultiplyTypes
  <2> QED BY <1>2, <2>1, <2>2
<1> HIDE DEF T, p
<1>11. Z \in Nat /\ p * dt <= Y * Z
  <2>1. p * dt \in Nat
    BY <1>4, <1>10, ProductNat
  <2> QED BY <1>1, <2>1, RoundingTypes, CeilBounds
<1> HIDE DEF Z
<1>12. 2 * ((v * B) * (V * dt)) <= Y * (RAY * (2 * G + 3 * D))
  BY <1>2, <1>4, <1>5, DebtIndexCovers
<1>13. 2 * (Y * (RAY * (S * (J - I)))) <= 2 * ((S * I) * (L * dt)) + Y * (RAY * S)
  BY <1>2, <1>4, IncomeIndexAtMost
<1>14. t \in Nat /\ 2 * (P * (t * J)) <= 2 * (f * G) + P * RAY
  BY <1>2, <1>3, <1>4, TreasuryAtMostShare
<1> HIDE DEF r, n, v, I, J, B, growth, dt, V, L, f, P, q, Y, D, t
<1>15. G \in Nat /\ S * (J - I) \in Nat /\ t * J \in Nat /\ v * B \in Nat
  BY <1>2, <1>4, <1>14, ProductNat
<1> HIDE DEF S, G
<1>16. 2 * (S * (J - I) + t * J) <= 2 * G + 3 * D + 2 * Z + 2 * N + S + RAY
  <2>1. P * (C * L) <= q * ((v * B) * V) + P * (RAY * p)
    BY <1>6 DEF P
  <2>2. 2 * (Y * (RAY * (S * (J - I)))) <= 2 * ((C + X) * (L * dt)) + Y * (RAY * S)
    BY <1>8, <1>13
  <2> DEFINE gain == S * (J - I)
             paid == t * J
             owed == v * B
  <2>3. gain \in Nat /\ paid \in Nat /\ owed \in Nat
    BY <1>15
  <2>4. /\ 2 * (Y * (RAY * gain)) <= 2 * ((C + X) * (L * dt)) + Y * (RAY * S)
        /\ 2 * (P * paid) <= 2 * (f * G) + P * RAY
        /\ P * (C * L) <= q * (owed * V) + P * (RAY * p)
        /\ 2 * (owed * (V * dt)) <= Y * (RAY * (2 * G + 3 * D))
    BY <1>12, <1>14, <2>1, <2>2
  <2> HIDE DEF gain, paid, owed
  <2>5. 2 * (gain + paid) <= 2 * G + 3 * D + 2 * Z + 2 * N + S + RAY
    BY <1>1, <1>2, <1>3, <1>4, <1>5, <1>7, <1>8, <1>10, <1>11, <1>15, <2>3, <2>4, SharesAdd
  <2> QED BY <2>5 DEF gain, paid
<1>17. (S + t) * J = S * I + S * (J - I) + t * J
  BY <1>2, <1>4, <1>14
<1>18. S * I \in Nat
  BY <1>2, ProductNat
<1>19. (S + t) * J <= S * I + G + (RAY \div 2 + 2 * D + S + Z) + N
  <2> DEFINE gain == S * (J - I) + t * J
             rest == S * I
             half == RAY \div 2
  <2>1. /\ gain \in Nat /\ rest \in Nat /\ (S + t) * J = rest + gain
        /\ half \in Nat /\ RAY \in Nat /\ RAY <= 2 * half + 1
    BY <1>1, <1>15, <1>17, <1>18
  <2>2. 2 * gain <= 2 * G + 3 * D + 2 * Z + 2 * N + S + RAY
    BY <1>16
  <2>3. D \in Nat /\ Z \in Nat /\ N \in Nat /\ S \in Nat /\ G \in Nat
    BY <1>2, <1>5, <1>7, <1>11, <1>15 DEF S
  <2> HIDE DEF gain, rest, half, S
  <2>4. gain <= G + (half + 2 * D + S + Z) + N
    BY <2>1, <2>2, <2>3
  <2>5. rest + gain <= rest + G + (half + 2 * D + S + Z) + N
    BY <2>1, <2>3, <2>4
  <2> QED BY <2>1, <2>5 DEF rest, half
<1>20. S + t = aSupply[a] + n.accruedToTreasury
  BY <1>2, <1>4, <1>14 DEF S
<1>21. RAY \div 2 + 2 * D + S + Z = SharingDust(a)
  <2>1. RAY \div 2 \in Nat
    BY <1>1
  <2> QED BY <1>2, <1>5, <1>9, <1>11, <2>1 DEF S
<1>22. (aSupply[a] + n.accruedToTreasury) * J <= S * I + G + SharingDust(a) + N
  BY <1>19, <1>20, <1>21
<1> QED BY <1>22 DEF S, G, N, I, J, r, n, v, growth, B

(* What a reserve gives its suppliers and its treasury when time passes is *)
(* what its debtors owe, but for dust with a stated bound and, if it owed  *)
(* more than it had, the interest on the rest: for every clock, every unit *)
(* and every strategy.                                                     *)
THEOREM InterestStaysShared == Spec => []InterestIsShared
<1>1. TypeOK /\ EarnsByRates => InterestIsShared
  BY InterestSharedBy DEF EarnsByRates, InterestIsShared
<1> QED BY <1>1, TypeCorrect, AlwaysEarnsByRates, PTL

-----------------------------------------------------------------------------
(* Who loses aTokens, and whose debt shrinks.                              *)

(* A credit lowers nobody.                                                 *)
LEMMA CreditLowersNobody ==
    ASSUME NEW f \in [Assets -> [Accounts -> Nat]], NEW b \in Assets, NEW v \in Accounts,
           NEW n \in Nat, NEW a \in Assets, NEW u \in Accounts
    PROVE  ~(Credit(f, b, v, n)[a][u] < f[a][u])
<1>1. f[a][u] \in Nat
  OBVIOUS
<1>2. Credit(f, b, v, n)[a][u] = IF a = b /\ u = v THEN f[a][u] + n ELSE f[a][u]
  BY DEF Credit
<1>3. QED
  BY <1>1, <1>2

(* The calls by which account u may lose aTokens of asset a.               *)
TokensTaken(u, a) ==
    /\ u \in Users
    /\ \/ \E v \in Users, n \in Nat : Withdraw(u, a, n, v) \/ Transfer(u, a, n, v)
       \/ \E n \in Nat : RepayWithATokens(u, a, n)
       \/ \E w \in Users, d \in Assets, n \in Nat, b \in BOOLEAN :
             LiquidationCall(w, u, a, d, n, b)

LEMMA WhoLosesTokens ==
    ASSUME TypeOK, [Next]_vars, NEW u \in Accounts, NEW a \in Assets,
           aBalance'[a][u] < aBalance[a][u]
    PROVE  TokensTaken(u, a)
<1>1. /\ aBalance \in [Assets -> [Accounts -> Nat]] /\ aBalance[a][u] \in Nat
      /\ Users \subseteq Accounts /\ Treasury \in Accounts
  BY DEF TypeOK, LedgersOK, Accounts
<1>2. aBalance' # aBalance
  BY <1>1
<1>3. ASSUME NEW x \in Users, NEW v \in Users, NEW b \in Assets, NEW n \in Nat,
             Supply(x, b, n, v)
      PROVE  FALSE
  <2>1. UpdatedReserve(b).liquidityIndex \in Nat \ {0}
    BY CallIndexes
  <2> DEFINE scaled == ATokenMintScaled(n, UpdatedReserve(b).liquidityIndex)
  <2>2. aBalance' = Credit(aBalance, b, v, scaled) /\ scaled \in Nat
    BY <1>3, <2>1, DivideTypes DEF Supply
  <2> HIDE DEF scaled
  <2>3. QED
    BY <1>1, <2>2, CreditLowersNobody
<1>4. ASSUME NEW x \in Users, NEW v \in Users, NEW b \in Assets, NEW n \in Nat,
             Withdraw(x, b, n, v)
      PROVE  a = b /\ u = x
  <2> DEFINE index == UpdatedReserve(b).liquidityIndex
             balance == ATokenBalance(aBalance[b][x], index)
             amount == IF n = MAX_UINT THEN balance ELSE n
             scaled == ATokenBurnScaled(amount, index)
  <2>1. aBalance' = Debit(aBalance, b, x, scaled)
    BY <1>4 DEF Withdraw
  <2>2. index \in Nat \ {0} /\ aBalance[b][x] \in Nat
    BY <1>1, CallIndexes
  <2> HIDE DEF index
  <2>3. balance \in Nat
    BY <2>2, MultiplyTypes
  <2> HIDE DEF balance
  <2>4. amount \in Nat
    BY <2>3
  <2> HIDE DEF amount
  <2>5. scaled \in Nat
    BY <2>2, <2>4, DivideTypes
  <2> HIDE DEF scaled
  <2>6. ~(a = b /\ u = x) => aBalance'[a][u] = aBalance[a][u]
    BY <1>1, <2>1 DEF Debit
  <2>7. QED
    BY <1>1, <2>6
<1>5. ASSUME NEW x \in Users, NEW v \in Users, NEW b \in Assets, NEW n \in Nat,
             Transfer(x, b, n, v)
      PROVE  a = b /\ u = x
  <2> DEFINE scaled == ATokenTransferScaled(n, NormalizedIncome(b))
  <2>1. aBalance' = Credit(Debit(aBalance, b, x, scaled), b, v, scaled)
        /\ scaled <= aBalance[b][x]
    BY <1>5 DEF Transfer
  <2>2. scaled \in Nat
    BY CallIndexes, DivideTypes
  <2> HIDE DEF scaled
  <2> DEFINE after == Debit(aBalance, b, x, scaled)
  <2>3. after \in [Assets -> [Accounts -> Nat]]
    BY <1>1, <2>1, <2>2, DebitTypes
  <2>4. ~(a = b /\ u = x) => after[a][u] = aBalance[a][u]
    BY <1>1 DEF Debit
  <2> HIDE DEF after
  <2>5. ~(Credit(after, b, v, scaled)[a][u] < after[a][u])
    BY <1>1, <2>2, <2>3, CreditLowersNobody
  <2>6. QED
    BY <2>1, <2>4, <2>5 DEF after
<1>6. ASSUME NEW x \in Users, NEW b \in Assets, NEW n \in Nat, RepayWithATokens(x, b, n)
      PROVE  a = b /\ u = x
  <2>1. PICK scaled : aBalance' = Debit(aBalance, b, x, scaled)
    BY <1>6 DEF RepayWithATokens
  <2>2. QED
    BY <1>1, <2>1 DEF Debit
<1>7. ASSUME NEW w \in Users, NEW x \in Users, NEW c \in Assets, NEW d \in Assets,
             NEW n \in Nat, NEW r \in BOOLEAN, LiquidationCall(w, x, c, d, n, r)
      PROVE  a = c /\ u = x
  <2>1. PICK o \in LiquidationAmounts : LiquidationMoves(w, x, c, d, n, r, o)
    BY <1>7, LiquidationOutcome
  <2> DEFINE gone == o.seized + o.feeScaled
             after == Debit(aBalance, c, x, gone)
             more == IF r THEN Credit(after, c, w, o.seized) ELSE after
  <2>2. /\ o.seized \in Nat /\ o.feeScaled \in Nat /\ gone \in Nat /\ gone <= aBalance[c][x]
        /\ aBalance' = Credit(more, c, Treasury, o.feeScaled)
    BY <2>1 DEF LiquidationMoves, LiquidationAmounts
  <2> HIDE DEF gone
  <2>3. after \in [Assets -> [Accounts -> Nat]]
    BY <1>1, <2>2, DebitTypes
  <2>4. ~(a = c /\ u = x) => after[a][u] = aBalance[a][u]
    BY <1>1 DEF Debit
  <2> HIDE DEF after
  <2>5. more \in [Assets -> [Accounts -> Nat]] /\ ~(more[a][u] < after[a][u])
    <3>1. CASE r
      BY <1>1, <2>2, <2>3, <3>1, CreditTypes, CreditLowersNobody
    <3>2. CASE ~r
      <4>1. after[a][u] \in Nat
        BY <2>3
      <4>2. QED
        BY <2>3, <3>2, <4>1
    <3>3. QED
      BY <3>1, <3>2
  <2> HIDE DEF more
  <2>6. ~(Credit(more, c, Treasury, o.feeScaled)[a][u] < more[a][u])
    BY <1>1, <2>2, <2>5, CreditLowersNobody
  <2>7. /\ aBalance'[a][u] \in Nat /\ more[a][u] \in Nat /\ after[a][u] \in Nat
    <3>1. aBalance' \in [Assets -> [Accounts -> Nat]]
      BY NextSound DEF TypeOK, LedgersOK
    <3>2. QED
      BY <2>3, <2>5, <3>1
  <2>8. QED
    BY <1>1, <2>2, <2>4, <2>5, <2>6, <2>7
<1>8. ASSUME NEW b \in Assets, MintToTreasury(b)
      PROVE  FALSE
  <2>1. NormalizedIncome(b) \in Nat \ {0} /\ reserve[b].accruedToTreasury \in Nat
    BY CallIndexes DEF TypeOK, ReservesOK, ReserveData
  <2> DEFINE amount == rayMulCeil(reserve[b].accruedToTreasury, NormalizedIncome(b))
             scaled == ATokenMintScaled(amount, NormalizedIncome(b))
  <2>2. aBalance' = Credit(aBalance, b, Treasury, scaled)
    BY <1>8 DEF MintToTreasury
  <2>3. amount \in Nat
    BY <2>1, MultiplyTypes
  <2> HIDE DEF amount
  <2>4. scaled \in Nat
    BY <2>1, <2>3, DivideTypes
  <2> HIDE DEF scaled
  <2>5. QED
    BY <1>1, <2>2, <2>4, CreditLowersNobody
<1>9. ASSUME \/ \E x \in Users, b \in Assets, on \in BOOLEAN :
                   SetUserUseReserveAsCollateral(x, b, on)
             \/ \E x \in Users, c \in Categories \cup {0} : SetUserEMode(x, c)
             \/ UNCHANGED <<ledgerVars, borrowAllowance, bitVars, userEMode>>
      PROVE  FALSE
  BY <1>2, <1>9 DEF SetUserUseReserveAsCollateral, SetUserEMode, ledgerVars
<1>10. CASE \E x \in Users, v \in Users, b \in Assets, n \in Nat :
                \/ Supply(x, b, n, v) \/ Withdraw(x, b, n, v) \/ Transfer(x, b, n, v)
                \/ Borrow(x, b, n, v) \/ Repay(x, b, n, v) \/ RepayWithATokens(x, b, n)
                \/ ApproveDelegation(x, b, v, n)
  <2>1. PICK x \in Users, v \in Users, b \in Assets, n \in Nat :
                \/ Supply(x, b, n, v) \/ Withdraw(x, b, n, v) \/ Transfer(x, b, n, v)
                \/ Borrow(x, b, n, v) \/ Repay(x, b, n, v) \/ RepayWithATokens(x, b, n)
                \/ ApproveDelegation(x, b, v, n)
    BY <1>10
  <2>2. ~(Borrow(x, b, n, v) \/ Repay(x, b, n, v) \/ ApproveDelegation(x, b, v, n))
    BY <1>2 DEF Borrow, ExecuteBorrow, Repay, ApproveDelegation, ledgerVars
  <2>3. QED
    BY <1>3, <1>4, <1>5, <1>6, <2>1, <2>2 DEF TokensTaken
<1>11. CASE \E w \in Users, x \in Users, c \in Assets, d \in Assets, n \in Nat,
               b \in BOOLEAN : LiquidationCall(w, x, c, d, n, b)
  BY <1>7, <1>11 DEF TokensTaken
<1>12. QED
  BY <1>8, <1>9, <1>10, <1>11, StepCases

(* The calls by which the debt of u in asset a may shrink.                 *)
DebtPaid(u, a) ==
    /\ u \in Users
    /\ \/ \E w \in Users, n \in Nat : Repay(w, a, n, u)
       \/ \E n \in Nat : RepayWithATokens(u, a, n)
       \/ \E w \in Users, c \in Assets, n \in Nat, b \in BOOLEAN :
             LiquidationCall(w, u, c, a, n, b)

LEMMA WhoseDebtShrinks ==
    ASSUME TypeOK, [Next]_vars, NEW u \in Accounts, NEW a \in Assets,
           vBalance'[a][u] < vBalance[a][u]
    PROVE  DebtPaid(u, a)
<1>1. /\ vBalance \in [Assets -> [Accounts -> Nat]] /\ vBalance[a][u] \in Nat
      /\ Users \subseteq Accounts
  BY DEF TypeOK, LedgersOK, Accounts
<1>2. vBalance' # vBalance
  BY <1>1
<1>3. ASSUME NEW x \in Users, NEW v \in Users, NEW b \in Assets, NEW n \in Nat,
             Borrow(x, b, n, v)
      PROVE  FALSE
  <2> DEFINE scaled == VTokenMintScaled(n, UpdatedReserve(b).variableBorrowIndex)
  <2>1. vBalance' = Credit(vBalance, b, v, scaled)
    BY <1>3 DEF Borrow, ExecuteBorrow
  <2>2. scaled \in Nat
    BY CallIndexes, DivideTypes
  <2> HIDE DEF scaled
  <2>3. QED
    BY <1>1, <2>1, <2>2, CreditLowersNobody
<1>4. ASSUME NEW v \in Users, NEW b \in Assets, NEW scaled, vBalance' = Debit(vBalance, b, v, scaled)
      PROVE  a = b /\ u = v
  BY <1>1, <1>2, <1>4 DEF Debit
<1>5. ASSUME NEW x \in Users, NEW v \in Users, NEW b \in Assets, NEW n \in Nat,
             Repay(x, b, n, v)
      PROVE  a = b /\ u = v
  BY <1>4, <1>5 DEF Repay, BurnDebt
<1>6. ASSUME NEW x \in Users, NEW b \in Assets, NEW n \in Nat, RepayWithATokens(x, b, n)
      PROVE  a = b /\ u = x
  BY <1>4, <1>6 DEF RepayWithATokens, BurnDebt
<1>7. ASSUME NEW w \in Users, NEW x \in Users, NEW c \in Assets, NEW d \in Assets,
             NEW n \in Nat, NEW r \in BOOLEAN, LiquidationCall(w, x, c, d, n, r)
      PROVE  a = d /\ u = x
  BY <1>4, <1>7 DEF LiquidationCall
<1>8. ASSUME \/ \E x \in Users, v \in Users, b \in Assets, n \in Nat :
                   \/ Supply(x, b, n, v) \/ Withdraw(x, b, n, v) \/ Transfer(x, b, n, v)
                   \/ ApproveDelegation(x, b, v, n)
             \/ \E x \in Users, b \in Assets, on \in BOOLEAN :
                   SetUserUseReserveAsCollateral(x, b, on)
             \/ \E b \in Assets : MintToTreasury(b)
             \/ \E x \in Users, c \in Categories \cup {0} : SetUserEMode(x, c)
             \/ UNCHANGED <<ledgerVars, borrowAllowance, bitVars, userEMode>>
      PROVE  FALSE
  BY <1>2, <1>8 DEF Supply, Withdraw, Transfer, ApproveDelegation, MintToTreasury,
     SetUserUseReserveAsCollateral, SetUserEMode, ledgerVars
<1>9. CASE \E x \in Users, v \in Users, b \in Assets, n \in Nat :
               \/ Supply(x, b, n, v) \/ Withdraw(x, b, n, v) \/ Transfer(x, b, n, v)
               \/ Borrow(x, b, n, v) \/ Repay(x, b, n, v) \/ RepayWithATokens(x, b, n)
               \/ ApproveDelegation(x, b, v, n)
  <2>1. PICK x \in Users, v \in Users, b \in Assets, n \in Nat :
               \/ Supply(x, b, n, v) \/ Withdraw(x, b, n, v) \/ Transfer(x, b, n, v)
               \/ Borrow(x, b, n, v) \/ Repay(x, b, n, v) \/ RepayWithATokens(x, b, n)
               \/ ApproveDelegation(x, b, v, n)
    BY <1>9
  <2>2. QED
    BY <1>3, <1>5, <1>6, <1>8, <2>1 DEF DebtPaid
<1>10. CASE \E w \in Users, x \in Users, c \in Assets, d \in Assets, n \in Nat,
               b \in BOOLEAN : LiquidationCall(w, x, c, d, n, b)
  BY <1>7, <1>10 DEF DebtPaid
<1>11. QED
  BY <1>8, <1>9, <1>10, StepCases

-----------------------------------------------------------------------------
(* What a liquidation takes.                                               *)

(* The collateral a debt buys, and the debt a collateral pays for, as      *)
(* AvailableCollateral computes them.                                      *)
MaxCollateral(u, c, d, cover) ==
    percentMulFloor((PriceFor(userEMode[u], d) * cover * AssetUnit[c])
                      \div (PriceFor(userEMode[u], c) * AssetUnit[d]),
                    LiquidationBonus(u, c))

DebtNeeded(u, c, d, balance) ==
    percentDivCeil((PriceFor(userEMode[u], c) * balance * AssetUnit[d])
                     \div (PriceFor(userEMode[u], d) * AssetUnit[c]),
                   LiquidationBonus(u, c))

(* Collateral and fee together are what the debt buys, or all there is.    *)
LEMMA LiquidationTakes ==
    ASSUME NEW w, NEW u, NEW c \in Assets, NEW d \in Assets, NEW toCover, NEW receive,
           NEW o \in LiquidationAmounts, LiquidationMoves(w, u, c, d, toCover, receive, o),
           MaxCollateral(u, c, d, o.offered) \in Nat, ATokenBalanceOf(u, c) \in Nat
    PROVE  /\ MaxCollateral(u, c, d, o.offered) > ATokenBalanceOf(u, c) =>
                 /\ o.collateral + o.fee = ATokenBalanceOf(u, c)
                 /\ o.debt = DebtNeeded(u, c, d, ATokenBalanceOf(u, c))
           /\ ~(MaxCollateral(u, c, d, o.offered) > ATokenBalanceOf(u, c)) =>
                 /\ o.collateral + o.fee = MaxCollateral(u, c, d, o.offered)
                 /\ o.debt = o.offered
<1> DEFINE balance == ATokenBalanceOf(u, c)
           max == MaxCollateral(u, c, d, o.offered)
           taken == IF max > balance THEN balance ELSE max
           out == AvailableCollateral(u, c, d, o.offered, balance)
<1>1. o.collateral \in Nat /\ o.fee \in Nat /\ o.debt \in Nat
  BY DEF LiquidationAmounts
<1>2. o.collateral = out.collateral /\ o.fee = out.fee /\ o.debt = out.debt
  <2>1. [collateral |-> o.collateral, debt |-> o.debt, fee |-> o.fee] = out
    BY DEF LiquidationMoves
  <2> HIDE DEF out
  <2>2. QED
    BY <2>1
<1>3. /\ out.collateral = taken - out.fee
      /\ out.debt = IF max > balance THEN DebtNeeded(u, c, d, balance) ELSE o.offered
  BY DEF AvailableCollateral, MaxCollateral, DebtNeeded
<1> HIDE DEF out
<1>4. taken \in Nat
  OBVIOUS
<1>5. o.collateral + o.fee = taken
  <2> HIDE DEF taken
  <2>1. QED
    BY <1>1, <1>2, <1>3, <1>4
<1>6. QED
  BY <1>2, <1>3, <1>5

(* The collateral a debt buys is worth at most the debt and the bonus.     *)
LEMMA BoughtWorthPaid ==
    ASSUME NEW pc \in Nat \ {0}, NEW pd \in Nat \ {0}, NEW uc \in Nat \ {0},
           NEW ud \in Nat \ {0}, NEW cover \in Nat, NEW bonus \in Nat,
           NEW x \in Nat, x <= percentMulFloor((pd * cover * uc) \div (pc * ud), bonus)
    PROVE  pc * x * ud * PERCENTAGE_FACTOR <= pd * cover * uc * bonus
<1> DEFINE K == pc * ud
           A == pd * cover * uc
           y == A \div K
           t == percentMulFloor(y, bonus)
<1>1. K \in Nat \ {0} /\ A \in Nat /\ PERCENTAGE_FACTOR \in Nat \ {0}
  <2>1. pc * ud > 0 /\ pc * ud \in Nat
    OBVIOUS
  <2>2. pd * cover \in Nat
    BY ProductNat
  <2>3. pd * cover * uc \in Nat
    BY <2>2, ProductNat
  <2>4. QED
    BY <2>1, <2>3, UnitsAssumption
<1>2. pc * x * ud * PERCENTAGE_FACTOR = K * (PERCENTAGE_FACTOR * x)
  BY UnitsAssumption
<1>3. x <= t
  OBVIOUS
<1> HIDE DEF K, A
<1>4. y \in Nat /\ K * y <= A
  BY <1>1, RoundingTypes, FloorBounds DEF DivFloor
<1> HIDE DEF y
<1>5. t \in Nat /\ PERCENTAGE_FACTOR * t <= y * bonus
  <2>1. y * bonus \in Nat
    BY <1>4, ProductNat
  <2>2. QED
    BY <1>1, <2>1, RoundingTypes, FloorBounds DEF percentMulFloor
<1> HIDE DEF t
<1> DEFINE p == PERCENTAGE_FACTOR * x
           q == PERCENTAGE_FACTOR * t
           b == y * bonus
<1>6. p \in Nat /\ q \in Nat /\ b \in Nat /\ p <= q /\ q <= b
  BY <1>1, <1>3, <1>4, <1>5, ProductNat, ProductMonotone
<1>7. K * p <= K * b
  <2> HIDE DEF p, q, b
  <2>1. p <= b
    BY <1>6
  <2>2. QED
    BY <1>1, <1>6, <2>1, ProductMonotone
<1>8. K * b = (K * y) * bonus
  BY <1>1, <1>4
<1>9. (K * y) * bonus <= A * bonus
  BY <1>1, <1>4, ProductNat, ProductMonotone
<1>10. K * p \in Nat /\ K * b \in Nat /\ A * bonus \in Nat
  <2> HIDE DEF p, b
  <2>1. QED
    BY <1>1, <1>6, ProductNat
<1>11. K * p <= A * bonus
  <2> HIDE DEF p, b
  <2>1. QED
    BY <1>7, <1>8, <1>9, <1>10
<1>12. QED
  BY <1>2, <1>11 DEF A

(* The debt all of a collateral pays for falls short of its worth, without *)
(* the bonus, by less than one unit: rounded down, then up.                *)
LEMMA AllWorthPaid ==
    ASSUME NEW pc \in Nat \ {0}, NEW pd \in Nat \ {0}, NEW uc \in Nat \ {0},
           NEW ud \in Nat \ {0}, NEW balance \in Nat, NEW bonus \in Nat,
           bonus > PERCENTAGE_FACTOR, NEW x \in Nat, x <= balance
    PROVE  pc * x * ud * PERCENTAGE_FACTOR
             <= pd * (percentDivCeil((pc * balance * ud) \div (pd * uc), bonus) + 1)
                  * uc * bonus
<1> DEFINE L == pd * uc
           B == pc * balance * ud
           y == B \div L
           q == percentDivCeil(y, bonus)
<1>1. L \in Nat \ {0} /\ B \in Nat /\ PERCENTAGE_FACTOR \in Nat /\ bonus \in Nat \ {0}
  <2>1. pd * uc > 0 /\ pd * uc \in Nat
    OBVIOUS
  <2>2. pc * balance \in Nat
    BY ProductNat
  <2>3. pc * balance * ud \in Nat
    BY <2>2, ProductNat
  <2>4. QED
    BY <2>1, <2>3, UnitsAssumption
<1>2. pc * x * ud <= B
  <2>1. pc * x <= pc * balance
    BY ProductMonotone
  <2>2. pc * x \in Nat /\ pc * balance \in Nat
    BY ProductNat
  <2>3. QED
    BY <2>1, <2>2, ProductMonotone
<1>3. pc * x * ud \in Nat
  <2>1. pc * x \in Nat
    BY ProductNat
  <2>2. QED
    BY <2>1, ProductNat
<1> DEFINE z == pc * x * ud
<1>4. ASSUME NEW k \in Nat
      PROVE  pd * k * uc * bonus = L * (bonus * k)
  OBVIOUS
<1> HIDE DEF L, B, z
<1>5. y \in Nat /\ B < L * y + L
  BY <1>1, RoundingTypes, FloorBounds DEF DivFloor
<1> HIDE DEF y
<1>6. q \in Nat /\ y * PERCENTAGE_FACTOR <= bonus * q
  <2>1. y * PERCENTAGE_FACTOR \in Nat
    BY <1>1, <1>5, ProductNat
  <2>2. QED
    BY <1>1, <2>1, RoundingTypes, CeilBounds DEF percentDivCeil
<1> HIDE DEF q
<1>7. z * PERCENTAGE_FACTOR <= (L * y + L) * PERCENTAGE_FACTOR
  <2>1. z \in Nat /\ z <= L * y + L /\ L * y + L \in Nat
    BY <1>1, <1>2, <1>3, <1>5, ProductNat DEF z
  <2>2. QED
    BY <1>1, <2>1, ProductMonotone
<1>8. (L * y + L) * PERCENTAGE_FACTOR = L * (y * PERCENTAGE_FACTOR + PERCENTAGE_FACTOR)
  BY <1>1, <1>5
<1> DEFINE m == y * PERCENTAGE_FACTOR + PERCENTAGE_FACTOR
           n == bonus * (q + 1)
<1>9. m \in Nat /\ n \in Nat /\ m <= n
  <2>1. n = bonus * q + bonus
    BY <1>1, <1>6
  <2>2. y * PERCENTAGE_FACTOR \in Nat /\ bonus * q \in Nat
    BY <1>1, <1>5, <1>6, ProductNat
  <2>3. QED
    BY <1>1, <1>6, <2>1, <2>2
<1>10. L * m <= L * n
  <2> HIDE DEF m, n
  <2>1. QED
    BY <1>1, <1>9, ProductMonotone
<1>11. pd * (q + 1) * uc * bonus = L * n
  <2> DEFINE k == q + 1
  <2>1. k \in Nat
    BY <1>6
  <2> HIDE DEF k
  <2>2. pd * k * uc * bonus = L * (bonus * k)
    BY <1>4, <2>1
  <2>3. QED
    BY <2>2 DEF k
<1>12. L * m \in Nat /\ L * n \in Nat /\ z * PERCENTAGE_FACTOR \in Nat
  <2> HIDE DEF m, n
  <2>1. QED
    BY <1>1, <1>3, <1>9, ProductNat DEF z
<1>13. z * PERCENTAGE_FACTOR <= L * n
  <2>1. z * PERCENTAGE_FACTOR <= L * m
    BY <1>7, <1>8
  <2> HIDE DEF m, n
  <2>2. QED
    BY <1>10, <1>12, <2>1
<1>14. QED
  BY <1>11, <1>13 DEF z, q, y, L, B

(* All types a liquidation's amounts need.                                 *)
LEMMA LiquidationTypes ==
    ASSUME TypeOK, NEW u \in Users, NEW c \in Assets, NEW d \in Assets, NEW cover \in Nat
    PROVE  /\ ATokenBalanceOf(u, c) \in Nat /\ aBalance[c][u] \in Nat
           /\ NormalizedIncome(c) \in Nat /\ NormalizedIncome(c) >= RAY
           /\ PriceFor(userEMode[u], c) \in Nat \ {0} /\ PriceFor(userEMode[u], d) \in Nat \ {0}
           /\ AssetUnit[c] \in Nat \ {0} /\ AssetUnit[d] \in Nat \ {0}
           /\ LiquidationBonus(u, c) \in Bonus /\ LiquidationBonus(u, c) \in Nat
           /\ MaxCollateral(u, c, d, cover) \in Nat
<1>1. u \in Accounts /\ aBalance[c][u] \in Nat
  BY DEF TypeOK, LedgersOK, Accounts
<1>2. NormalizedIncome(c) \in Nat /\ NormalizedIncome(c) >= RAY
  BY CallIndexes
<1>3. ATokenBalanceOf(u, c) \in Nat
  BY <1>1, <1>2, MultiplyTypes DEF ATokenBalanceOf
<1>4. /\ PriceFor(userEMode[u], c) \in Nat \ {0} /\ PriceFor(userEMode[u], d) \in Nat \ {0}
      /\ LiquidationBonus(u, c) \in Bonus
  BY <1>1, PositionParameters
<1>5. LiquidationBonus(u, c) \in Nat /\ AssetUnit[c] \in Nat \ {0} /\ AssetUnit[d] \in Nat \ {0}
  BY <1>4, StorageAssumption DEF Bonus
<1> DEFINE pc == PriceFor(userEMode[u], c)
           pd == PriceFor(userEMode[u], d)
<1> HIDE DEF pc, pd
<1>6. pd * cover * AssetUnit[c] \in Nat /\ pc * AssetUnit[d] \in Nat \ {0}
  <2>1. pd * cover \in Nat /\ pc * AssetUnit[d] \in Nat
    BY <1>4, <1>5, ProductNat DEF pc, pd
  <2>2. pc * AssetUnit[d] # 0
    BY <1>4, <1>5 DEF pc
  <2>3. QED
    BY <1>5, <2>1, <2>2, ProductNat
<1>7. (pd * cover * AssetUnit[c]) \div (pc * AssetUnit[d]) \in Nat
  BY <1>6, RoundingTypes DEF DivFloor
<1>8. MaxCollateral(u, c, d, cover) \in Nat
  BY <1>5, <1>7, MultiplyTypes DEF MaxCollateral, pc, pd
<1>9. QED
  BY <1>1, <1>2, <1>3, <1>4, <1>5, <1>8

(* A liquidation never takes more than the collateral there is, and never  *)
(* without a payment; taking all the collateral is worth takes every unit. *)
LEMMA LiquidationLimits ==
    ASSUME TypeOK, NEW w \in Users, NEW u \in Users, NEW c \in Assets, NEW d \in Assets,
           NEW toCover \in Nat, NEW receive \in BOOLEAN, NEW o \in LiquidationAmounts,
           LiquidationMoves(w, u, c, d, toCover, receive, o)
    PROVE  /\ o.debt # 0
           /\ o.collateral + o.fee <= ATokenBalanceOf(u, c)
           /\ o.collateral + o.fee = ATokenBalanceOf(u, c) =>
                 o.seized + o.feeScaled = aBalance[c][u]
<1>1. /\ o.collateral \in Nat /\ o.fee \in Nat /\ o.debt \in Nat /\ o.offered \in Nat
      /\ o.seized \in Nat /\ o.feeScaled \in Nat /\ o.burnt \in Nat
  BY DEF LiquidationAmounts
<1>2. /\ ATokenBalanceOf(u, c) \in Nat /\ aBalance[c][u] \in Nat
      /\ MaxCollateral(u, c, d, o.offered) \in Nat
      /\ NormalizedIncome(c) \in Nat /\ NormalizedIncome(c) >= RAY
  BY <1>1, LiquidationTypes
<1>3. o.collateral + o.fee <= ATokenBalanceOf(u, c)
  BY <1>2, LiquidationTakes
<1>4. o.debt # 0
  <2>1. /\ o.burnt # 0
        /\ o.burnt * UpdatedReserve(d).variableBorrowIndex <= RAY * o.debt
        /\ UpdatedReserve(d).variableBorrowIndex \in Nat \ {0} /\ RAY \in Nat
    BY CallIndexes, UnitsAssumption DEF LiquidationMoves
  <2>2. o.burnt * UpdatedReserve(d).variableBorrowIndex > 0
    BY <1>1, <2>1
  <2>3. QED
    BY <1>1, <2>1, <2>2
<1>5. ASSUME o.collateral + o.fee = ATokenBalanceOf(u, c)
      PROVE  o.seized + o.feeScaled = aBalance[c][u]
  <2> DEFINE index == NormalizedIncome(c)
             left == aBalance[c][u] - o.seized
             scaled == ATokenTransferScaled(o.fee, index)
  <2>1. /\ o.seized = ATokenTransferScaled(o.collateral, index)
        /\ o.seized + o.feeScaled <= aBalance[c][u]
        /\ o.feeScaled = IF o.fee = 0 THEN 0 ELSE FeeScaled(o.fee, left, index)
    BY DEF LiquidationMoves
  <2>2. left \in Nat /\ o.seized + left = aBalance[c][u]
    BY <1>1, <1>2, <2>1
  <2>3. index \in Nat \ {0} /\ index >= RAY
    BY <1>2, UnitsAssumption
  <2>4. scaled \in Nat /\ scaled >= left
    <3>1. scaled \in Nat
      BY <1>1, <2>3, DivideTypes
    <3>2. o.seized + scaled >= aBalance[c][u]
      BY <1>1, <1>2, <1>5, <2>1, PartsTakeAll DEF ATokenBalanceOf
    <3> HIDE DEF scaled, left
    <3>3. QED
      BY <1>1, <1>2, <2>2, <3>1, <3>2
  <2>5. CASE o.fee = 0
    <3>1. o.collateral = ATokenBalance(aBalance[c][u], index)
      BY <1>1, <1>5, <2>5 DEF ATokenBalanceOf
    <3>2. o.seized = aBalance[c][u]
      BY <1>2, <2>1, <3>1, DrainTakesAll DEF ATokenTransferScaled, ATokenBurnScaled
    <3>3. QED
      BY <1>1, <1>2, <2>1, <2>5, <3>2
  <2>6. CASE o.fee # 0
    <3>1. o.feeScaled = IF scaled > left
                          THEN ATokenTransferScaled(ATokenBalance(left, index), index)
                          ELSE scaled
      BY <2>1, <2>6 DEF FeeScaled
    <3>2. ATokenTransferScaled(ATokenBalance(left, index), index) = left
      BY <1>2, <2>2, DrainTakesAll DEF ATokenTransferScaled, ATokenBurnScaled
    <3> HIDE DEF scaled, left, index
    <3>3. o.feeScaled = left
      BY <2>2, <2>4, <3>1, <3>2
    <3>4. QED
      BY <2>2, <3>3
  <2>7. QED
    BY <2>5, <2>6
<1>6. QED
  BY <1>3, <1>4, <1>5

(* What is left to the liquidated user.                                    *)
LEMMA LiquidatedPosition ==
    ASSUME TypeOK, NEW w \in Users, NEW u \in Users, NEW c \in Assets, NEW d \in Assets,
           NEW toCover \in Nat, NEW receive \in BOOLEAN, NEW o \in LiquidationAmounts,
           LiquidationMoves(w, u, c, d, toCover, receive, o)
    PROVE  /\ aBalance'[c][u] = IF u = Treasury THEN aBalance[c][u] - o.seized
                                ELSE aBalance[c][u] - (o.seized + o.feeScaled)
           /\ c \in usingAsCollateral[u]
           /\ c \notin usingAsCollateral'[u] <=> o.seized + o.feeScaled = aBalance[c][u]
<1> DEFINE gone == o.seized + o.feeScaled
           after == Debit(aBalance, c, u, gone)
           more == IF receive THEN Credit(after, c, w, o.seized) ELSE after
           drained == \/ o.collateral + o.fee = ATokenBalanceOf(u, c)
                      \/ aBalance[c][u] - o.seized = o.feeScaled
           bits == IF drained THEN WithoutBit(usingAsCollateral, u, c) ELSE usingAsCollateral
<1>1. /\ u \in Accounts /\ w \in Accounts /\ Treasury \in Accounts /\ w # u
      /\ aBalance \in [Assets -> [Accounts -> Nat]]
      /\ usingAsCollateral \in [Accounts -> SUBSET Assets]
      /\ c \in usingAsCollateral[u]
  BY DEF TypeOK, LedgersOK, AccountsOK, Accounts, LiquidationMoves
<1>2. /\ aBalance' = Credit(more, c, Treasury, o.feeScaled)
      /\ usingAsCollateral' =
            IF /\ receive /\ ATokenBalanceOf(w, c) = 0
               /\ AutomaticUseAsCollateral(w, w, c)
              THEN WithBit(bits, w, c) ELSE bits
      /\ gone <= aBalance[c][u]
  BY DEF LiquidationMoves
<1>3. o.seized \in Nat /\ o.feeScaled \in Nat /\ aBalance[c][u] \in Nat
  BY <1>1 DEF LiquidationAmounts
<1>4. aBalance'[c][u] = IF u = Treasury THEN aBalance[c][u] - o.seized
                        ELSE aBalance[c][u] - gone
  <2>1. after[c][u] = aBalance[c][u] - gone
    BY <1>1 DEF Debit
  <2>2. after \in [Assets -> [Accounts -> Nat]]
    <3>1. gone \in Nat
      BY <1>3
    <3> HIDE DEF gone
    <3>2. QED
      BY <1>1, <1>2, <3>1, DebitTypes
  <2> HIDE DEF after
  <2>3. more[c][u] = after[c][u]
    BY <1>1, <2>2 DEF Credit
  <2>4. more \in [Assets -> [Accounts -> Nat]]
    BY <1>1, <1>3, <2>2, CreditTypes
  <2> HIDE DEF more
  <2>5. aBalance'[c][u] = IF u = Treasury THEN more[c][u] + o.feeScaled ELSE more[c][u]
    BY <1>1, <1>2, <2>4 DEF Credit
  <2>6. QED
    BY <1>3, <2>1, <2>3, <2>5
<1>5. drained <=> gone = aBalance[c][u]
  <2>1. o.collateral + o.fee = ATokenBalanceOf(u, c) => gone = aBalance[c][u]
    BY LiquidationLimits
  <2>2. aBalance[c][u] - o.seized = o.feeScaled <=> gone = aBalance[c][u]
    BY <1>3
  <2>3. QED
    BY <2>1, <2>2
<1>6. c \notin usingAsCollateral'[u] <=> drained
  <2> HIDE DEF drained
  <2>1. bits \in [Accounts -> SUBSET Assets] /\ (c \notin bits[u] <=> drained)
    BY <1>1 DEF WithoutBit
  <2> HIDE DEF bits
  <2>2. WithBit(bits, w, c)[u] = bits[u]
    BY <1>1, <2>1 DEF WithBit
  <2>3. QED
    BY <1>2, <2>1, <2>2
<1>7. QED
  BY <1>1, <1>4, <1>5, <1>6

-----------------------------------------------------------------------------
(* Leaving is complete.                                                    *)

(* The debt index a settlement leaves is the one the views show.           *)
LEMMA DebtIndexIsSettledIndex ==
    ASSUME TypeOK, NEW a \in Assets, vSupply[a] # 0
    PROVE  NormalizedDebt(a) = UpdatedReserve(a).variableBorrowIndex
<1>1. reserve[a] \in ReserveData
  BY DEF TypeOK, ReservesOK
<1>2. UpdatedReserve(a).variableBorrowIndex = NextVariableBorrowIndex(a, reserve[a])
  BY <1>1 DEF UpdatedReserve, UpdatedState, ReserveData
<1>3. QED
  BY <1>2 DEF NextVariableBorrowIndex, NormalizedDebt

(* A withdrawal keeps the bit of a collateral that remains, and drops that *)
(* of one that is gone.                                                    *)
LEMMA WithdrawnPosition ==
    ASSUME TypeOK, NEW u \in Users, NEW v \in Users, NEW a \in Assets, NEW n \in Nat,
           Withdraw(u, a, n, v)
    PROVE  /\ \E amount \in Nat :
                 /\ cash'[a] = cash[a] - amount
                 /\ amount = ATokenBalanceOf(u, a) => aBalance'[a][u] = 0
           /\ a \in usingAsCollateral[u] =>
                 (a \notin usingAsCollateral'[u] <=> aBalance'[a][u] = 0)
           /\ usingAsCollateral'[u] \subseteq usingAsCollateral[u]
<1> DEFINE index == UpdatedReserve(a).liquidityIndex
           balance == ATokenBalance(aBalance[a][u], index)
           amount == IF n = MAX_UINT THEN balance ELSE n
           scaled == ATokenBurnScaled(amount, index)
<1>1. /\ u \in Accounts /\ aBalance \in [Assets -> [Accounts -> Nat]]
      /\ usingAsCollateral \in [Accounts -> SUBSET Assets] /\ cash \in [Assets -> Nat]
      /\ aBalance[a][u] \in Nat
  BY DEF TypeOK, LedgersOK, AccountsOK, Accounts
<1>2. /\ scaled <= aBalance[a][u]
      /\ aBalance' = Debit(aBalance, a, u, scaled)
      /\ cash' = [cash EXCEPT ![a] = @ - amount]
      /\ usingAsCollateral' =
            IF a \in usingAsCollateral[u] /\ WillDrainScaled(scaled, aBalance[a][u])
              THEN WithoutBit(usingAsCollateral, u, a) ELSE usingAsCollateral
  BY DEF Withdraw, Burnable
<1>3. index \in Nat \ {0} /\ index >= RAY /\ index = NormalizedIncome(a)
  BY CallIndexes, IncomeIsSettledIndex
<1>4. balance = ATokenBalanceOf(u, a)
  BY <1>3 DEF ATokenBalanceOf
<1> HIDE DEF index
<1>5. balance \in Nat /\ ATokenBurnScaled(balance, index) = aBalance[a][u]
  BY <1>1, <1>3, MultiplyTypes, DrainTakesAll
<1> HIDE DEF balance
<1>6. amount \in Nat
  BY <1>5
<1> HIDE DEF amount
<1>7. scaled \in Nat
  BY <1>3, <1>6, DivideTypes
<1>8. amount = balance => scaled = aBalance[a][u]
  BY <1>5
<1> HIDE DEF scaled
<1>9. aBalance'[a][u] = aBalance[a][u] - scaled
  BY <1>1, <1>2 DEF Debit
<1>10. aBalance'[a][u] = 0 <=> scaled >= aBalance[a][u]
  <2> DEFINE before == aBalance[a][u]
             after == aBalance'[a][u]
  <2>1. before \in Nat /\ scaled <= before /\ after = before - scaled
    BY <1>1, <1>2, <1>9
  <2> HIDE DEF before, after
  <2>2. after = 0 <=> scaled >= before
    BY <1>7, <2>1
  <2>3. QED
    BY <2>2 DEF before, after
<1>11. /\ a \in usingAsCollateral[u] =>
             (a \notin usingAsCollateral'[u] <=> aBalance'[a][u] = 0)
       /\ usingAsCollateral'[u] \subseteq usingAsCollateral[u]
  BY <1>1, <1>2, <1>10 DEF WillDrainScaled, WithoutBit
<1>12. cash'[a] = cash[a] - amount
  BY <1>1, <1>2
<1>13. amount = ATokenBalanceOf(u, a) => aBalance'[a][u] = 0
  BY <1>1, <1>4, <1>8, <1>9
<1>14. QED
  BY <1>6, <1>11, <1>12, <1>13

(* A user whose aTokens leave for all they are worth has none left.        *)
LEMMA SupplierExit ==
    ASSUME TypeOK, [Next]_vars, NEW u \in Users, NEW a \in Assets,
           aBalance'[a][u] < aBalance[a][u],
           cash[a] = cash'[a] + ATokenBalanceOf(u, a)
    PROVE  aBalance'[a][u] = 0 /\ a \notin usingAsCollateral'[u]
<1>1. /\ u \in Accounts /\ cash \in [Assets -> Nat] /\ aBalance[a][u] \in Nat
      /\ cash'[a] \in Nat /\ aBalance'[a][u] \in Nat
      /\ usingAsCollateral \in [Accounts -> SUBSET Assets]
  BY NextSound DEF TypeOK, LedgersOK, AccountsOK, Accounts
<1> DEFINE worth == ATokenBalanceOf(u, a)
<1>2. worth \in Nat /\ worth # 0
  <2>1. NormalizedIncome(a) \in Nat /\ NormalizedIncome(a) >= RAY
    BY CallIndexes
  <2>2. worth \in Nat /\ worth >= aBalance[a][u]
    BY <1>1, <2>1, MultiplyTypes, WorthAtLeastScaled DEF ATokenBalanceOf
  <2>3. QED
    BY <1>1, <2>2
<1> HIDE DEF worth
<1>3. cash[a] \in Nat /\ cash[a] = cash'[a] + worth /\ cash' # cash
  BY <1>1, <1>2 DEF worth
<1>4. ASSUME NEW v \in Users, NEW n \in Nat, Withdraw(u, a, n, v)
      PROVE  aBalance'[a][u] = 0 /\ a \notin usingAsCollateral'[u]
  <2>1. PICK amount \in Nat :
            /\ cash'[a] = cash[a] - amount
            /\ amount = ATokenBalanceOf(u, a) => aBalance'[a][u] = 0
    BY <1>4, WithdrawnPosition
  <2>2. amount = worth
    BY <1>1, <1>2, <1>3, <2>1
  <2>3. QED
    BY <1>4, <2>1, <2>2, WithdrawnPosition DEF worth
<1>5. ASSUME NEW w \in Users, NEW d \in Assets, NEW n \in Nat, NEW b \in BOOLEAN,
             LiquidationCall(w, u, a, d, n, b)
      PROVE  aBalance'[a][u] = 0 /\ a \notin usingAsCollateral'[u]
  <2>1. PICK o \in LiquidationAmounts : LiquidationMoves(w, u, a, d, n, b, o)
    BY <1>5, LiquidationOutcome
  <2>2. /\ o.debt # 0 /\ o.collateral + o.fee <= worth
        /\ o.collateral + o.fee = worth => o.seized + o.feeScaled = aBalance[a][u]
    BY <2>1, LiquidationLimits DEF worth
  <2>3. /\ o.debt \in Nat /\ o.collateral \in Nat /\ o.fee \in Nat
        /\ o.seized \in Nat /\ o.feeScaled \in Nat
    BY DEF LiquidationAmounts
  <2>4. cash' = [[cash EXCEPT ![a] = @ - (IF b THEN 0 ELSE o.collateral)]
                         EXCEPT ![d] = @ + o.debt]
    BY <2>1 DEF LiquidationMoves
  <2> DEFINE released == IF b THEN 0 ELSE o.collateral
  <2>5. cash'[a] = IF a = d THEN cash[a] - released + o.debt ELSE cash[a] - released
    BY <1>1, <2>4
  <2>6. released \in Nat /\ released <= o.collateral
    BY <2>3
  <2> HIDE DEF released
  <2>7. o.collateral = worth /\ o.fee = 0
    BY <1>1, <1>2, <1>3, <2>2, <2>3, <2>5, <2>6
  <2>8. o.feeScaled = 0 /\ o.seized = aBalance[a][u]
    <3>1. o.feeScaled = 0
      BY <2>1, <2>7 DEF LiquidationMoves
    <3>2. QED
      BY <1>1, <1>2, <2>2, <2>3, <2>7, <3>1
  <2>9. QED
    BY <1>1, <2>1, <2>3, <2>8, LiquidatedPosition
<1>6. ASSUME \/ \E v \in Users, n \in Nat : Transfer(u, a, n, v)
             \/ \E n \in Nat : RepayWithATokens(u, a, n)
      PROVE  FALSE
  BY <1>3, <1>6 DEF Transfer, RepayWithATokens
<1>7. QED
  BY <1>1, <1>4, <1>5, <1>6, WhoLosesTokens DEF TokensTaken

(* Paying a debt in full burns all of it and drops its bit.                *)
LEMMA PaidInFull ==
    ASSUME TypeOK, NEW u \in Users, NEW a \in Assets, NEW amount \in Nat,
           amount >= VTokenBalance(vBalance[a][u], UpdatedReserve(a).variableBorrowIndex),
           NEW scaled,
           scaled = DebtBurnScaled(u, a, amount, UpdatedReserve(a).variableBorrowIndex),
           vBalance' = Debit(vBalance, a, u, scaled),
           borrowing' = IF VTokenBalance(vBalance[a][u] - scaled,
                                         UpdatedReserve(a).variableBorrowIndex) = 0
                          THEN WithoutBit(borrowing, u, a) ELSE borrowing
    PROVE  vBalance'[a][u] = 0 /\ a \notin borrowing'[u]
<1>1. /\ u \in Accounts /\ vBalance \in [Assets -> [Accounts -> Nat]]
      /\ borrowing \in [Accounts -> SUBSET Assets] /\ vBalance[a][u] \in Nat
      /\ UpdatedReserve(a).variableBorrowIndex \in Nat \ {0}
  BY CallIndexes DEF TypeOK, LedgersOK, AccountsOK, Accounts
<1>2. scaled = vBalance[a][u]
  BY DEF DebtBurnScaled
<1>3. vBalance[a][u] - scaled = 0
  BY <1>1, <1>2
<1>4. VTokenBalance(0, UpdatedReserve(a).variableBorrowIndex) = 0
  BY <1>1, NoDebtIsHidden
<1>5. vBalance'[a][u] = 0
  BY <1>1, <1>3 DEF Debit
<1>6. borrowing' = WithoutBit(borrowing, u, a)
  BY <1>3, <1>4
<1>7. a \notin borrowing'[u]
  BY <1>1, <1>6 DEF WithoutBit
<1>8. QED
  BY <1>5, <1>7

(* A user for whom the whole debt is paid in owes nothing any more.        *)
LEMMA DebtorExit ==
    ASSUME TypeOK, [Next]_vars, NEW u \in Users, NEW a \in Assets,
           vBalance'[a][u] < vBalance[a][u],
           cash'[a] = cash[a] + VTokenBalance(vBalance[a][u], NormalizedDebt(a))
    PROVE  vBalance'[a][u] = 0 /\ a \notin borrowing'[u]
<1>1. /\ u \in Accounts /\ cash \in [Assets -> Nat] /\ vBalance[a][u] \in Nat
      /\ cash'[a] \in Nat /\ vBalance'[a][u] \in Nat /\ vSupply[a] \in Nat
  BY NextSound DEF TypeOK, LedgersOK, Accounts
<1> DEFINE index == UpdatedReserve(a).variableBorrowIndex
           shown == VTokenBalance(vBalance[a][u], NormalizedDebt(a))
<1>2. shown \in Nat /\ shown # 0
  <2>1. NormalizedDebt(a) \in Nat \ {0} /\ vBalance[a][u] # 0
    BY <1>1, CallIndexes
  <2>2. QED
    BY <1>1, <2>1, MultiplyTypes, NoDebtIsHidden
<1> HIDE DEF shown
<1>3. cash[a] \in Nat /\ cash'[a] = cash[a] + shown /\ cash' # cash
  BY <1>1, <1>2 DEF shown
<1>4. vSupply[a] # 0 => shown = VTokenBalance(vBalance[a][u], index)
  BY DebtIndexIsSettledIndex DEF shown
<1>5. ASSUME NEW w \in Users, NEW n \in Nat, Repay(w, a, n, u)
      PROVE  vBalance'[a][u] = 0 /\ a \notin borrowing'[u]
  <2> DEFINE debt == VTokenBalance(vBalance[a][u], index)
             payback == IF n < debt THEN n ELSE debt
             scaled == DebtBurnScaled(u, a, payback, index)
  <2>1. /\ scaled # 0 /\ scaled <= vSupply[a]
        /\ cash' = [cash EXCEPT ![a] = @ + payback]
        /\ vBalance' = Debit(vBalance, a, u, scaled)
        /\ borrowing' = IF VTokenBalance(vBalance[a][u] - scaled, index) = 0
                          THEN WithoutBit(borrowing, u, a) ELSE borrowing
    BY <1>5 DEF Repay, BurnDebt, Burnable
  <2>2. debt \in Nat
    BY <1>1, CallIndexes, MultiplyTypes
  <2>3. payback \in Nat
    <3> HIDE DEF debt
    <3>1. QED
      BY <2>2
  <2>4. scaled \in Nat
    <3>1. index \in Nat \ {0} /\ LedgersOK
      BY CallIndexes DEF TypeOK
    <3> HIDE DEF payback, index
    <3>2. QED
      BY <1>1, <2>3, <3>1, BurnAmountType
  <2>5. vSupply[a] # 0
    <3> HIDE DEF scaled
    <3>1. QED
      BY <1>1, <2>1, <2>4
  <2>6. payback = shown
    <3> HIDE DEF payback
    <3>1. cash'[a] = cash[a] + payback
      BY <1>1, <2>1
    <3>2. QED
      BY <1>2, <1>3, <2>3, <3>1
  <2>7. payback >= debt
    BY <1>4, <2>2, <2>5, <2>6
  <2> HIDE DEF payback
  <2>8. QED
    BY <2>1, <2>3, <2>7, PaidInFull
<1>6. ASSUME NEW w \in Users, NEW c \in Assets, NEW n \in Nat, NEW b \in BOOLEAN,
             LiquidationCall(w, u, c, a, n, b)
      PROVE  vBalance'[a][u] = 0 /\ a \notin borrowing'[u]
  <2>1. PICK o \in LiquidationAmounts : LiquidationMoves(w, u, c, a, n, b, o)
    BY <1>6, LiquidationOutcome
  <2> DEFINE released == IF b THEN 0 ELSE o.collateral
  <2>2. /\ o.burnt # 0 /\ o.burnt <= vSupply[a] /\ o.burnt \in Nat
        /\ o.debt \in Nat /\ o.collateral \in Nat
        /\ o.burnt = DebtBurnScaled(u, a, o.debt, index)
        /\ vBalance' = Debit(vBalance, a, u, o.burnt)
        /\ borrowing' = IF VTokenBalance(vBalance[a][u] - o.burnt, index) = 0
                          THEN WithoutBit(borrowing, u, a) ELSE borrowing
        /\ cash' = [[cash EXCEPT ![c] = @ - released] EXCEPT ![a] = @ + o.debt]
    BY <2>1 DEF LiquidationMoves, LiquidationAmounts
  <2>3. released \in Nat
    BY <2>2
  <2> HIDE DEF released
  <2>4. cash'[a] = IF a = c THEN cash[a] - released + o.debt ELSE cash[a] + o.debt
    BY <1>1, <2>2
  <2>5. vSupply[a] # 0
    BY <1>1, <2>2
  <2>6. o.debt >= shown
    BY <1>1, <1>2, <1>3, <2>2, <2>3, <2>4
  <2>7. o.debt >= VTokenBalance(vBalance[a][u], index)
    BY <1>4, <2>5, <2>6
  <2>8. QED
    BY <2>2, <2>7, PaidInFull
<1>7. ASSUME \E n \in Nat : RepayWithATokens(u, a, n)
      PROVE  FALSE
  BY <1>3, <1>7 DEF RepayWithATokens
<1>8. QED
  BY <1>1, <1>5, <1>6, <1>7, WhoseDebtShrinks DEF DebtPaid

(* No call of the pool leaves part of what it takes out whole.             *)
LEMMA NextExitsWhole ==
    TypeOK /\ [Next]_vars => FullExitStep
BY SupplierExit, DebtorExit DEF FullExitStep

(* Whoever takes out all that is shown of a balance, or pays in all that   *)
(* is shown of a debt, is left with no scaled unit and no bit, at every    *)
(* index and by every call that moves so much.                             *)
THEOREM ExitIsComplete == Spec => FullExitLeavesNothing
<1>1. TypeOK /\ [Next]_vars => FullExitStep
  BY NextExitsWhole
<1>2. QED
  BY <1>1, TypeCorrect, PTL DEF Spec, FullExitLeavesNothing

-----------------------------------------------------------------------------
(* The bit of a collateral goes with its last unit.                        *)

(* Nothing is worth nothing, in aTokens too.                               *)
LEMMA NothingMovesNothing ==
    ASSUME NEW index \in Nat \ {0}
    PROVE  ATokenTransferScaled(0, index) = 0
<1>1. 0 * RAY = 0 /\ 0 <= index * 0
  BY UnitsAssumption
<1>2. DivCeil(0, index) <= 0 /\ DivCeil(0, index) \in Nat
  BY <1>1, QuotientAtMost, RoundingTypes
<1>3. QED
  BY <1>1, <1>2 DEF ATokenTransferScaled, rayDivCeil

(* A transfer that lowers the sender's balance is one to somebody else.    *)
LEMMA TransferTakes ==
    ASSUME TypeOK, NEW u \in Users, NEW v \in Users, NEW a \in Assets, NEW n \in Nat,
           Transfer(u, a, n, v), aBalance'[a][u] < aBalance[a][u]
    PROVE  u # v /\ n # 0
<1> DEFINE scaled == ATokenTransferScaled(n, NormalizedIncome(a))
           after == Debit(aBalance, a, u, scaled)
<1>1. /\ u \in Accounts /\ v \in Accounts /\ aBalance \in [Assets -> [Accounts -> Nat]]
      /\ aBalance[a][u] \in Nat
  BY DEF TypeOK, LedgersOK, Accounts
<1>2. aBalance' = Credit(after, a, v, scaled) /\ scaled <= aBalance[a][u]
  BY DEF Transfer
<1>3. scaled \in Nat /\ (n = 0 => scaled = 0)
  BY CallIndexes, DivideTypes, NothingMovesNothing
<1> HIDE DEF scaled
<1>4. after \in [Assets -> [Accounts -> Nat]] /\ after[a][u] = aBalance[a][u] - scaled
  BY <1>1, <1>2, <1>3, DebitTypes DEF Debit
<1> HIDE DEF after
<1>5. u # v
  <2>1. u = v => aBalance'[a][u] = aBalance[a][u] - scaled + scaled
    BY <1>1, <1>2, <1>4 DEF Credit
  <2>2. QED
    BY <1>1, <1>3, <2>1
<1>6. aBalance'[a][u] = aBalance[a][u] - scaled
  BY <1>1, <1>2, <1>4, <1>5 DEF Credit
<1>7. QED
  BY <1>1, <1>3, <1>5, <1>6

LEMMA TransferredPosition ==
    ASSUME TypeOK, NEW u \in Users, NEW v \in Users, NEW a \in Assets, NEW n \in Nat,
           Transfer(u, a, n, v), aBalance'[a][u] < aBalance[a][u]
    PROVE  a \in usingAsCollateral[u] =>
              (a \notin usingAsCollateral'[u] <=> aBalance'[a][u] = 0)
<1> DEFINE scaled == ATokenTransferScaled(n, NormalizedIncome(a))
           after == Debit(aBalance, a, u, scaled)
           bits == IF scaled = aBalance[a][u]
                     THEN WithoutBit(usingAsCollateral, u, a) ELSE usingAsCollateral
<1>1. /\ u \in Accounts /\ v \in Accounts /\ aBalance \in [Assets -> [Accounts -> Nat]]
      /\ usingAsCollateral \in [Accounts -> SUBSET Assets] /\ aBalance[a][u] \in Nat
  BY DEF TypeOK, LedgersOK, AccountsOK, Accounts
<1>2. /\ aBalance' = Credit(after, a, v, scaled) /\ scaled <= aBalance[a][u]
      /\ usingAsCollateral' = IF u # v /\ n # 0 THEN BitsAfterTransfer(u, v, a, scaled)
                              ELSE usingAsCollateral
  BY DEF Transfer
<1>3. scaled \in Nat
  BY CallIndexes, DivideTypes
<1> HIDE DEF scaled
<1>4. after \in [Assets -> [Accounts -> Nat]] /\ after[a][u] = aBalance[a][u] - scaled
  BY <1>1, <1>2, <1>3, DebitTypes DEF Debit
<1> HIDE DEF after
<1>5. u # v /\ n # 0
  BY TransferTakes
<1>6. aBalance'[a][u] = aBalance[a][u] - scaled
  BY <1>1, <1>2, <1>4, <1>5 DEF Credit
<1>8. usingAsCollateral'[u] = bits[u]
  <2>1. bits \in [Accounts -> SUBSET Assets]
    BY <1>1 DEF WithoutBit
  <2>2. usingAsCollateral' = bits \/ usingAsCollateral' = WithBit(bits, v, a)
    BY <1>2, <1>5 DEF BitsAfterTransfer
  <2> HIDE DEF bits
  <2>3. QED
    BY <1>1, <1>5, <2>1, <2>2 DEF WithBit
<1>9. a \in usingAsCollateral[u] => (a \notin bits[u] <=> scaled = aBalance[a][u])
  BY <1>1 DEF WithoutBit
<1>10. aBalance'[a][u] = 0 <=> scaled = aBalance[a][u]
  <2> DEFINE before == aBalance[a][u]
             left == aBalance'[a][u]
  <2>1. before \in Nat /\ left = before - scaled
    BY <1>1, <1>3, <1>6
  <2> HIDE DEF before, left
  <2>2. left = 0 <=> scaled = before
    BY <1>3, <2>1
  <2>3. QED
    BY <2>2 DEF before, left
<1> HIDE DEF bits
<1>11. QED
  BY <1>8, <1>9, <1>10

LEMMA RepaidWithPosition ==
    ASSUME TypeOK, NEW u \in Users, NEW a \in Assets, NEW n \in Nat,
           RepayWithATokens(u, a, n), aBalance'[a][u] < aBalance[a][u]
    PROVE  a \in usingAsCollateral[u] =>
              (a \notin usingAsCollateral'[u] <=> aBalance'[a][u] = 0)
<1>1. /\ u \in Accounts /\ aBalance \in [Assets -> [Accounts -> Nat]]
      /\ usingAsCollateral \in [Accounts -> SUBSET Assets] /\ aBalance[a][u] \in Nat
  BY DEF TypeOK, LedgersOK, AccountsOK, Accounts
<1> DEFINE r == UpdatedReserve(a)
           debt == VTokenBalance(vBalance[a][u], r.variableBorrowIndex)
           held == ATokenBalance(aBalance[a][u], r.liquidityIndex)
           offered == IF n = MAX_UINT \/ n > held THEN held ELSE n
           payback == IF offered < debt THEN offered ELSE debt
           aScaled == ATokenBurnScaled(payback, r.liquidityIndex)
<1>2. /\ aScaled <= aBalance[a][u]
      /\ aBalance' = Debit(aBalance, a, u, aScaled)
      /\ usingAsCollateral' = IF a \in usingAsCollateral[u] /\ aScaled = aBalance[a][u]
                                THEN WithoutBit(usingAsCollateral, u, a)
                                ELSE usingAsCollateral
  BY DEF RepayWithATokens, Burnable
<1>3. aScaled \in Nat
  <2>1. /\ r.liquidityIndex \in Nat \ {0} /\ r.variableBorrowIndex \in Nat \ {0}
        /\ vBalance[a][u] \in Nat
    BY <1>1, CallIndexes DEF TypeOK, LedgersOK
  <2> HIDE DEF r
  <2>2. debt \in Nat /\ held \in Nat
    BY <1>1, <2>1, MultiplyTypes
  <2> HIDE DEF debt, held
  <2>3. payback \in Nat
    BY <2>2
  <2> HIDE DEF payback
  <2>4. QED
    BY <2>1, <2>3, DivideTypes
<1> HIDE DEF aScaled
<1>4. aBalance'[a][u] = aBalance[a][u] - aScaled
  BY <1>1, <1>2 DEF Debit
<1>5. aBalance'[a][u] = 0 <=> aScaled = aBalance[a][u]
  <2> DEFINE before == aBalance[a][u]
             after == aBalance'[a][u]
  <2>1. before \in Nat /\ after = before - aScaled
    BY <1>1, <1>3, <1>4
  <2> HIDE DEF before, after
  <2>2. after = 0 <=> aScaled = before
    BY <1>3, <2>1
  <2>3. QED
    BY <2>2 DEF before, after
<1>6. a \in usingAsCollateral[u] =>
         (a \notin usingAsCollateral'[u] <=> aScaled = aBalance[a][u])
  BY <1>1, <1>2 DEF WithoutBit
<1>7. QED
  BY <1>5, <1>6

LEMMA SeizedPosition ==
    ASSUME TypeOK, NEW w \in Users, NEW u \in Users \ {Treasury}, NEW c \in Assets,
           NEW d \in Assets, NEW n \in Nat, NEW b \in BOOLEAN,
           LiquidationCall(w, u, c, d, n, b)
    PROVE  c \notin usingAsCollateral'[u] <=> aBalance'[c][u] = 0
<1>1. PICK o \in LiquidationAmounts : LiquidationMoves(w, u, c, d, n, b, o)
  BY LiquidationOutcome
<1>2. /\ o.seized \in Nat /\ o.feeScaled \in Nat /\ aBalance[c][u] \in Nat
  BY LiquidationTypes DEF LiquidationAmounts
<1> DEFINE gone == o.seized + o.feeScaled
<1>3. /\ gone \in Nat
      /\ aBalance'[c][u] = aBalance[c][u] - gone
      /\ c \notin usingAsCollateral'[u] <=> gone = aBalance[c][u]
  BY <1>1, <1>2, LiquidatedPosition
<1> HIDE DEF gone
<1>4. QED
  BY <1>2, <1>3

(* No call of the pool drops a bit too early or too late.                  *)
LEMMA NextDropsBits ==
    TypeOK /\ [Next]_vars => BitDropsWithLastUnitStep
<1> SUFFICES ASSUME TypeOK, [Next]_vars, NEW u \in Users \ {Treasury}, NEW a \in Assets,
                    aBalance'[a][u] < aBalance[a][u], a \in usingAsCollateral[u]
             PROVE  a \notin usingAsCollateral'[u] <=> aBalance'[a][u] = 0
  BY DEF BitDropsWithLastUnitStep
<1>1. TokensTaken(u, a)
  BY WhoLosesTokens DEF Accounts
<1>2. ASSUME NEW v \in Users, NEW n \in Nat, Withdraw(u, a, n, v)
      PROVE  a \notin usingAsCollateral'[u] <=> aBalance'[a][u] = 0
  BY <1>2, WithdrawnPosition
<1>3. ASSUME NEW v \in Users, NEW n \in Nat, Transfer(u, a, n, v)
      PROVE  a \notin usingAsCollateral'[u] <=> aBalance'[a][u] = 0
  BY <1>3, TransferredPosition
<1>4. ASSUME NEW n \in Nat, RepayWithATokens(u, a, n)
      PROVE  a \notin usingAsCollateral'[u] <=> aBalance'[a][u] = 0
  BY <1>4, RepaidWithPosition
<1>5. QED
  BY <1>1, <1>2, <1>3, <1>4, SeizedPosition DEF TokensTaken

(* Four calls take aTokens from a user, each compares what it rounded with *)
(* what there was in its own way, and all drop the bit with the last unit. *)
THEOREM BitsDropInTime == Spec => BitDropsWithLastUnit
<1>1. TypeOK /\ [Next]_vars => BitDropsWithLastUnitStep
  BY NextDropsBits
<1>2. QED
  BY <1>1, TypeCorrect, PTL DEF Spec, BitDropsWithLastUnit

-----------------------------------------------------------------------------
(* A liquidation pays for what it takes.                                   *)

(* A user whose debt in one asset and whose balance in another fall in one *)
(* step is being liquidated.                                               *)
LEMMA OnlyLiquidationsTakeBoth ==
    ASSUME TypeOK, [Next]_vars, NEW u \in Users, NEW c \in Assets, NEW d \in Assets,
           c # d, aBalance'[c][u] < aBalance[c][u], vBalance'[d][u] < vBalance[d][u]
    PROVE  \E w \in Users, n \in Nat, b \in BOOLEAN : LiquidationCall(w, u, c, d, n, b)
<1>1. /\ u \in Accounts /\ vBalance \in [Assets -> [Accounts -> Nat]]
      /\ vBalance[d][u] \in Nat
  BY DEF TypeOK, LedgersOK, Accounts
<1>2. ASSUME NEW v \in Users, NEW n \in Nat, Withdraw(u, c, n, v) \/ Transfer(u, c, n, v)
      PROVE  FALSE
  <2>1. vBalance' = vBalance
    BY <1>2 DEF Withdraw, Transfer
  <2>2. QED
    BY <1>1, <2>1
<1>3. ASSUME NEW x \in Assets, x # d, NEW scaled, vBalance' = Debit(vBalance, x, u, scaled)
      PROVE  FALSE
  <2>1. vBalance'[d][u] = vBalance[d][u]
    BY <1>1, <1>3 DEF Debit
  <2>2. QED
    BY <1>1, <2>1
<1>4. ASSUME NEW n \in Nat, RepayWithATokens(u, c, n)
      PROVE  FALSE
  BY <1>3, <1>4 DEF RepayWithATokens, BurnDebt
<1>5. ASSUME NEW w \in Users, NEW x \in Assets, NEW n \in Nat, NEW b \in BOOLEAN,
             LiquidationCall(w, u, c, x, n, b)
      PROVE  x = d
  BY <1>3, <1>5 DEF LiquidationCall
<1>6. TokensTaken(u, c)
  BY <1>1, WhoLosesTokens
<1>7. PICK w \in Users, x \in Assets, n \in Nat, b \in BOOLEAN :
          LiquidationCall(w, u, c, x, n, b)
  BY <1>2, <1>4, <1>6 DEF TokensTaken
<1>8. QED
  BY <1>5, <1>7

LEMMA LiquidationIsPaidFor ==
    ASSUME TypeOK, NEW w \in Users, NEW u \in Users \ {Treasury}, NEW c \in Assets,
           NEW d \in Assets, c # d, NEW n \in Nat, NEW b \in BOOLEAN,
           LiquidationCall(w, u, c, d, n, b), cash'[c] < cash[c]
    PROVE  PriceFor(userEMode[u], c) * (cash[c] - cash'[c])
                * AssetUnit[d] * PERCENTAGE_FACTOR
             <= PriceFor(userEMode[u], d)
                  * ((cash'[d] - cash[d]) + (IF aBalance'[c][u] = 0 THEN 1 ELSE 0))
                  * AssetUnit[c] * LiquidationBonus(u, c)
<1> DEFINE pc == PriceFor(userEMode[u], c)
           pd == PriceFor(userEMode[u], d)
           uc == AssetUnit[c]
           ud == AssetUnit[d]
           bonus == LiquidationBonus(u, c)
           balance == ATokenBalanceOf(u, c)
           rounding == IF aBalance'[c][u] = 0 THEN 1 ELSE 0
<1>1. PICK o \in LiquidationAmounts : LiquidationMoves(w, u, c, d, n, b, o)
  BY LiquidationOutcome
<1>2. /\ o.offered \in Nat /\ o.collateral \in Nat /\ o.fee \in Nat /\ o.debt \in Nat
      /\ o.seized \in Nat /\ o.feeScaled \in Nat
  BY DEF LiquidationAmounts
<1>3. /\ balance \in Nat /\ aBalance[c][u] \in Nat
      /\ pc \in Nat \ {0} /\ pd \in Nat \ {0} /\ uc \in Nat \ {0} /\ ud \in Nat \ {0}
      /\ bonus \in Bonus /\ bonus \in Nat /\ MaxCollateral(u, c, d, o.offered) \in Nat
  BY <1>2, LiquidationTypes
<1>4. cash[c] - cash'[c] = o.collateral /\ cash'[d] - cash[d] = o.debt
  <2> DEFINE released == IF b THEN 0 ELSE o.collateral
  <2>1. /\ cash \in [Assets -> Nat] /\ cash[c] \in Nat /\ cash[d] \in Nat
        /\ cash' = [[cash EXCEPT ![c] = @ - released] EXCEPT ![d] = @ + o.debt]
    BY <1>1 DEF LiquidationMoves, TypeOK, LedgersOK
  <2>2. released \in Nat
    BY <1>2
  <2> HIDE DEF released
  <2>3. cash'[c] = cash[c] - released /\ cash'[d] = cash[d] + o.debt
    BY <2>1
  <2>4. released # 0
    BY <2>1, <2>2, <2>3
  <2>5. released = o.collateral
    BY <2>4 DEF released
  <2>6. QED
    BY <1>2, <2>1, <2>3, <2>5
<1>5. /\ MaxCollateral(u, c, d, o.offered) > balance =>
            /\ o.collateral + o.fee = balance
            /\ o.debt = DebtNeeded(u, c, d, balance)
      /\ ~(MaxCollateral(u, c, d, o.offered) > balance) =>
            /\ o.collateral + o.fee = MaxCollateral(u, c, d, o.offered)
            /\ o.debt = o.offered
  BY <1>1, <1>3, LiquidationTakes
<1>6. CASE MaxCollateral(u, c, d, o.offered) > balance
  <2>1. aBalance'[c][u] = 0
    <3> DEFINE gone == o.seized + o.feeScaled
    <3>1. gone = aBalance[c][u]
      BY <1>1, <1>5, <1>6, LiquidationLimits
    <3>2. aBalance'[c][u] = aBalance[c][u] - gone
      BY <1>1, LiquidatedPosition
    <3> HIDE DEF gone
    <3>3. QED
      BY <1>3, <3>1, <3>2
  <2>2. bonus > PERCENTAGE_FACTOR
    <3>1. bonus # 0
      <4> DEFINE bought == (pd * o.offered * uc) \div (pc * ud)
      <4>1. /\ MaxCollateral(u, c, d, o.offered) = percentMulFloor(bought, bonus)
            /\ MaxCollateral(u, c, d, o.offered) # 0
        BY <1>3, <1>6 DEF MaxCollateral
      <4>2. bought \in Nat
        <5>1. pd * o.offered \in Nat /\ pc * ud \in Nat /\ pc * ud # 0
          BY <1>2, <1>3, ProductNat
        <5>2. pd * o.offered * uc \in Nat
          BY <1>3, <5>1, ProductNat
        <5>3. QED
          BY <5>1, <5>2, Division
      <4> HIDE DEF bought
      <4>3. percentMulFloor(bought, 0) = 0
        <5>1. bought * 0 = 0 /\ 0 <= PERCENTAGE_FACTOR * 0
          BY <4>2, UnitsAssumption
        <5>2. DivFloor(0, PERCENTAGE_FACTOR) <= 0 /\ DivFloor(0, PERCENTAGE_FACTOR) \in Nat
          BY <5>1, QuotientAtMost, RoundingTypes, UnitsAssumption
        <5>3. QED
          BY <5>1, <5>2 DEF percentMulFloor
      <4>4. QED
        BY <4>1, <4>3
    <3>2. QED
      BY <1>3, <3>1 DEF Bonus
  <2>3. o.collateral <= balance
    BY <1>2, <1>3, <1>5, <1>6
  <2>4. pc * o.collateral * ud * PERCENTAGE_FACTOR
          <= pd * (percentDivCeil((pc * balance * ud) \div (pd * uc), bonus) + 1) * uc * bonus
    <3> HIDE DEF pc, pd, uc, ud, bonus, balance
    <3>1. QED
      BY <1>2, <1>3, <2>2, <2>3, AllWorthPaid
  <2>5. o.debt = percentDivCeil((pc * balance * ud) \div (pd * uc), bonus)
    BY <1>5, <1>6 DEF DebtNeeded
  <2>6. pc * o.collateral * ud * PERCENTAGE_FACTOR <= pd * (o.debt + rounding) * uc * bonus
    BY <2>1, <2>4, <2>5
  <2>7. QED
    BY <1>4, <2>6
<1>7. CASE ~(MaxCollateral(u, c, d, o.offered) > balance)
  <2>1. o.collateral <= percentMulFloor((pd * o.debt * uc) \div (pc * ud), bonus)
    BY <1>2, <1>3, <1>5, <1>7 DEF MaxCollateral
  <2>2. pc * o.collateral * ud * PERCENTAGE_FACTOR <= pd * o.debt * uc * bonus
    <3> HIDE DEF pc, pd, uc, ud, bonus
    <3>1. QED
      BY <1>2, <1>3, <2>1, BoughtWorthPaid
  <2>3. pd * o.debt * uc * bonus <= pd * (o.debt + rounding) * uc * bonus
    <3>1. rounding \in Nat
      OBVIOUS
    <3> HIDE DEF pd, uc, bonus, rounding
    <3>2. /\ o.debt + rounding \in Nat /\ pd * o.debt \in Nat
          /\ pd * o.debt <= pd * (o.debt + rounding) /\ pd * (o.debt + rounding) \in Nat
      BY <1>2, <1>3, <3>1, ProductNat, ProductMonotone
    <3>3. /\ pd * o.debt * uc \in Nat /\ pd * (o.debt + rounding) * uc \in Nat
          /\ pd * o.debt * uc <= pd * (o.debt + rounding) * uc
      BY <1>3, <3>2, ProductNat, ProductMonotone
    <3>4. QED
      BY <1>3, <3>3, ProductMonotone
  <2>4. pc * o.collateral * ud * PERCENTAGE_FACTOR <= pd * (o.debt + rounding) * uc * bonus
    <3> DEFINE left == pc * o.collateral * ud * PERCENTAGE_FACTOR
               mid == pd * o.debt * uc * bonus
               right == pd * (o.debt + rounding) * uc * bonus
    <3>1. left \in Nat
      <4>1. pc * o.collateral \in Nat
        BY <1>2, <1>3, ProductNat
      <4>2. pc * o.collateral * ud \in Nat
        BY <1>3, <4>1, ProductNat
      <4>3. QED
        BY <4>2, ProductNat, UnitsAssumption
    <3>2. mid \in Nat
      <4>1. pd * o.debt \in Nat
        BY <1>2, <1>3, ProductNat
      <4>2. pd * o.debt * uc \in Nat
        BY <1>3, <4>1, ProductNat
      <4>3. QED
        BY <1>3, <4>2, ProductNat
    <3>3. right \in Nat
      <4>1. o.debt + rounding \in Nat
        BY <1>2
      <4>2. pd * (o.debt + rounding) \in Nat
        BY <1>3, <4>1, ProductNat
      <4>3. pd * (o.debt + rounding) * uc \in Nat
        BY <1>3, <4>2, ProductNat
      <4>4. QED
        BY <1>3, <4>3, ProductNat
    <3>4. left <= mid /\ mid <= right
      BY <2>2, <2>3
    <3> HIDE DEF left, mid, right
    <3>5. left <= right
      BY <3>1, <3>2, <3>3, <3>4
    <3>6. QED
      BY <3>5 DEF left, right
  <2>5. QED
    BY <1>4, <2>4
<1>8. QED
  BY <1>6, <1>7

(* No call of the pool gives a liquidator more.                            *)
LEMMA NextPaysForLiquidations ==
    TypeOK /\ [Next]_vars => LiquidationPaysItsWayStep
<1> SUFFICES ASSUME TypeOK, [Next]_vars, NEW u \in Users \ {Treasury},
                    NEW c \in Assets, NEW d \in Assets, c # d,
                    aBalance'[c][u] < aBalance[c][u],
                    vBalance'[d][u] < vBalance[d][u], cash'[c] < cash[c]
             PROVE  PriceFor(userEMode[u], c) * (cash[c] - cash'[c])
                         * AssetUnit[d] * PERCENTAGE_FACTOR
                      <= PriceFor(userEMode[u], d)
                           * ((cash'[d] - cash[d])
                                + (IF aBalance'[c][u] = 0 THEN 1 ELSE 0))
                           * AssetUnit[c] * LiquidationBonus(u, c)
  BY DEF LiquidationPaysItsWayStep
<1>1. PICK w \in Users, n \in Nat, b \in BOOLEAN : LiquidationCall(w, u, c, d, n, b)
  BY OnlyLiquidationsTakeBoth
<1>2. QED
  BY <1>1, LiquidationIsPaidFor

(* However prices, units and bonus are set and whichever of debt and       *)
(* collateral is the limit, what a liquidator is paid is worth at most the *)
(* bonus on what he pays, but for one unit when he takes all there is.     *)
THEOREM LiquidationsArePaid == Spec => LiquidationPaysItsWay
<1>1. TypeOK /\ [Next]_vars => LiquidationPaysItsWayStep
  BY NextPaysForLiquidations
<1>2. QED
  BY <1>1, TypeCorrect, PTL DEF Spec, LiquidationPaysItsWay

-----------------------------------------------------------------------------
(* Who is healthy stays healthy.                                           *)

(* A sum grows with its terms and with the set it is taken over.           *)
LEMMA SumGrows ==
    ASSUME NEW I, IsFiniteSet(I), NEW J \in SUBSET I, NEW f, NEW h,
           \A x \in I : h[x] \in Nat, \A x \in J : f[x] \in Nat /\ f[x] <= h[x]
    PROVE  SumFunctionOnSet(f, J) <= SumFunctionOnSet(h, I)
<1> DEFINE B == {t \in SUBSET I :
                    SumFunctionOnSet(h, t \cap J) <= SumFunctionOnSet(h, t)}
<1>1. {} \in B
  <2>1. {} \cap J = {}
    OBVIOUS
  <2>2. QED
    BY <2>1, SumUnfolds
<1>2. ASSUME NEW t \in SUBSET I, t # {}, t \ {First(t)} \in B
      PROVE  t \in B
  <2> DEFINE x == First(t)
             r == t \ {x}
             s == t \cap J
             q == r \cap J
  <2>1. IsFiniteSet(t) /\ x \in t /\ r \in SUBSET I
    BY <1>2, OneLess
  <2>2. s \in SUBSET I /\ q \in SUBSET I
    OBVIOUS
  <2>3. SumFunctionOnSet(h, q) <= SumFunctionOnSet(h, r)
    BY <1>2
  <2>4. (x \notin J => s = q) /\ (x \in J => x \in s /\ s \ {x} = q)
    BY <2>1
  <2>5. SumFunctionOnSet(h, t) = h[x] + SumFunctionOnSet(h, r)
    BY <1>2, <2>1, SumUnfolds
  <2> HIDE DEF x, r, s, q
  <2>6. /\ IsFiniteSet(r) /\ IsFiniteSet(s) /\ IsFiniteSet(q)
        /\ \A y \in r \cup s \cup q : h[y] \in Nat
    BY <2>1, <2>2, FS_Subset
  <2>7. /\ SumFunctionOnSet(h, r) \in Nat /\ SumFunctionOnSet(h, q) \in Nat
        /\ h[x] \in Nat
    BY <2>1, <2>6, SumIsNatural
  <2>8. x \in J => SumFunctionOnSet(h, s) = h[x] + SumFunctionOnSet(h, q)
    BY <2>4, <2>6, SumTakesOut
  <2>9. SumFunctionOnSet(h, s) <= SumFunctionOnSet(h, t)
    BY <2>3, <2>4, <2>5, <2>7, <2>8
  <2>10. QED
    BY <1>2, <2>9 DEF s
<1> HIDE DEF B
<1>3. I \in B
  BY <1>1, <1>2, SubsetInduction
<1>4. SumFunctionOnSet(h, J) <= SumFunctionOnSet(h, I)
  <2>1. I \cap J = J
    OBVIOUS
  <2>2. QED
    BY <1>3, <2>1 DEF B
<1>5. IsFiniteSet(J) /\ \A x \in J : h[x] \in Nat
  BY FS_Subset
<1>6. SumFunctionOnSet(f, J) <= SumFunctionOnSet(h, J)
  BY <1>5, SumIsMonotone
<1>7. /\ SumFunctionOnSet(f, J) \in Nat /\ SumFunctionOnSet(h, J) \in Nat
      /\ SumFunctionOnSet(h, I) \in Nat
  BY <1>5, SumIsNatural
<1>8. QED
  BY <1>4, <1>6, <1>7

(* The collateral of u, weighted with its thresholds.                      *)
Secured(u, a) == UserBalanceInBase(u, a) * ThresholdFor(userEMode[u], a)

Weighted(u) == SumFunction([a \in usingAsCollateral[u] |-> Secured(u, a)])

(* The values of a position are numbers.                                   *)
ValuesTyped ==
    \A u \in Accounts, a \in Assets :
        /\ UserBalanceInBase(u, a) \in Nat /\ UserDebtInBase(u, a) \in Nat
        /\ ThresholdFor(userEMode[u], a) \in Nat /\ LtvFor(userEMode[u], a) \in Nat
        /\ Secured(u, a) \in Nat
        /\ UserBalanceInBase(u, a) * LtvFor(userEMode[u], a) \in Nat

LEMMA ValuesAreTyped == TypeOK => ValuesTyped
<1> SUFFICES ASSUME TypeOK, NEW u \in Accounts, NEW a \in Assets
             PROVE  /\ UserBalanceInBase(u, a) \in Nat /\ UserDebtInBase(u, a) \in Nat
                    /\ ThresholdFor(userEMode[u], a) \in Nat
                    /\ LtvFor(userEMode[u], a) \in Nat
                    /\ Secured(u, a) \in Nat
                    /\ UserBalanceInBase(u, a) * LtvFor(userEMode[u], a) \in Nat
  BY DEF ValuesTyped
<1>1. /\ PriceFor(userEMode[u], a) \in Nat
      /\ AssetUnit[a] \in Nat \ {0}
      /\ NormalizedIncome(a) \in Nat /\ NormalizedDebt(a) \in Nat
      /\ aBalance[a][u] \in Nat /\ vBalance[a][u] \in Nat
  BY PositionParameters, CallIndexes, StorageAssumption DEF TypeOK, LedgersOK
<1>2. /\ userEMode[u] \in Categories \cup {0}
      /\ config[a] \in ReserveConfiguration
      /\ \A c \in Categories : eModeCategories[c] \in EModeCategory
  BY DEF TypeOK, AccountsOK, SettingsOK
<1>3. ThresholdFor(userEMode[u], a) \in Nat /\ LtvFor(userEMode[u], a) \in Nat
  BY <1>2 DEF ThresholdFor, LtvFor, isInEModeCategory, EModeCategory, ReserveConfiguration
<1>4. /\ ATokenBalanceOf(u, a) \in Nat
      /\ VTokenBalance(vBalance[a][u], NormalizedDebt(a)) \in Nat
  BY <1>1, MultiplyTypes DEF ATokenBalanceOf
<1>5. /\ ATokenBalanceOf(u, a) * PriceFor(userEMode[u], a) \in Nat
      /\ PriceFor(userEMode[u], a) * VTokenBalance(vBalance[a][u], NormalizedDebt(a)) \in Nat
  BY <1>1, <1>4, ProductNat
<1>6. UserBalanceInBase(u, a) \in Nat /\ UserDebtInBase(u, a) \in Nat
  BY <1>1, <1>5, RoundingTypes DEF UserBalanceInBase, UserDebtInBase
<1>7. Secured(u, a) \in Nat /\ UserBalanceInBase(u, a) * LtvFor(userEMode[u], a) \in Nat
  BY <1>3, <1>6, ProductNat DEF Secured
<1>8. QED
  BY <1>3, <1>6, <1>7

LEMMA ValuesAreTypedAfter == TypeOK' => ValuesTyped'
BY ValuesAreTyped, PTL

(* The sums of a position are numbers.                                     *)
SumsTyped ==
    \A u \in Accounts : /\ Weighted(u) \in Nat /\ DebtInBase(u) \in Nat
                        /\ CollateralInBase(u) \in Nat

LEMMA SumsAreTyped == TypeOK => SumsTyped
<1> SUFFICES ASSUME TypeOK, NEW u \in Accounts
             PROVE  /\ Weighted(u) \in Nat /\ DebtInBase(u) \in Nat
                    /\ CollateralInBase(u) \in Nat
  BY DEF SumsTyped
<1>1. /\ usingAsCollateral[u] \in SUBSET Assets /\ borrowing[u] \in SUBSET Assets
      /\ IsFiniteSet(usingAsCollateral[u]) /\ IsFiniteSet(borrowing[u])
  BY StorageAssumption, FS_Subset DEF TypeOK, AccountsOK
<1> DEFINE f == [a \in usingAsCollateral[u] |-> Secured(u, a)]
           g == [a \in borrowing[u] |-> UserDebtInBase(u, a)]
           h == [a \in usingAsCollateral[u] |-> UserBalanceInBase(u, a)]
<1>2. /\ DOMAIN f = usingAsCollateral[u] /\ \A a \in usingAsCollateral[u] : f[a] \in Nat
      /\ DOMAIN g = borrowing[u] /\ \A a \in borrowing[u] : g[a] \in Nat
      /\ DOMAIN h = usingAsCollateral[u] /\ \A a \in usingAsCollateral[u] : h[a] \in Nat
  BY <1>1, ValuesAreTyped DEF ValuesTyped
<1>3. /\ Weighted(u) = SumFunctionOnSet(f, DOMAIN f)
      /\ DebtInBase(u) = SumFunctionOnSet(g, DOMAIN g)
      /\ CollateralInBase(u) = SumFunctionOnSet(h, DOMAIN h)
  BY DEF Weighted, DebtInBase, CollateralInBase, SumFunction
<1> HIDE DEF f, g, h
<1>4. QED
  BY <1>1, <1>2, <1>3, SumIsNatural

LEMMA SumsAreTypedAfter == TypeOK' => SumsTyped'
BY SumsAreTyped, PTL

(* The health factor reaches one exactly when the weighted collateral       *)
(* makes up for the debt, up to the rounding of the division.               *)
LEMMA EnoughForHealth ==
    ASSUME NEW w \in Nat, NEW d \in Nat \ {0}
    PROVE  wadDiv(w, d) \div PERCENTAGE_FACTOR >= WAD
             <=> d * (PERCENTAGE_FACTOR * WAD) <= (w * WAD) + (d \div 2)
<1> DEFINE t == PERCENTAGE_FACTOR * WAD
           s == (w * WAD) + (d \div 2)
           q == wadDiv(w, d)
<1>1. /\ t \in Nat /\ s \in Nat /\ WAD \in Nat /\ PERCENTAGE_FACTOR \in Nat \ {0}
  BY UnitsAssumption, ProductNat, HalfIsLess
<1>2. q = DivFloor(s, d)
  BY DEF wadDiv, DivHalfUp, DivFloor
<1> HIDE DEF s, q
<1>3. q \in Nat
  BY <1>1, <1>2, RoundingTypes
<1>4. q \div PERCENTAGE_FACTOR >= WAD <=> t <= q
  <2>1. DivFloor(q, PERCENTAGE_FACTOR) \in Nat
        /\ PERCENTAGE_FACTOR * DivFloor(q, PERCENTAGE_FACTOR) <= q
    BY <1>1, <1>3, RoundingTypes, FloorBounds
  <2>2. t <= q => DivFloor(q, PERCENTAGE_FACTOR) >= WAD
    BY <1>1, <1>3, QuotientAtLeast
  <2>3. WAD <= DivFloor(q, PERCENTAGE_FACTOR)
          => t <= PERCENTAGE_FACTOR * DivFloor(q, PERCENTAGE_FACTOR)
    BY <1>1, <2>1, ProductMonotone
  <2>4. PERCENTAGE_FACTOR * DivFloor(q, PERCENTAGE_FACTOR) \in Nat
    BY <1>1, <2>1, ProductNat
  <2> HIDE DEF t
  <2>5. DivFloor(q, PERCENTAGE_FACTOR) >= WAD <=> t <= q
    BY <1>1, <1>3, <2>1, <2>2, <2>3, <2>4
  <2>6. QED
    BY <2>5 DEF DivFloor
<1>5. t <= q <=> d * t <= s
  <2> HIDE DEF t
  <2>1. d * q <= s /\ d * q \in Nat /\ d * t \in Nat
    BY <1>1, <1>2, <1>3, FloorBounds, ProductNat
  <2>2. t <= q => d * t <= d * q
    BY <1>1, <1>3, ProductMonotone
  <2>3. d * t <= s => DivFloor(s, d) >= t
    BY <1>1, QuotientAtLeast
  <2>4. QED
    BY <1>1, <1>2, <1>3, <2>1, <2>2, <2>3
<1>6. QED
  BY <1>4, <1>5 DEF s, q

LEMMA HealthIs ==
    ASSUME NEW u \in Accounts
    PROVE  HealthFactor(u) = IF DebtInBase(u) = 0 THEN MAX_UINT
                             ELSE wadDiv(Weighted(u), DebtInBase(u)) \div PERCENTAGE_FACTOR
BY DEF HealthFactor, Weighted, Secured

(* Healthy: no debt, or enough weighted collateral for it.                 *)
Covered(w, d) == d = 0 \/ d * (PERCENTAGE_FACTOR * WAD) <= (w * WAD) + (d \div 2)

HealthIsCover == \A u \in Accounts : Healthy(u) <=> Covered(Weighted(u), DebtInBase(u))

LEMMA HealthyIsCovered == TypeOK => HealthIsCover
<1> SUFFICES ASSUME TypeOK, NEW u \in Accounts
             PROVE  Healthy(u) <=> Covered(Weighted(u), DebtInBase(u))
  BY DEF HealthIsCover
<1> DEFINE w == Weighted(u)
           d == DebtInBase(u)
<1>1. w \in Nat /\ d \in Nat
  BY SumsAreTyped DEF SumsTyped
<1>2. Healthy(u) <=> (IF d = 0 THEN MAX_UINT ELSE wadDiv(w, d) \div PERCENTAGE_FACTOR) >= WAD
  BY HealthIs DEF Healthy
<1> HIDE DEF w, d
<1>3. ASSUME d = 0 PROVE Healthy(u) <=> Covered(w, d)
  BY <1>2, <1>3, StorageAssumption, UnitsAssumption DEF Covered
<1>4. ASSUME d # 0 PROVE Healthy(u) <=> Covered(w, d)
  <2>1. Healthy(u) <=> wadDiv(w, d) \div PERCENTAGE_FACTOR >= WAD
    BY <1>2, <1>4
  <2>2. QED
    BY <1>1, <1>4, <2>1, EnoughForHealth DEF Covered
<1>5. Healthy(u) <=> Covered(w, d)
  BY <1>3, <1>4
<1>6. QED
  BY <1>5 DEF w, d

LEMMA HealthyIsCoveredAfter == TypeOK' => HealthIsCover'
BY HealthyIsCovered, PTL

(* More collateral and less debt are no worse.                             *)
LEMMA CoverGrows ==
    ASSUME NEW w \in Nat, NEW d \in Nat, Covered(w, d),
           NEW x \in Nat, NEW e \in Nat, w <= x, e <= d
    PROVE  Covered(x, e)
<1> DEFINE t == PERCENTAGE_FACTOR * WAD
<1>1. t \in Nat \ {0} /\ WAD \in Nat \ {0}
  BY UnitsAssumption
<1>2. CASE e = 0
  BY <1>2 DEF Covered
<1>3. CASE e # 0
  <2>1. d * t <= (w * WAD) + (d \div 2)
    BY <1>3 DEF Covered
  <2> HIDE DEF t
  <2>2. w * WAD <= x * WAD /\ w * WAD \in Nat /\ x * WAD \in Nat
    BY <1>1, ProductMonotone, ProductNat
  <2> DEFINE k == d - e
  <2>3. k \in Nat /\ d = e + k
    OBVIOUS
  <2> HIDE DEF k
  <2>4. d * t = (e * t) + (k * t) /\ e * t \in Nat /\ k * t \in Nat /\ d * t \in Nat
    BY <1>1, <2>3
  <2>5. k <= k * t
    <3>1. k * 1 <= k * t /\ k * 1 = k
      BY <1>1, <2>3, ProductMonotone
    <3>2. QED
      BY <3>1
  <2>6. d \div 2 <= (e \div 2) + k
    BY <2>3
  <2>7. e \div 2 \in Nat /\ d \div 2 \in Nat
    OBVIOUS
  <2>8. e * t <= (x * WAD) + (e \div 2)
    BY <2>1, <2>2, <2>3, <2>4, <2>5, <2>6, <2>7
  <2>9. QED
    BY <2>8 DEF Covered, t
<1>4. QED
  BY <1>2, <1>3

LEMMA BetterIsHealthy ==
    ASSUME TypeOK, TypeOK', NEW u \in Accounts, Healthy(u),
           Weighted(u) <= Weighted(u)', DebtInBase(u)' <= DebtInBase(u)
    PROVE  Healthy(u)'
<1> DEFINE w == Weighted(u)
           d == DebtInBase(u)
           x == Weighted(u)'
           e == DebtInBase(u)'
<1>1. w \in Nat /\ d \in Nat /\ x \in Nat /\ e \in Nat
  BY SumsAreTyped, SumsAreTypedAfter DEF SumsTyped
<1>2. Covered(w, d)
  BY HealthyIsCovered DEF HealthIsCover
<1>3. w <= x /\ e <= d
  OBVIOUS
<1>4. Healthy(u)' <=> Covered(x, e)
  BY HealthyIsCoveredAfter DEF HealthIsCover, Covered
<1> HIDE DEF w, d, x, e
<1>5. QED
  BY <1>1, <1>2, <1>3, <1>4, CoverGrows

(* More bits with more behind each weigh more.                             *)
LEMMA WeightGrows ==
    ASSUME TypeOK, TypeOK', NEW u \in Accounts,
           usingAsCollateral[u] \subseteq usingAsCollateral'[u],
           \A a \in usingAsCollateral[u] : Secured(u, a) <= Secured(u, a)'
    PROVE  Weighted(u) <= Weighted(u)'
<1> DEFINE J == usingAsCollateral[u]
           I == usingAsCollateral'[u]
           f == [a \in J |-> Secured(u, a)]
           h == [a \in I |-> Secured(u, a)']
<1>1. I \in SUBSET Assets /\ J \in SUBSET I
  BY DEF TypeOK, AccountsOK
<1>2. /\ \A a \in I : Secured(u, a)' \in Nat
      /\ \A a \in J : Secured(u, a) \in Nat
  BY <1>1, ValuesAreTyped, ValuesAreTypedAfter DEF ValuesTyped
<1>3. Weighted(u) = SumFunctionOnSet(f, J)
  BY DEF Weighted, SumFunction
<1>4. Weighted(u)' = SumFunctionOnSet(h, I)
  BY DEF Weighted, SumFunction
<1>5. /\ \A a \in I : h[a] \in Nat
      /\ \A a \in J : f[a] \in Nat /\ f[a] <= h[a]
  BY <1>1, <1>2
<1> HIDE DEF f, h, I, J
<1>6. IsFiniteSet(I)
  BY <1>1, StorageAssumption, FS_Subset
<1>7. QED
  BY <1>1, <1>3, <1>4, <1>5, <1>6, SumGrows

(* Fewer bits with less behind each owe less.                              *)
LEMMA DebtShrinks ==
    ASSUME TypeOK, TypeOK', NEW u \in Accounts,
           borrowing'[u] \subseteq borrowing[u],
           \A a \in borrowing'[u] : UserDebtInBase(u, a)' <= UserDebtInBase(u, a)
    PROVE  DebtInBase(u)' <= DebtInBase(u)
<1> DEFINE J == borrowing'[u]
           I == borrowing[u]
           f == [a \in J |-> UserDebtInBase(u, a)']
           h == [a \in I |-> UserDebtInBase(u, a)]
<1>1. I \in SUBSET Assets /\ J \in SUBSET I
  BY DEF TypeOK, AccountsOK
<1>2. /\ \A a \in I : UserDebtInBase(u, a) \in Nat
      /\ \A a \in J : UserDebtInBase(u, a)' \in Nat
  BY <1>1, ValuesAreTyped, ValuesAreTypedAfter DEF ValuesTyped
<1>3. DebtInBase(u) = SumFunctionOnSet(h, I)
  BY DEF DebtInBase, SumFunction
<1>4. DebtInBase(u)' = SumFunctionOnSet(f, J)
  BY DEF DebtInBase, SumFunction
<1>5. /\ \A a \in I : h[a] \in Nat
      /\ \A a \in J : f[a] \in Nat /\ f[a] <= h[a]
  BY <1>1, <1>2
<1> HIDE DEF f, h, I, J
<1>6. IsFiniteSet(I)
  BY <1>1, StorageAssumption, FS_Subset
<1>7. QED
  BY <1>1, <1>3, <1>4, <1>5, <1>6, SumGrows

(* Rounded quotients grow with what is divided.                            *)
LEMMA QuotientsGrow ==
    ASSUME NEW m \in Nat, NEW n \in Nat, m <= n, NEW b \in Nat \ {0}
    PROVE  DivFloor(m, b) <= DivFloor(n, b) /\ DivCeil(m, b) <= DivCeil(n, b)
<1>1. /\ DivFloor(m, b) \in Nat /\ DivFloor(n, b) \in Nat
      /\ DivCeil(m, b) \in Nat /\ DivCeil(n, b) \in Nat
  BY RoundingTypes
<1>2. b * DivFloor(m, b) <= m /\ b * DivFloor(m, b) \in Nat
  BY <1>1, FloorBounds, ProductNat
<1>3. n <= b * DivCeil(n, b) /\ b * DivCeil(n, b) \in Nat
  BY <1>1, CeilBounds, ProductNat
<1>4. DivFloor(n, b) >= DivFloor(m, b)
  <2>1. b * DivFloor(m, b) <= n
    BY <1>2
  <2>2. QED
    BY <1>1, <2>1, QuotientAtLeast
<1>5. DivCeil(m, b) <= DivCeil(n, b)
  <2>1. m <= b * DivCeil(n, b)
    BY <1>3
  <2>2. QED
    BY <1>1, <2>1, QuotientAtMost
<1>6. QED
  BY <1>1, <1>4, <1>5

(* The indexes positions are valued at are those a settlement leaves.      *)
IndexesSettled ==
    \A a \in Assets :
        /\ NormalizedIncome(a) = UpdatedReserve(a).liquidityIndex
        /\ vSupply[a] # 0 => NormalizedDebt(a) = UpdatedReserve(a).variableBorrowIndex

LEMMA IndexesAreSettled == TypeOK => IndexesSettled
BY IncomeIsSettledIndex, DebtIndexIsSettledIndex DEF IndexesSettled

LEMMA IndexesAreSettledAfter == TypeOK' => IndexesSettled'
BY IndexesAreSettled, PTL

(* No call of this instant moves them.                                     *)
IndexesStand == \A a \in Assets : SameIndexes(a)

LEMMA NextKeepsIndexes ==
    ASSUME TypeOK, TypeOK', [Next]_vars, now' = now
    PROVE  IndexesStand
BY NextIsFair, IdleIndexes, SettledIndexes, PaymentIndexes DEF FairStep, IndexesStand

(* Then everything is valued as before.                                    *)
LEMMA IndexesStay ==
    ASSUME TypeOK, TypeOK', IndexesStand, NEW a \in Assets
    PROVE  /\ NormalizedIncome(a)' = NormalizedIncome(a)
           /\ vSupply[a] # 0 /\ vSupply'[a] # 0
                => NormalizedDebt(a)' = NormalizedDebt(a)
<1>1. SameIndexes(a)
  BY DEF IndexesStand
<1>2. /\ NormalizedIncome(a) = UpdatedReserve(a).liquidityIndex
      /\ NormalizedIncome(a)' = UpdatedReserve(a)'.liquidityIndex
      /\ vSupply[a] # 0 => NormalizedDebt(a) = UpdatedReserve(a).variableBorrowIndex
      /\ vSupply'[a] # 0 => NormalizedDebt(a)' = UpdatedReserve(a)'.variableBorrowIndex
  BY IndexesAreSettled, IndexesAreSettledAfter DEF IndexesSettled
<1>3. QED
  BY <1>1, <1>2 DEF SameIndexes

(* Time, prices and settings stand still, and u keeps its category.        *)
StandsStill(u) ==
    /\ worldVars' = worldVars /\ adminVars' = adminVars
    /\ userEMode'[u] = userEMode[u]

LEMMA SecuredGrows ==
    ASSUME TypeOK, TypeOK', IndexesStand, NEW u \in Accounts, StandsStill(u),
           NEW a \in Assets, aBalance[a][u] <= aBalance'[a][u]
    PROVE  Secured(u, a) <= Secured(u, a)'
<1> DEFINE index == NormalizedIncome(a)
           p == PriceFor(userEMode[u], a)
           t == ThresholdFor(userEMode[u], a)
           m == aBalance[a][u]
           n == aBalance'[a][u]
           Worth(k) == DivFloor(ATokenBalance(k, index) * p, AssetUnit[a])
<1>1. /\ index \in Nat /\ p \in Nat /\ t \in Nat /\ AssetUnit[a] \in Nat \ {0}
      /\ m \in Nat /\ n \in Nat
  BY CallIndexes, PositionParameters, ValuesAreTyped, StorageAssumption
     DEF TypeOK, LedgersOK, ValuesTyped
<1>2. /\ PriceFor(userEMode[u], a)' = p
      /\ ThresholdFor(userEMode[u], a)' = t
  BY DEF StandsStill, worldVars, adminVars, PriceFor, ThresholdFor, isInEModeCategory
<1>3. NormalizedIncome(a)' = index
  BY IndexesStay
<1>4. Secured(u, a) = Worth(m) * t /\ Secured(u, a)' = Worth(n) * t
  BY <1>2, <1>3 DEF Secured, UserBalanceInBase, ATokenBalanceOf
<1>5. m <= n
  OBVIOUS
<1> HIDE DEF index, p, t, m, n
<1>6. ATokenBalance(m, index) <= ATokenBalance(n, index)
  <2>1. m * index <= n * index /\ m * index \in Nat /\ n * index \in Nat
    BY <1>1, <1>5, ProductMonotone, ProductNat
  <2>2. QED
    BY <2>1, QuotientsGrow, UnitsAssumption DEF ATokenBalance, rayMulFloor
<1>7. ATokenBalance(m, index) \in Nat /\ ATokenBalance(n, index) \in Nat
  BY <1>1, MultiplyTypes
<1>8. Worth(m) <= Worth(n) /\ Worth(m) \in Nat /\ Worth(n) \in Nat
  <2>1. /\ ATokenBalance(m, index) * p \in Nat /\ ATokenBalance(n, index) * p \in Nat
        /\ ATokenBalance(m, index) * p <= ATokenBalance(n, index) * p
    BY <1>1, <1>6, <1>7, ProductMonotone, ProductNat
  <2>2. QED
    BY <1>1, <2>1, QuotientsGrow, RoundingTypes
<1> HIDE DEF Worth
<1>9. Worth(m) * t <= Worth(n) * t
  BY <1>1, <1>8, ProductMonotone
<1>10. QED
  BY <1>4, <1>9

(* Who owes has a share in the supply of the debt token.                   *)
DebtsAreSupplied ==
    \A u \in Accounts, a \in Assets :
        a \in borrowing[u] => vBalance[a][u] > 0 /\ vSupply[a] # 0

LEMMA DebtIsSupplied ==
    TypeOK /\ BooksBalance /\ BorrowingBitsMatchDebts => DebtsAreSupplied
<1> SUFFICES ASSUME TypeOK, BooksBalance, BorrowingBitsMatchDebts,
                    NEW u \in Accounts, NEW a \in Assets, a \in borrowing[u]
             PROVE  vBalance[a][u] > 0 /\ vSupply[a] # 0
  BY DEF DebtsAreSupplied
<1>1. vBalance[a][u] > 0
  BY DEF BorrowingBitsMatchDebts
<1>2. vBalance[a] \in [Accounts -> Nat] /\ vSupply[a] = TotalOf(vBalance[a])
  BY DEF TypeOK, LedgersOK, BooksBalance
<1>3. vBalance[a][u] <= TotalOf(vBalance[a]) /\ TotalOf(vBalance[a]) \in Nat
  BY <1>2, TotalCovers, TotalIsNatural
<1>4. QED
  BY <1>1, <1>2, <1>3

LEMMA DebtIsSuppliedAfter ==
    TypeOK' /\ BooksBalance' /\ BorrowingBitsMatchDebts' => DebtsAreSupplied'
BY DebtIsSupplied, PTL

(* What the proofs below start from.                                       *)
SoundState ==
    TypeOK /\ BooksBalance /\ BorrowingBitsMatchDebts /\ SoundParameters

LEMMA NextKeepsSound ==
    ASSUME SoundState, [Next]_vars
    PROVE  SoundState'
BY NextSound, NextKeepsBooks, NextKeepsBits, NextKeepsParameters DEF SoundState

LEMMA SoundStep ==
    ASSUME SoundState, SoundState'
    PROVE  TypeOK /\ TypeOK' /\ DebtsAreSupplied /\ DebtsAreSupplied'
BY DebtIsSupplied, DebtIsSuppliedAfter DEF SoundState

(* A debt of before and after is valued at one price and one index.        *)
LEMMA OwedShrinks ==
    ASSUME SoundState, SoundState', IndexesStand, NEW u \in Accounts, StandsStill(u),
           NEW a \in Assets, a \in borrowing[u], a \in borrowing'[u],
           vBalance'[a][u] <= vBalance[a][u]
    PROVE  UserDebtInBase(u, a)' <= UserDebtInBase(u, a)
<1> DEFINE index == NormalizedDebt(a)
           p == PriceFor(userEMode[u], a)
           m == vBalance[a][u]
           n == vBalance'[a][u]
           Worth(k) == DivCeil(p * VTokenBalance(k, index), AssetUnit[a])
<1>0. TypeOK /\ TypeOK' /\ DebtsAreSupplied /\ DebtsAreSupplied'
  BY SoundStep
<1>1. /\ index \in Nat /\ p \in Nat /\ AssetUnit[a] \in Nat \ {0}
      /\ m \in Nat /\ n \in Nat
  BY <1>0, CallIndexes, PositionParameters, StorageAssumption DEF TypeOK, LedgersOK
<1>2. PriceFor(userEMode[u], a)' = p
  BY DEF StandsStill, worldVars, adminVars, PriceFor, isInEModeCategory
<1>3. NormalizedDebt(a)' = index
  <2>1. vSupply[a] # 0 /\ vSupply'[a] # 0
    BY <1>0 DEF DebtsAreSupplied
  <2>2. QED
    BY <1>0, <2>1, IndexesStay
<1>4. UserDebtInBase(u, a) = Worth(m) /\ UserDebtInBase(u, a)' = Worth(n)
  BY <1>2, <1>3 DEF UserDebtInBase
<1>5. n <= m
  OBVIOUS
<1> HIDE DEF index, p, m, n
<1>6. VTokenBalance(n, index) <= VTokenBalance(m, index)
  <2>1. n * index <= m * index /\ m * index \in Nat /\ n * index \in Nat
    BY <1>1, <1>5, ProductMonotone, ProductNat
  <2>2. QED
    BY <2>1, QuotientsGrow, UnitsAssumption DEF VTokenBalance, rayMulCeil
<1>7. VTokenBalance(m, index) \in Nat /\ VTokenBalance(n, index) \in Nat
  BY <1>1, MultiplyTypes
<1>8. /\ p * VTokenBalance(m, index) \in Nat /\ p * VTokenBalance(n, index) \in Nat
      /\ p * VTokenBalance(n, index) <= p * VTokenBalance(m, index)
  BY <1>1, <1>6, <1>7, ProductMonotone, ProductNat
<1>9. QED
  BY <1>1, <1>4, <1>8, QuotientsGrow

(* Collateral that loses its bit, or aTokens, in the step.                 *)
Weakened(u, a) ==
    /\ a \in usingAsCollateral[u]
    /\ a \notin usingAsCollateral'[u] \/ aBalance'[a][u] < aBalance[a][u]

(* The calls that do this end with the health factor of a user who owes,   *)
(* or hit a user who was not healthy.                                      *)
LEMMA WeakenedIsChecked ==
    ASSUME TypeOK, [Next]_vars, NEW u \in Accounts, NEW a \in Assets, Weakened(u, a),
           Healthy(u), borrowing'[u] # {}
    PROVE  Healthy(u)'
<1>0. /\ usingAsCollateral \in [Accounts -> SUBSET Assets]
      /\ Users \subseteq Accounts /\ Treasury \in Accounts
      /\ HealthFactor(u) \in Nat /\ WAD \in Nat
  <2>1. HealthFactor(u) \in Nat
    <3>1. Weighted(u) \in Nat /\ DebtInBase(u) \in Nat
      BY SumsAreTyped DEF SumsTyped
    <3> DEFINE w == Weighted(u)
               d == DebtInBase(u)
    <3> HIDE DEF w, d
    <3>2. d \in Nat \ {0} => wadDiv(w, d) \div PERCENTAGE_FACTOR \in Nat
      <4>1. ASSUME d \in Nat \ {0} PROVE wadDiv(w, d) \div PERCENTAGE_FACTOR \in Nat
        <5>1. w * WAD \in Nat
          BY <3>1, UnitsAssumption, ProductNat DEF w
        <5>2. wadDiv(w, d) \in Nat
          BY <4>1, <5>1, RoundingTypes DEF wadDiv
        <5>3. QED
          BY <5>2, UnitsAssumption, RoundingTypes DEF DivFloor
      <4>2. QED
        BY <4>1
    <3>3. QED
      BY <3>1, <3>2, HealthIs, StorageAssumption DEF w, d
  <2>2. QED
    BY <2>1, UnitsAssumption DEF TypeOK, AccountsOK, Accounts
<1>1. ASSUME NEW v \in Users, NEW n \in Nat, Withdraw(u, a, n, v)
      PROVE  Healthy(u)'
  BY <1>1 DEF Withdraw, ValidHFAndLtv, isBorrowingAny, Weakened
<1>2. ASSUME NEW v \in Users, NEW n \in Nat, Transfer(u, a, n, v), u # v, n # 0
      PROVE  Healthy(u)'
  BY <1>2 DEF Transfer, ValidHFAndLtv, isBorrowingAny, Weakened
<1>3. ASSUME NEW n \in Nat, RepayWithATokens(u, a, n)
      PROVE  Healthy(u)'
  BY <1>3 DEF RepayWithATokens, isBorrowingAny, Weakened
<1>4. ASSUME NEW w \in Users, NEW c \in Assets, NEW d \in Assets, NEW n \in Nat,
             NEW b \in BOOLEAN, LiquidationCall(w, u, c, d, n, b)
      PROVE  FALSE
  <2>1. HealthFactor(u) < WAD
    BY <1>4 DEF LiquidationCall, ValidLiquidationCall
  <2>2. QED
    BY <1>0, <2>1 DEF Healthy
<1>5. CASE aBalance'[a][u] < aBalance[a][u]
  <2>1. TokensTaken(u, a)
    BY <1>5, WhoLosesTokens
  <2>2. CASE \E v \in Users, n \in Nat : Withdraw(u, a, n, v) \/ Transfer(u, a, n, v)
    <3>1. PICK v \in Users, n \in Nat : Withdraw(u, a, n, v) \/ Transfer(u, a, n, v)
      BY <2>2
    <3>2. CASE Withdraw(u, a, n, v)
      BY <1>1, <3>2
    <3>3. CASE Transfer(u, a, n, v)
      <4>1. u # v /\ n # 0
        BY <1>5, <2>1, <3>3, TransferTakes DEF TokensTaken
      <4>2. QED
        BY <1>2, <3>3, <4>1
    <3>4. QED
      BY <3>1, <3>2, <3>3
  <2>3. QED
    BY <1>3, <1>4, <2>1, <2>2 DEF TokensTaken
<1>6. CASE a \notin usingAsCollateral'[u]
  <2>0. a \in usingAsCollateral[u] /\ usingAsCollateral' # usingAsCollateral
    BY <1>6 DEF Weakened
  <2>1. ASSUME NEW x \in Accounts, NEW b \in Assets,
               usingAsCollateral' = WithoutBit(usingAsCollateral, x, b)
        PROVE  x = u /\ b = a
    BY <1>0, <1>6, <2>0, <2>1 DEF WithoutBit
  <2>2. ASSUME NEW x \in Accounts, NEW b \in Assets,
               usingAsCollateral' = WithBit(usingAsCollateral, x, b)
        PROVE  FALSE
    BY <1>0, <1>6, <2>0, <2>2 DEF WithBit
  <2>3. ASSUME NEW x \in Accounts, NEW y \in Accounts, NEW b \in Assets,
               usingAsCollateral' = WithBit(WithoutBit(usingAsCollateral, x, b), y, b)
        PROVE  x = u /\ b = a
    <3>1. WithoutBit(usingAsCollateral, x, b) \in [Accounts -> SUBSET Assets]
      BY <1>0 DEF WithoutBit
    <3>2. a \notin WithoutBit(usingAsCollateral, x, b)[u]
      BY <1>6, <2>3, <3>1 DEF WithBit
    <3>3. QED
      BY <1>0, <2>0, <3>2 DEF WithoutBit
  <2>4. ASSUME NEW x \in Users, NEW v \in Users, NEW b \in Assets, NEW n \in Nat,
               \/ Supply(x, b, n, v) \/ Withdraw(x, b, n, v) \/ Transfer(x, b, n, v)
               \/ Borrow(x, b, n, v) \/ Repay(x, b, n, v) \/ RepayWithATokens(x, b, n)
               \/ ApproveDelegation(x, b, v, n)
        PROVE  Healthy(u)'
    <3>0. x \in Accounts /\ v \in Accounts
      BY <1>0
    <3>1. CASE Supply(x, b, n, v)
      BY <2>0, <2>2, <3>0, <3>1 DEF Supply
    <3>2. CASE Withdraw(x, b, n, v)
      <4>1. usingAsCollateral' = WithoutBit(usingAsCollateral, x, b)
        BY <2>0, <3>2 DEF Withdraw
      <4>2. x = u /\ b = a
        BY <2>1, <3>0, <4>1
      <4>3. QED
        BY <1>1, <3>2, <4>2
    <3>3. CASE Transfer(x, b, n, v)
      <4>1. x # v /\ n # 0
        BY <2>0, <3>3 DEF Transfer
      <4>2. \/ usingAsCollateral' = WithoutBit(usingAsCollateral, x, b)
            \/ usingAsCollateral' = WithBit(usingAsCollateral, v, b)
            \/ usingAsCollateral' = WithBit(WithoutBit(usingAsCollateral, x, b), v, b)
        BY <2>0, <3>3 DEF Transfer, BitsAfterTransfer
      <4>3. x = u /\ b = a
        BY <2>1, <2>2, <2>3, <3>0, <4>2
      <4>4. QED
        BY <1>2, <3>3, <4>1, <4>3
    <3>4. CASE RepayWithATokens(x, b, n)
      <4>1. usingAsCollateral' = WithoutBit(usingAsCollateral, x, b)
        BY <2>0, <3>4 DEF RepayWithATokens
      <4>2. x = u /\ b = a
        BY <2>1, <3>0, <4>1
      <4>3. QED
        BY <1>3, <3>4, <4>2
    <3>5. CASE Borrow(x, b, n, v) \/ Repay(x, b, n, v) \/ ApproveDelegation(x, b, v, n)
      BY <2>0, <3>5 DEF Borrow, ExecuteBorrow, Repay, ApproveDelegation, bitVars
    <3>6. QED
      BY <2>4, <3>1, <3>2, <3>3, <3>4, <3>5
  <2>5. ASSUME NEW x \in Users, NEW b \in Assets, NEW on \in BOOLEAN,
               SetUserUseReserveAsCollateral(x, b, on)
        PROVE  Healthy(u)'
    <3>0. x \in Accounts
      BY <1>0
    <3>1. on = FALSE
      BY <2>2, <2>5, <3>0 DEF SetUserUseReserveAsCollateral
    <3>2. usingAsCollateral' = WithoutBit(usingAsCollateral, x, b)
      BY <2>5, <3>1 DEF SetUserUseReserveAsCollateral
    <3>3. x = u /\ b = a
      BY <2>1, <3>0, <3>2
    <3>4. QED
      BY <2>5, <3>1, <3>3 DEF SetUserUseReserveAsCollateral, ValidHFAndLtv
  <2>6. ASSUME NEW w \in Users, NEW x \in Users, NEW c \in Assets, NEW d \in Assets,
               NEW n \in Nat, NEW b \in BOOLEAN, LiquidationCall(w, x, c, d, n, b)
        PROVE  FALSE
    <3>0. x \in Accounts /\ w \in Accounts
      BY <1>0
    <3>1. \/ usingAsCollateral' = WithoutBit(usingAsCollateral, x, c)
          \/ usingAsCollateral' = WithBit(usingAsCollateral, w, c)
          \/ usingAsCollateral' = WithBit(WithoutBit(usingAsCollateral, x, c), w, c)
      BY <2>0, <2>6 DEF LiquidationCall
    <3>2. x = u
      BY <2>1, <2>2, <2>3, <3>0, <3>1
    <3>3. QED
      BY <1>4, <2>6, <3>2
  <2>7. ASSUME \/ \E b \in Assets : MintToTreasury(b)
               \/ \E x \in Users, c \in Categories \cup {0} : SetUserEMode(x, c)
               \/ UNCHANGED <<ledgerVars, borrowAllowance, bitVars, userEMode>>
        PROVE  FALSE
    BY <2>0, <2>7 DEF MintToTreasury, SetUserEMode, bitVars
  <2>8. QED
    BY <2>4, <2>5, <2>6, <2>7, StepCases
<1>7. QED
  BY <1>5, <1>6 DEF Weakened

(* The average loan to value of u is never above what the thresholds        *)
(* weigh: no loan to value is above its threshold, in a category or out.   *)
LEMMA LtvBelowThreshold ==
    ASSUME TypeOK, SoundParameters, NEW u \in Accounts, CollateralInBase(u) # 0
    PROVE  /\ AverageLtv(u) \in Nat
           /\ CollateralInBase(u) * AverageLtv(u) <= Weighted(u)
<1> DEFINE I == usingAsCollateral[u]
           f == [a \in I |-> UserBalanceInBase(u, a) * LtvFor(userEMode[u], a)]
           h == [a \in I |-> Secured(u, a)]
           c == CollateralInBase(u)
           weighted == SumFunctionOnSet(f, I)
<1>1. I \in SUBSET Assets /\ IsFiniteSet(I)
  BY StorageAssumption, FS_Subset DEF TypeOK, AccountsOK
<1>2. c \in Nat \ {0} /\ Weighted(u) \in Nat
  BY SumsAreTyped DEF SumsTyped
<1>3. ASSUME NEW a \in I
      PROVE  /\ UserBalanceInBase(u, a) * LtvFor(userEMode[u], a) \in Nat
             /\ Secured(u, a) \in Nat
             /\ UserBalanceInBase(u, a) * LtvFor(userEMode[u], a) <= Secured(u, a)
  <2>0. a \in Assets
    BY <1>1
  <2>1. /\ UserBalanceInBase(u, a) \in Nat /\ LtvFor(userEMode[u], a) \in Nat
        /\ ThresholdFor(userEMode[u], a) \in Nat /\ Secured(u, a) \in Nat
        /\ UserBalanceInBase(u, a) * LtvFor(userEMode[u], a) \in Nat
    BY <2>0, ValuesAreTyped DEF ValuesTyped
  <2>2. userEMode[u] \in Categories \cup {0}
    BY DEF TypeOK, AccountsOK
  <2>3. LtvFor(userEMode[u], a) <= ThresholdFor(userEMode[u], a)
    BY <2>0, <2>2 DEF SoundParameters, LtvFor, ThresholdFor, isInEModeCategory
  <2>4. QED
    BY <2>1, <2>3, ProductMonotone DEF Secured
<1>4. \A a \in I : f[a] \in Nat /\ h[a] \in Nat /\ f[a] <= h[a]
  BY <1>3
<1>5. /\ Weighted(u) = SumFunctionOnSet(h, I)
      /\ AverageLtv(u) = weighted \div c
  BY DEF Weighted, AverageLtv, SumFunction
<1> HIDE DEF f, h, c, I
<1>6. weighted <= SumFunctionOnSet(h, I) /\ weighted \in Nat
  BY <1>1, <1>4, SumIsMonotone, SumIsNatural
<1> HIDE DEF weighted
<1>7. /\ DivFloor(weighted, c) \in Nat /\ c * DivFloor(weighted, c) <= weighted
      /\ c * DivFloor(weighted, c) \in Nat
  BY <1>2, <1>6, RoundingTypes, FloorBounds, ProductNat
<1>8. /\ AverageLtv(u) \in Nat /\ c * AverageLtv(u) \in Nat
      /\ c * AverageLtv(u) <= weighted
  BY <1>5, <1>7 DEF DivFloor
<1>9. c * AverageLtv(u) <= Weighted(u)
  BY <1>2, <1>5, <1>6, <1>8
<1>10. QED
  BY <1>8, <1>9 DEF c

(* A debt within the loan to value is covered with room to spare.          *)
LEMMA WithinLtvIsCovered ==
    ASSUME NEW w \in Nat, NEW d \in Nat, d * PERCENTAGE_FACTOR <= w
    PROVE  Covered(w, d)
<1>1. PERCENTAGE_FACTOR \in Nat /\ WAD \in Nat /\ d * PERCENTAGE_FACTOR \in Nat
  BY UnitsAssumption, ProductNat
<1>2. (d * PERCENTAGE_FACTOR) * WAD <= w * WAD
  BY <1>1, ProductMonotone
<1>3. d * (PERCENTAGE_FACTOR * WAD) = (d * PERCENTAGE_FACTOR) * WAD
  BY <1>1
<1>4. d \div 2 \in Nat /\ w * WAD \in Nat /\ (d * PERCENTAGE_FACTOR) * WAD \in Nat
  BY <1>1, ProductNat
<1>5. QED
  BY <1>2, <1>3, <1>4 DEF Covered

(* What validateBorrow lets through is within the loan to value.           *)
LEMMA AllowedIsWithin ==
    ASSUME NEW d \in Nat, NEW e \in Int, d <= e, NEW c \in Nat, NEW ltv \in Nat \ {0},
           percentDivCeil(e, ltv) <= c, NEW w \in Nat, c * ltv <= w
    PROVE  d * PERCENTAGE_FACTOR <= w
<1>1. e \in Nat /\ PERCENTAGE_FACTOR \in Nat
  BY UnitsAssumption
<1> DEFINE s == e * PERCENTAGE_FACTOR
           q == DivCeil(s, ltv)
<1>2. s \in Nat /\ d * PERCENTAGE_FACTOR \in Nat /\ d * PERCENTAGE_FACTOR <= s
  BY <1>1, ProductNat, ProductMonotone
<1>3. q <= c
  BY DEF percentDivCeil
<1> HIDE DEF s
<1>4. q \in Nat /\ s <= ltv * q
  BY <1>2, RoundingTypes, CeilBounds
<1> HIDE DEF q
<1>5. ltv * q <= ltv * c /\ ltv * q \in Nat /\ ltv * c \in Nat /\ ltv * c = c * ltv
  BY <1>3, <1>4, ProductMonotone, ProductNat
<1>6. QED
  BY <1>2, <1>4, <1>5

(* The value of the debt of v after a borrow, as validateBorrow adds it up. *)
LEMMA DebtAfterBorrow ==
    ASSUME SoundState, SoundState', IndexesStand, NEW x \in Users, NEW v \in Users,
           NEW a \in Assets, NEW n \in Nat, NEW released \in Nat,
           ExecuteBorrow(x, a, n, v, released), StandsStill(v)
    PROVE  /\ CollateralInBase(v) # 0 /\ AverageLtv(v) # 0
           /\ \E e \in Int :
                 /\ DebtInBase(v)' <= e
                 /\ percentDivCeil(e, AverageLtv(v)) <= CollateralInBase(v)
<1> DEFINE r == UpdatedReserve(a)
           index == r.variableBorrowIndex
           scaled == VTokenMintScaled(n, index)
           p == PriceFor(userEMode[v], a)
           m == vBalance[a][v]
           InBase(k) == DivCeil(p * VTokenBalance(k, index), AssetUnit[a])
           old == InBase(m)
           new == InBase(m + scaled)
           e == DebtInBase(v) + (new - old)
<1>0. /\ TypeOK /\ TypeOK' /\ DebtsAreSupplied /\ DebtsAreSupplied'
      /\ BorrowingBitsMatchDebts
  BY SoundStep DEF SoundState
<1>1. /\ ValidCollateralForBorrow(v, a, r, scaled)
      /\ vBalance' = Credit(vBalance, a, v, scaled)
      /\ borrowing' = WithBit(borrowing, v, a)
  BY DEF ExecuteBorrow, ValidBorrow
<1>2. /\ v \in Accounts /\ vBalance \in [Assets -> [Accounts -> Nat]] /\ m \in Nat
      /\ borrowing \in [Accounts -> SUBSET Assets]
      /\ index \in Nat \ {0} /\ p \in Nat /\ AssetUnit[a] \in Nat \ {0}
  <2>1. v \in Accounts
    BY DEF Accounts
  <2>2. QED
    BY <1>0, <2>1, CallIndexes, PositionParameters, StorageAssumption
       DEF TypeOK, LedgersOK, AccountsOK
<1>3. /\ CollateralInBase(v) # 0 /\ AverageLtv(v) # 0
      /\ percentDivCeil(e, AverageLtv(v)) <= CollateralInBase(v)
  BY <1>1 DEF ValidCollateralForBorrow
<1>4. scaled \in Nat
  BY <1>2, DivideTypes
<1>5. /\ vBalance'[a][v] = m + scaled
      /\ \A b \in Assets : b # a => vBalance'[b][v] = vBalance[b][v]
      /\ borrowing'[v] = borrowing[v] \cup {a}
  BY <1>1, <1>2 DEF Credit, WithBit
<1>6. NormalizedDebt(a)' = index
  <2>1. vSupply'[a] # 0
    BY <1>0, <1>2, <1>5 DEF DebtsAreSupplied
  <2>2. NormalizedDebt(a)' = UpdatedReserve(a)'.variableBorrowIndex
    BY <1>0, <2>1, IndexesAreSettledAfter DEF IndexesSettled
  <2>3. QED
    BY <2>2 DEF IndexesStand, SameIndexes
<1>7. PriceFor(userEMode[v], a)' = p
  BY DEF StandsStill, worldVars, adminVars, PriceFor, isInEModeCategory
<1>8. UserDebtInBase(v, a)' = new
  BY <1>5, <1>6, <1>7 DEF UserDebtInBase
<1>9. a \in borrowing[v] => UserDebtInBase(v, a) = old
  <2>1. a \in borrowing[v] => NormalizedDebt(a) = index
    BY <1>0, <1>2, IndexesAreSettled DEF IndexesSettled, DebtsAreSupplied
  <2>2. QED
    BY <2>1 DEF UserDebtInBase
<1>10. a \notin borrowing[v] => old = 0
  <2>1. ASSUME a \notin borrowing[v] PROVE old = 0
    <3>1. m = 0
      BY <1>0, <1>2, <2>1 DEF BorrowingBitsMatchDebts
    <3>2. VTokenBalance(m, index) = 0
      BY <1>2, <3>1, NoDebtIsHidden
    <3>3. p * VTokenBalance(m, index) = 0 /\ 0 <= AssetUnit[a] * 0
      BY <1>2, <3>2
    <3>4. DivCeil(0, AssetUnit[a]) <= 0 /\ DivCeil(0, AssetUnit[a]) \in Nat
      BY <1>2, <3>3, QuotientAtMost, RoundingTypes
    <3>5. QED
      BY <3>3, <3>4
  <2>2. QED
    BY <2>1
<1>11. old \in Nat /\ new \in Nat
  <2>1. m + scaled \in Nat
    BY <1>2, <1>4
  <2>2. VTokenBalance(m, index) \in Nat /\ VTokenBalance(m + scaled, index) \in Nat
    BY <1>2, <2>1, MultiplyTypes
  <2>3. p * VTokenBalance(m, index) \in Nat /\ p * VTokenBalance(m + scaled, index) \in Nat
    BY <1>2, <2>2, ProductNat
  <2>4. QED
    BY <1>2, <2>3, RoundingTypes
<1> DEFINE I == borrowing[v]
           after == borrowing'[v]
           J == I \ {a}
           f == [b \in I |-> UserDebtInBase(v, b)]
           h == [b \in after |-> UserDebtInBase(v, b)']
<1>12. /\ I \in SUBSET Assets /\ IsFiniteSet(I) /\ after \in SUBSET Assets
       /\ IsFiniteSet(after) /\ IsFiniteSet(J)
  <2>1. I \in SUBSET Assets /\ after \in SUBSET Assets /\ J \in SUBSET Assets
    BY <1>2, <1>5
  <2> HIDE DEF I, after, J
  <2>2. QED
    BY <2>1, StorageAssumption, FS_Subset
<1>13. /\ DebtInBase(v) = SumFunctionOnSet(f, I)
       /\ DebtInBase(v)' = SumFunctionOnSet(h, after)
  BY DEF DebtInBase, SumFunction
<1>14. /\ \A b \in I : f[b] \in Nat
       /\ \A b \in after : h[b] \in Nat
  <2>1. \A b \in Assets : UserDebtInBase(v, b) \in Nat /\ UserDebtInBase(v, b)' \in Nat
    BY <1>0, <1>2, ValuesAreTyped, ValuesAreTypedAfter DEF ValuesTyped
  <2>2. QED
    BY <1>12, <2>1
<1>15. \A b \in J : h[b] <= f[b]
  <2>1. ASSUME NEW b \in J PROVE h[b] <= f[b]
    <3>1. b \in Assets /\ b # a /\ b \in borrowing[v] /\ b \in borrowing'[v]
      BY <1>5, <1>12
    <3>2. vBalance'[b][v] <= vBalance[b][v]
      <4>1. vBalance[b][v] \in Nat
        BY <1>2, <3>1
      <4>2. QED
        BY <1>5, <3>1, <4>1
    <3>3. UserDebtInBase(v, b)' <= UserDebtInBase(v, b)
      BY <1>2, <3>1, <3>2, OwedShrinks
    <3>4. QED
      BY <3>1, <3>3
  <2>2. QED
    BY <2>1
<1>16. /\ a \in after /\ after \ {a} = J /\ h[a] = new
       /\ a \in I => f[a] = old
       /\ a \notin I => I = J
       /\ J \subseteq I /\ J \subseteq after
  BY <1>5, <1>8, <1>9
<1>17. a \notin I => old = 0
  BY <1>10
<1> HIDE DEF r, index, scaled, p, m, InBase, old, new, I, after, J, f, h
<1>18. DebtInBase(v)' = new + SumFunctionOnSet(h, J)
  BY <1>12, <1>13, <1>14, <1>16, SumTakesOut
<1>19. SumFunctionOnSet(h, J) <= SumFunctionOnSet(f, J)
  <2>1. \A b \in J : h[b] \in Nat /\ f[b] \in Nat /\ h[b] <= f[b]
    BY <1>14, <1>15, <1>16
  <2>2. QED
    BY <1>12, <2>1, SumIsMonotone
<1>20. DebtInBase(v) = old + SumFunctionOnSet(f, J)
  <2>0. SumFunctionOnSet(f, J) \in Nat
    BY <1>12, <1>14, <1>16, SumIsNatural
  <2>1. CASE a \in I
    <3>1. SumFunctionOnSet(f, I) = f[a] + SumFunctionOnSet(f, I \ {a})
      BY <1>12, <1>14, <2>1, SumTakesOut
    <3>2. QED
      BY <1>13, <1>16, <2>1, <3>1 DEF J
  <2>2. CASE a \notin I
    BY <1>13, <1>16, <1>17, <2>0, <2>2
  <2>3. QED
    BY <2>1, <2>2
<1>21. SumFunctionOnSet(h, J) \in Nat /\ SumFunctionOnSet(f, J) \in Nat
  BY <1>12, <1>14, <1>16, SumIsNatural
<1>22. e \in Int /\ DebtInBase(v)' <= e
  BY <1>11, <1>18, <1>19, <1>20, <1>21
<1> HIDE DEF e
<1>23. QED
  BY <1>3, <1>22

LEMMA BorrowIsCovered ==
    ASSUME SoundState, SoundState', IndexesStand, NEW x \in Users, NEW v \in Users,
           NEW a \in Assets, NEW n \in Nat, NEW released \in Nat,
           ExecuteBorrow(x, a, n, v, released), StandsStill(v), Weighted(v) <= Weighted(v)'
    PROVE  Healthy(v)'
<1> DEFINE c == CollateralInBase(v)
           ltv == AverageLtv(v)
           d == DebtInBase(v)'
           w == Weighted(v)
           y == Weighted(v)'
<1>0. v \in Accounts /\ TypeOK /\ TypeOK' /\ SoundParameters
  BY SoundStep DEF SoundState, Accounts
<1>1. PICK e \in Int : d <= e /\ percentDivCeil(e, ltv) <= c
  BY DebtAfterBorrow
<1>2. c # 0 /\ ltv # 0
  BY DebtAfterBorrow
<1>3. ltv \in Nat /\ c * ltv <= w
  BY <1>0, <1>2, LtvBelowThreshold
<1>4. c \in Nat /\ w \in Nat /\ d \in Nat /\ y \in Nat /\ w <= y
  BY <1>0, SumsAreTyped, SumsAreTypedAfter DEF SumsTyped
<1>5. Healthy(v)' <=> Covered(y, d)
  BY <1>0, HealthyIsCoveredAfter DEF HealthIsCover, Covered
<1> HIDE DEF c, ltv, d, w, y
<1>6. d * PERCENTAGE_FACTOR <= w
  BY <1>1, <1>2, <1>3, <1>4, AllowedIsWithin
<1>7. d * PERCENTAGE_FACTOR <= y
  <2>1. d * PERCENTAGE_FACTOR \in Nat
    BY <1>4, UnitsAssumption, ProductNat
  <2>2. QED
    BY <1>4, <1>6, <2>1
<1>8. Covered(y, d)
  BY <1>4, <1>7, WithinLtvIsCovered
<1>9. QED
  BY <1>5, <1>8

(* Who owes nothing is healthy.                                            *)
LEMMA DebtlessIsHealthy ==
    ASSUME TypeOK', NEW u \in Accounts, borrowing'[u] = {}
    PROVE  Healthy(u)'
<1>1. DebtInBase(u)' = SumFunctionOnSet([a \in borrowing'[u] |-> UserDebtInBase(u, a)'],
                                        borrowing'[u])
  BY DEF DebtInBase, SumFunction
<1>2. DebtInBase(u)' = 0
  BY <1>1, SumUnfolds
<1>3. Healthy(u)' <=> Covered(Weighted(u)', DebtInBase(u)')
  BY HealthyIsCoveredAfter DEF HealthIsCover, Covered
<1>4. QED
  BY <1>2, <1>3 DEF Covered

(* The category of a user changes by the user's own call.                  *)
LEMMA CategoryIsChecked ==
    ASSUME TypeOK, [Next]_vars, NEW u \in Accounts, userEMode'[u] # userEMode[u]
    PROVE  Healthy(u)'
<1>1. PICK x \in Users, c \in Categories \cup {0} : SetUserEMode(x, c)
  BY NewCollateral
<1>2. userEMode' = [userEMode EXCEPT ![x] = c] /\ Healthy(x)'
  BY <1>1 DEF SetUserEMode
<1>3. x = u
  BY <1>2 DEF TypeOK, AccountsOK
<1>4. QED
  BY <1>2, <1>3

(* Who keeps all collateral stays healthy when debts shrink, and when one   *)
(* debt is opened, which is checked for its debtor: by a borrow, or by a   *)
(* flash loan that releases nothing any more.                              *)
OneDebtOpened ==
    \E x \in Users, v \in Users, a \in Assets, n \in Nat, released \in Nat :
        ExecuteBorrow(x, a, n, v, released)

LEMMA SecuredStaysHealthy ==
    ASSUME SoundState, SoundState', IndexesStand, NEW u \in Accounts, StandsStill(u),
           ~ \E a \in Assets : Weakened(u, a), DebtsShrink \/ OneDebtOpened, Healthy(u)
    PROVE  Healthy(u)'
<1>0. /\ TypeOK /\ TypeOK' /\ usingAsCollateral[u] \in SUBSET Assets
      /\ aBalance \in [Assets -> [Accounts -> Nat]]
      /\ aBalance' \in [Assets -> [Accounts -> Nat]]
      /\ vBalance \in [Assets -> [Accounts -> Nat]]
      /\ borrowing'[u] \in SUBSET Assets /\ borrowing \in [Accounts -> SUBSET Assets]
      /\ Users \subseteq Accounts
  BY SoundStep DEF TypeOK, LedgersOK, AccountsOK, Accounts
<1>1. ASSUME NEW a \in usingAsCollateral[u]
      PROVE  a \in usingAsCollateral'[u] /\ Secured(u, a) <= Secured(u, a)'
  <2>1. a \in Assets /\ ~Weakened(u, a)
    BY <1>0
  <2>2. a \in usingAsCollateral'[u] /\ ~(aBalance'[a][u] < aBalance[a][u])
    BY <2>1 DEF Weakened
  <2>3. aBalance[a][u] <= aBalance'[a][u]
    BY <1>0, <2>1, <2>2
  <2>4. QED
    BY <1>0, <2>1, <2>2, <2>3, SecuredGrows
<1>2. Weighted(u) <= Weighted(u)'
  BY <1>0, <1>1, WeightGrows
<1>3. ASSUME borrowing'[u] \subseteq borrowing[u],
             \A a \in Assets : vBalance'[a][u] <= vBalance[a][u]
      PROVE  Healthy(u)'
  <2>1. \A a \in borrowing'[u] : UserDebtInBase(u, a)' <= UserDebtInBase(u, a)
    BY <1>0, <1>3, OwedShrinks
  <2>2. DebtInBase(u)' <= DebtInBase(u)
    BY <1>0, <1>3, <2>1, DebtShrinks
  <2>3. QED
    BY <1>0, <1>2, <2>2, BetterIsHealthy
<1>4. CASE DebtsShrink
  BY <1>3, <1>4 DEF DebtsShrink
<1>5. ASSUME NEW x \in Users, NEW v \in Users, NEW a \in Assets, NEW n \in Nat,
             NEW released \in Nat, ExecuteBorrow(x, a, n, v, released)
      PROVE  Healthy(u)'
  <2>1. CASE u = v
    BY <1>2, <1>5, <2>1, BorrowIsCovered
  <2>2. CASE u # v
    <3>1. PICK scaled : /\ vBalance' = Credit(vBalance, a, v, scaled)
                        /\ borrowing' = WithBit(borrowing, v, a)
      BY <1>5 DEF ExecuteBorrow
    <3>2. borrowing'[u] = borrowing[u]
      BY <1>0, <2>2, <3>1 DEF WithBit
    <3>3. ASSUME NEW b \in Assets PROVE vBalance'[b][u] <= vBalance[b][u]
      <4>1. vBalance'[b][u] = vBalance[b][u] /\ vBalance[b][u] \in Nat
        BY <1>0, <2>2, <3>1 DEF Credit
      <4>2. QED
        BY <4>1
    <3>4. QED
      BY <1>3, <3>2, <3>3
  <2>3. QED
    BY <2>1, <2>2
<1>6. QED
  BY <1>4, <1>5 DEF OneDebtOpened

LEMMA NextKeepsHealthy ==
    ASSUME SoundState, [Next]_vars, worldVars' = worldVars, adminVars' = adminVars,
           NEW u \in Accounts, Healthy(u)
    PROVE  Healthy(u)'
<1>0. SoundState' /\ TypeOK /\ TypeOK' /\ IndexesStand
  BY NextKeepsSound, SoundStep, NextKeepsIndexes DEF worldVars
<1>1. CASE userEMode'[u] # userEMode[u]
  BY <1>0, <1>1, CategoryIsChecked
<1>2. CASE borrowing'[u] = {}
  BY <1>0, <1>2, DebtlessIsHealthy
<1>3. CASE borrowing'[u] # {} /\ \E a \in Assets : Weakened(u, a)
  BY <1>0, <1>3, WeakenedIsChecked
<1>4. CASE userEMode'[u] = userEMode[u] /\ ~ \E a \in Assets : Weakened(u, a)
  <2>1. StandsStill(u)
    BY <1>4 DEF StandsStill
  <2>2. DebtsShrink \/ OneDebtOpened
    BY <1>0, OnlyBorrowsAddDebt DEF Borrow, OneDebtOpened
  <2>3. QED
    BY <1>0, <1>4, <2>1, <2>2, SecuredStaysHealthy
<1>5. QED
  BY <1>1, <1>2, <1>3, <1>4

(* While prices, time and settings stand still nobody is made liquidatable *)
(* by a call, whoever makes it: what is checked on one user's position at  *)
(* the rounded values of that call holds for every other user as well.     *)
THEOREM HealthIsKept == Spec => HealthyStaysHealthy
<1>1. /\ TypeOK /\ BooksBalance /\ BorrowingBitsMatchDebts /\ SoundParameters
      /\ [Next]_vars
      => [worldVars' = worldVars /\ adminVars' = adminVars
            => \A u \in Users : Healthy(u) => Healthy(u)']_vars
  <2> SUFFICES ASSUME SoundState, [Next]_vars, worldVars' = worldVars,
                      adminVars' = adminVars, NEW u \in Users, Healthy(u)
               PROVE  Healthy(u)'
    BY DEF SoundState
  <2>1. u \in Accounts
    BY DEF Accounts
  <2>2. QED
    BY <2>1, NextKeepsHealthy
<1>2. QED
  BY <1>1, TypeCorrect, BooksStayBalanced, BitsAreDebts, ParametersStaySound, PTL
  DEF Spec, HealthyStaysHealthy

-----------------------------------------------------------------------------
(* What an unhealthy user owes can be liquidated.                          *)

(* Offering a debt in full gets a liquidator past the close factor with an *)
(* amount that burns something of it.                                      *)
LEMMA FullOfferBurns ==
    ASSUME TypeOK, NEW u \in Accounts, NEW a \in Assets, vBalance[a][u] > 0,
           NEW index \in Nat \ {0}
    PROVE  DebtBurnScaled(u, a, DebtToLiquidate(u, a,
               VTokenBalance(vBalance[a][u], index), index), index) # 0
<1> DEFINE debt == VTokenBalance(vBalance[a][u], index)
           closeFactor == IF HealthFactor(u) > CLOSE_FACTOR_HF_THRESHOLD
                            THEN DEFAULT_LIQUIDATION_CLOSE_FACTOR
                            ELSE PERCENTAGE_FACTOR
           maxDebt == percentMul(debt, closeFactor)
           actual == IF debt > maxDebt THEN maxDebt ELSE debt
           paid == DebtToLiquidate(u, a, debt, index)
<1>1. vBalance[a][u] \in Nat /\ vBalance[a][u] # 0
  BY DEF TypeOK, LedgersOK
<1>2. debt \in Nat /\ closeFactor \in Nat
  <2>1. VTokenBalance(vBalance[a][u], index) \in Nat
    BY <1>1, MultiplyTypes
  <2>2. closeFactor \in Nat
    BY LiquidationAssumption, UnitsAssumption
  <2>3. QED
    BY <2>1, <2>2
<1>3. paid = IF actual < debt /\ debt >= debt /\ VTokenBurnScaled(actual, index) = 0
               THEN debt ELSE actual
  BY DEF DebtToLiquidate
<1>4. maxDebt \in Nat
  <2> HIDE DEF debt, closeFactor
  <2>1. QED
    BY <1>2, MultiplyTypes
<1>5. DebtBurnScaled(u, a, paid, index) = IF paid >= debt THEN vBalance[a][u]
                                          ELSE VTokenBurnScaled(paid, index)
  BY DEF DebtBurnScaled
<1> HIDE DEF debt, maxDebt, paid
<1>6. actual \in Nat /\ actual <= debt
  BY <1>2, <1>4
<1> HIDE DEF actual
<1>7. ASSUME paid = debt PROVE DebtBurnScaled(u, a, paid, index) # 0
  BY <1>1, <1>2, <1>5, <1>7
<1>8. ASSUME paid # debt PROVE DebtBurnScaled(u, a, paid, index) # 0
  <2>1. paid = actual /\ actual < debt /\ VTokenBurnScaled(actual, index) # 0
    BY <1>2, <1>3, <1>6, <1>8
  <2>2. QED
    BY <1>2, <1>5, <1>6, <2>1
<1>9. QED
  BY <1>7, <1>8 DEF debt, paid

(* Of a debt no more is paid for than was offered.                         *)
LEMMA NoMoreThanOffered ==
    ASSUME TypeOK, NEW u \in Accounts, NEW a \in Assets, NEW offer \in Nat,
           NEW index \in Nat \ {0}
    PROVE  /\ DebtToLiquidate(u, a, offer, index) \in Nat
           /\ DebtToLiquidate(u, a, offer, index) <= offer
<1> DEFINE debt == VTokenBalance(vBalance[a][u], index)
           closeFactor == IF HealthFactor(u) > CLOSE_FACTOR_HF_THRESHOLD
                            THEN DEFAULT_LIQUIDATION_CLOSE_FACTOR
                            ELSE PERCENTAGE_FACTOR
           maxDebt == percentMul(debt, closeFactor)
           actual == IF offer > maxDebt THEN maxDebt ELSE offer
<1>1. DebtToLiquidate(u, a, offer, index) \in Nat
  BY DebtToLiquidateType DEF TypeOK
<1>2. debt \in Nat /\ maxDebt \in Nat
  <2>0. vBalance[a][u] \in Nat
    BY DEF TypeOK, LedgersOK
  <2>1. debt \in Nat
    BY <2>0, MultiplyTypes
  <2>2. closeFactor \in Nat
    BY LiquidationAssumption, UnitsAssumption
  <2> HIDE DEF debt, closeFactor
  <2>3. QED
    BY <2>1, <2>2, MultiplyTypes
<1>3. DebtToLiquidate(u, a, offer, index) =
         IF actual < debt /\ offer >= debt /\ VTokenBurnScaled(actual, index) = 0
           THEN debt ELSE actual
  BY DEF DebtToLiquidate
<1> HIDE DEF debt, maxDebt
<1>4. QED
  BY <1>1, <1>2, <1>3

(* A factor that is not zero can be cancelled.                             *)
LEMMA CancelFactor ==
    ASSUME NEW m \in Nat \ {0}, NEW p \in Nat, NEW q \in Nat, m * p <= m * q
    PROVE  p <= q
<1> SUFFICES ASSUME q + 1 <= p PROVE FALSE
  OBVIOUS
<1>1. m * (q + 1) <= m * p
  BY ProductMonotone
<1>2. m * (q + 1) = m * q + m /\ m * q \in Nat /\ m * p \in Nat
  BY ProductNat
<1>3. QED
  BY <1>1, <1>2

(* When the debt buys more than the collateral there is, the debt that     *)
(* collateral pays for, rounded down and then up, is no more than it.      *)
LEMMA NeedAtMostCover ==
    ASSUME NEW pc \in Nat \ {0}, NEW pd \in Nat \ {0}, NEW uc \in Nat \ {0},
           NEW ud \in Nat \ {0}, NEW cover \in Nat, NEW balance \in Nat,
           NEW bonus \in Nat \ {0},
           balance <= percentMulFloor((pd * cover * uc) \div (pc * ud), bonus)
    PROVE  percentDivCeil((pc * balance * ud) \div (pd * uc), bonus) <= cover
<1> DEFINE L == pd * uc
           B == pc * balance * ud
           z == B \div L
<1>1. L \in Nat \ {0} /\ B \in Nat /\ PERCENTAGE_FACTOR \in Nat
  <2>1. pd * uc \in Nat /\ pd * uc # 0 /\ pc * balance \in Nat
    BY ProductNat
  <2>2. QED
    BY <2>1, ProductNat, UnitsAssumption
<1>2. B * PERCENTAGE_FACTOR <= pd * cover * uc * bonus
  BY BoughtWorthPaid
<1>3. pd * cover * uc * bonus = L * (cover * bonus)
  OBVIOUS
<1> HIDE DEF L, B
<1>4. z \in Nat /\ L * z <= B
  BY <1>1, RoundingTypes, FloorBounds DEF DivFloor
<1> HIDE DEF z
<1>5. L * (z * PERCENTAGE_FACTOR) <= L * (cover * bonus)
  <2>1. L * (z * PERCENTAGE_FACTOR) = (L * z) * PERCENTAGE_FACTOR
    BY <1>1, <1>4
  <2>2. (L * z) * PERCENTAGE_FACTOR <= B * PERCENTAGE_FACTOR
    BY <1>1, <1>4, ProductNat, ProductMonotone
  <2> DEFINE p == (L * z) * PERCENTAGE_FACTOR
             q == B * PERCENTAGE_FACTOR
             r == L * (cover * bonus)
  <2>3. p \in Nat /\ q \in Nat /\ r \in Nat
    BY <1>1, <1>4, ProductNat
  <2>4. p <= q /\ q <= r
    BY <1>2, <1>3, <2>2
  <2> HIDE DEF p, q, r
  <2>5. p <= r
    BY <2>3, <2>4
  <2>6. QED
    BY <2>1, <2>5 DEF p, r
<1>6. z * PERCENTAGE_FACTOR <= bonus * cover
  <2>1. z * PERCENTAGE_FACTOR \in Nat /\ cover * bonus \in Nat
    BY <1>1, <1>4, ProductNat
  <2>2. z * PERCENTAGE_FACTOR <= cover * bonus
    BY <1>1, <1>5, <2>1, CancelFactor
  <2>3. cover * bonus = bonus * cover
    OBVIOUS
  <2>4. QED
    BY <2>2, <2>3
<1>7. z * PERCENTAGE_FACTOR \in Nat
  BY <1>1, <1>4, ProductNat
<1>8. QED
  BY <1>6, <1>7, QuotientAtMost DEF percentDivCeil, z, B, L

(* What is worth at most a balance is, in scaled units and rounded up, in  *)
(* that balance.                                                           *)
LEMMA WorthIsInBalance ==
    ASSUME NEW scaled \in Nat, NEW index \in Nat \ {0}, NEW amount \in Nat,
           amount <= ATokenBalance(scaled, index)
    PROVE  ATokenTransferScaled(amount, index) <= scaled
<1> DEFINE worth == DivFloor(scaled * index, RAY)
<1>1. scaled * index \in Nat /\ RAY \in Nat \ {0}
  BY ProductNat, UnitsAssumption
<1>2. worth \in Nat /\ RAY * worth <= scaled * index
  BY <1>1, RoundingTypes, FloorBounds
<1>3. amount <= worth
  BY DEF ATokenBalance, rayMulFloor
<1> HIDE DEF worth
<1>4. RAY * amount <= RAY * worth
  BY <1>1, <1>2, <1>3, ProductMonotone
<1>5. amount * RAY = RAY * amount /\ scaled * index = index * scaled
  BY <1>1
<1>6. amount * RAY \in Nat /\ RAY * worth \in Nat
  BY <1>1, <1>2, ProductNat
<1>7. amount * RAY <= index * scaled
  BY <1>1, <1>2, <1>4, <1>5, <1>6
<1>8. QED
  BY <1>6, <1>7, QuotientAtMost DEF ATokenTransferScaled, rayDivCeil

(* A liquidation out of a balance pays for no more than the debt it is     *)
(* given, and collateral and fee are in the balance.                       *)
LEMMA AvailableFits ==
    ASSUME TypeOK, NEW u \in Users, NEW c \in Assets, NEW d \in Assets,
           NEW cover \in Nat, LiquidationBonus(u, c) # 0,
           NEW out, out = AvailableCollateral(u, c, d, cover, ATokenBalanceOf(u, c))
    PROVE  /\ out.collateral \in Nat /\ out.fee \in Nat /\ out.debt \in Nat
           /\ out.debt <= cover
           /\ out.collateral <= ATokenBalanceOf(u, c)
<1> DEFINE balance == ATokenBalanceOf(u, c)
           max == MaxCollateral(u, c, d, cover)
           taken == IF max > balance THEN balance ELSE max
<1>1. balance \in Nat /\ max \in Nat
  BY LiquidationTypes
<1>2. u \in Accounts
  BY DEF Accounts
<1>3. out.collateral \in Nat /\ out.fee \in Nat /\ out.debt \in Nat
  BY <1>1, <1>2, AvailableCollateralTypes
<1>4. /\ out.collateral = taken - out.fee
      /\ out.debt = IF max > balance THEN DebtNeeded(u, c, d, balance) ELSE cover
  BY DEF AvailableCollateral, MaxCollateral, DebtNeeded
<1>5. max > balance => DebtNeeded(u, c, d, balance) <= cover
  <2>1. /\ PriceFor(userEMode[u], c) \in Nat \ {0} /\ PriceFor(userEMode[u], d) \in Nat \ {0}
        /\ AssetUnit[c] \in Nat \ {0} /\ AssetUnit[d] \in Nat \ {0}
        /\ LiquidationBonus(u, c) \in Nat \ {0}
    BY LiquidationTypes
  <2>2. max > balance => balance <= max
    BY <1>1
  <2> HIDE DEF balance
  <2>3. QED
    BY <1>1, <2>1, <2>2, NeedAtMostCover DEF MaxCollateral, DebtNeeded
<1> HIDE DEF max
<1>6. taken \in Nat /\ taken <= balance
  BY <1>1
<1>7. out.collateral <= balance
  <2> HIDE DEF taken, balance
  <2>1. QED
    BY <1>1, <1>3, <1>4, <1>6
<1>8. QED
  BY <1>3, <1>4, <1>5, <1>7

(* Seizure and fee, in scaled units, are in the scaled balance.            *)
LEMMA TakenIsInBalance ==
    ASSUME TypeOK, NEW u \in Users, NEW c \in Assets, NEW out,
           out.collateral \in Nat, out.fee \in Nat, out.collateral <= ATokenBalanceOf(u, c)
    PROVE  TakenScaled(u, c, out) <= aBalance[c][u]
<1> DEFINE index == NormalizedIncome(c)
           seized == ATokenTransferScaled(out.collateral, index)
           left == aBalance[c][u] - seized
           fee == IF out.fee = 0 THEN 0 ELSE FeeScaled(out.fee, left, index)
<1>1. aBalance[c][u] \in Nat /\ index \in Nat \ {0}
  BY CallIndexes DEF TypeOK, LedgersOK, Accounts
<1>2. seized \in Nat /\ seized <= aBalance[c][u]
  <2>1. seized \in Nat
    BY <1>1, DivideTypes
  <2>2. seized <= aBalance[c][u]
    BY <1>1, WorthIsInBalance DEF ATokenBalanceOf
  <2>3. QED
    BY <2>1, <2>2
<1> HIDE DEF seized
<1>3. left \in Nat /\ seized + left = aBalance[c][u]
  BY <1>1, <1>2
<1> HIDE DEF left
<1>4. fee \in Nat /\ fee <= left
  <2> HIDE DEF index
  <2>1. FeeScaled(out.fee, left, index) \in Nat /\ FeeScaled(out.fee, left, index) <= left
    BY <1>1, <1>3, FeeFits
  <2>2. QED
    BY <1>3, <2>1
<1>5. TakenScaled(u, c, out) = seized + fee
  BY DEF TakenScaled, seized, left
<1> HIDE DEF fee
<1>6. QED
  BY <1>2, <1>3, <1>4, <1>5

(* A debt with a bit is a debt that a full offer burns, and every offer    *)
(* can be served out of every collateral.                                  *)
LEMMA DebtsCanBeLiquidated ==
    TypeOK /\ BorrowingBitsMatchDebts => UnhealthyCanBeLiquidated
<1> SUFFICES ASSUME TypeOK, BorrowingBitsMatchDebts, NEW u \in Users, NEW d \in borrowing[u]
             PROVE  LET index == NormalizedDebt(d)
                        debt == VTokenBalance(vBalance[d][u], index)
                    IN  /\ DebtBurnScaled(u, d, DebtToLiquidate(u, d, debt, index), index) # 0
                        /\ \A c \in usingAsCollateral[u], offer \in 1..debt :
                              LiquidationBonus(u, c) # 0 =>
                                LET out == AvailableCollateral(u, c, d,
                                               DebtToLiquidate(u, d, offer, index),
                                               ATokenBalanceOf(u, c))
                                IN  /\ out.debt <= offer
                                    /\ TakenScaled(u, c, out) <= aBalance[c][u]
  BY DEF UnhealthyCanBeLiquidated
<1> DEFINE index == NormalizedDebt(d)
           debt == VTokenBalance(vBalance[d][u], index)
<1>1. u \in Accounts /\ d \in Assets /\ usingAsCollateral[u] \subseteq Assets
  BY DEF TypeOK, AccountsOK, Accounts
<1>2. vBalance[d][u] > 0 /\ index \in Nat \ {0}
  BY <1>1, CallIndexes DEF BorrowingBitsMatchDebts
<1>3. DebtBurnScaled(u, d, DebtToLiquidate(u, d, debt, index), index) # 0
  BY <1>1, <1>2, FullOfferBurns
<1>4. debt \in Nat
  <2>1. vBalance[d][u] \in Nat
    BY <1>1 DEF TypeOK, LedgersOK
  <2>2. QED
    BY <1>2, <2>1, MultiplyTypes
<1>5. ASSUME NEW c \in usingAsCollateral[u], NEW offer \in 1..debt,
             LiquidationBonus(u, c) # 0,
             NEW out, out = AvailableCollateral(u, c, d,
                                DebtToLiquidate(u, d, offer, index), ATokenBalanceOf(u, c))
      PROVE  out.debt <= offer /\ TakenScaled(u, c, out) <= aBalance[c][u]
  <2> DEFINE cover == DebtToLiquidate(u, d, offer, index)
  <2>1. c \in Assets /\ offer \in Nat
    BY <1>1, <1>4
  <2>2. cover \in Nat /\ cover <= offer
    BY <1>1, <1>2, <2>1, NoMoreThanOffered
  <2>3. out = AvailableCollateral(u, c, d, cover, ATokenBalanceOf(u, c))
    BY <1>5
  <2> HIDE DEF cover
  <2>4. /\ out.collateral \in Nat /\ out.fee \in Nat /\ out.debt \in Nat
        /\ out.debt <= cover /\ out.collateral <= ATokenBalanceOf(u, c)
    BY <1>1, <1>5, <2>1, <2>2, <2>3, AvailableFits
  <2>5. QED
    BY <2>1, <2>2, <2>4, TakenIsInBalance
<1> HIDE DEF index, debt
<1>6. QED
  BY <1>3, <1>5 DEF index, debt

(* In every reachable state the arithmetic of a liquidation is not what    *)
(* keeps an unhealthy user from being liquidated.  However little is owed, *)
(* a debt offered in full is not halved to nothing; no offer is charged    *)
(* more than it is; and seizure and fee, both rounded up, are in the       *)
(* balance they are taken from.                                            *)
THEOREM UnhealthyIsLiquidatable == Spec => []UnhealthyCanBeLiquidated
BY DebtsCanBeLiquidated, TypeCorrect, BitsAreDebts, PTL
=============================================================================
