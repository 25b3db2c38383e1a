----------------------------- MODULE Pool_proofs -----------------------------
(***************************************************************************)
(* Theorems about the pool for every set of users, assets and categories,  *)
(* every amount, price and configuration, and every value of the units.    *)
(***************************************************************************)
EXTENDS PoolProperties, RayMath_proofs

-----------------------------------------------------------------------------
(* The ledgers.                                                            *)

(* A credit keeps a ledger of natural numbers one.                         *)
LEMMA CreditTypes ==
    ASSUME NEW f \in [Assets -> [Accounts -> Nat]],
           NEW a \in Assets, NEW u \in Accounts, NEW n \in Nat
    PROVE  Credit(f, a, u, n) \in [Assets -> [Accounts -> Nat]]
BY DEF Credit

(* A debit of no more than there is keeps a ledger natural.                *)
LEMMA DebitTypes ==
    ASSUME NEW f \in [Assets -> [Accounts -> Nat]],
           NEW a \in Assets, NEW u \in Accounts, NEW n \in Nat, n <= f[a][u]
    PROVE  Debit(f, a, u, n) \in [Assets -> [Accounts -> Nat]]
<1>1. f[a][u] - n \in Nat
  OBVIOUS
<1>2. QED
  BY <1>1 DEF Debit

(* The bits of an account stay a set of assets.                            *)
LEMMA BitTypes ==
    ASSUME NEW f \in [Accounts -> SUBSET Assets],
           NEW u \in Accounts, NEW a \in Assets
    PROVE  /\ WithBit(f, u, a) \in [Accounts -> SUBSET Assets]
           /\ WithoutBit(f, u, a) \in [Accounts -> SUBSET Assets]
BY DEF WithBit, WithoutBit

-----------------------------------------------------------------------------
(* The reserves.                                                           *)

(* A reserve record as the invariant has it, and one that came later.      *)
SoundReserve(r) ==
    /\ r \in ReserveData
    /\ r.liquidityIndex >= RAY
    /\ r.variableBorrowIndex >= RAY
    /\ r.lastUpdateTimestamp <= now

GrownFrom(r, s) ==
    /\ s.liquidityIndex >= r.liquidityIndex
    /\ s.variableBorrowIndex >= r.variableBorrowIndex
    /\ s.lastUpdateTimestamp >= r.lastUpdateTimestamp

(* The indexes as of now are at least those in the record.                 *)
LEMMA IndexesGrow ==
    ASSUME now \in Nat, NEW r, SoundReserve(r), NEW a, vSupply[a] \in Nat
    PROVE  /\ IncomeOf(r) \in Nat /\ IncomeOf(r) >= r.liquidityIndex
           /\ DebtIndexOf(r) \in Nat /\ DebtIndexOf(r) >= r.variableBorrowIndex
           /\ NextLiquidityIndex(r) \in Nat
           /\ NextLiquidityIndex(r) >= r.liquidityIndex
           /\ NextVariableBorrowIndex(a, r) \in Nat
           /\ NextVariableBorrowIndex(a, r) >= r.variableBorrowIndex
<1> DEFINE dt == now - r.lastUpdateTimestamp
<1>1. /\ r.liquidityIndex \in Nat /\ r.variableBorrowIndex \in Nat
      /\ r.currentLiquidityRate \in Nat /\ r.currentVariableBorrowRate \in Nat
      /\ dt \in Nat
  BY DEF SoundReserve, ReserveData
<1> HIDE DEF dt
<1>2. /\ rayMul(LinearInterest(r.currentLiquidityRate, dt), r.liquidityIndex) \in Nat
      /\ rayMul(LinearInterest(r.currentLiquidityRate, dt), r.liquidityIndex)
           >= r.liquidityIndex
  BY <1>1, InterestAtLeastOne, MultiplyTypes, GrowthNeverShrinks
<1>3. /\ rayMul(CompoundedInterest(r.currentVariableBorrowRate, dt),
                r.variableBorrowIndex) \in Nat
      /\ rayMul(CompoundedInterest(r.currentVariableBorrowRate, dt),
                r.variableBorrowIndex) >= r.variableBorrowIndex
  BY <1>1, InterestAtLeastOne, MultiplyTypes, GrowthNeverShrinks
<1>4. IncomeOf(r) \in Nat /\ IncomeOf(r) >= r.liquidityIndex
  BY <1>1, <1>2 DEF IncomeOf, dt
<1>5. DebtIndexOf(r) \in Nat /\ DebtIndexOf(r) >= r.variableBorrowIndex
  BY <1>1, <1>3 DEF DebtIndexOf, dt
<1>6. QED
  BY <1>1, <1>4, <1>5 DEF NextLiquidityIndex, NextVariableBorrowIndex

(* Settling a reserve keeps it sound, settles it up to now and moves its   *)
(* indexes only upwards.                                                   *)
LEMMA SettledReserve ==
    ASSUME now \in Nat, SettingsOK, vSupply \in [Assets -> Nat],
           NEW a \in Assets, NEW r, SoundReserve(r)
    PROVE  /\ SoundReserve(UpdatedState(a, r))
           /\ GrownFrom(r, UpdatedState(a, r))
           /\ UpdatedState(a, r).liquidityIndex \in Nat \ {0}
           /\ UpdatedState(a, r).variableBorrowIndex \in Nat \ {0}
<1> DEFINE li == NextLiquidityIndex(r)
           vi == NextVariableBorrowIndex(a, r)
           ta == TreasuryAccrual(a, r)
<1>1. r \in ReserveData /\ r.liquidityIndex \in Nat /\ r.variableBorrowIndex \in Nat
      /\ r.liquidityIndex >= RAY /\ r.variableBorrowIndex >= RAY
      /\ r.lastUpdateTimestamp <= now /\ r.accruedToTreasury \in Nat
  BY DEF SoundReserve, ReserveData
<1>2. vSupply[a] \in Nat
  OBVIOUS
<1>3. /\ li \in Nat /\ li >= r.liquidityIndex
      /\ vi \in Nat /\ vi >= r.variableBorrowIndex
  BY <1>2, IndexesGrow
<1>4. li \in Nat \ {0} /\ vi \in Nat \ {0} /\ li >= RAY /\ vi >= RAY
  BY <1>1, <1>3, UnitsAssumption
<1>5. ta \in Nat
  <2>1. vi - r.variableBorrowIndex \in Nat
    BY <1>1, <1>3
  <2>2. rayMulFloor(vSupply[a], vi - r.variableBorrowIndex) \in Nat
    BY <1>2, <2>1, MultiplyTypes
  <2>3. config[a].reserveFactor \in Nat
    BY UnitsAssumption DEF SettingsOK, ReserveConfiguration
  <2>4. percentMul(rayMulFloor(vSupply[a], vi - r.variableBorrowIndex),
                   config[a].reserveFactor) \in Nat
    BY <2>2, <2>3, MultiplyTypes
  <2>5. QED
    BY <1>4, <2>4, DivideTypes DEF TreasuryAccrual
<1> HIDE DEF li, vi, ta
<1> DEFINE s == UpdatedState(a, r)
<1>6. /\ s = [r EXCEPT !.liquidityIndex = li, !.variableBorrowIndex = vi,
                       !.accruedToTreasury = r.accruedToTreasury + ta,
                       !.lastUpdateTimestamp = now]
  BY DEF UpdatedState, li, vi, ta
<1>7. /\ s \in ReserveData /\ s.liquidityIndex = li /\ s.variableBorrowIndex = vi
      /\ s.lastUpdateTimestamp = now
  <2> HIDE DEF s
  <2>1. r.accruedToTreasury + ta \in Nat
    BY <1>1, <1>5
  <2>2. QED
    BY <1>1, <1>3, <1>6, <2>1 DEF ReserveData
<1> HIDE DEF s
<1>8. SoundReserve(s) /\ GrownFrom(r, s)
      /\ s.liquidityIndex \in Nat \ {0} /\ s.variableBorrowIndex \in Nat \ {0}
  BY <1>1, <1>3, <1>4, <1>7 DEF SoundReserve, GrownFrom
<1>9. QED
  BY <1>8 DEF s

(* The strategy's rates are natural numbers: no subtraction underflows and *)
(* no division is by zero, at any usage.                                   *)
LEMMA RateTypes ==
    ASSUME NEW a \in Assets, NEW debt \in Nat, NEW liquidity \in Nat,
           NEW factor \in 0..PERCENTAGE_FACTOR
    PROVE  /\ InterestRates(a, debt, liquidity, factor).liquidity \in Nat
           /\ InterestRates(a, debt, liquidity, factor).variable \in Nat
<1> DEFINE s == Strategy[a]
           usage == IF debt = 0 THEN 0 ELSE rayDiv(debt, liquidity + debt)
           excess == rayDiv(usage - s.optimalUsageRatio, RAY - s.optimalUsageRatio)
           rate == IF usage > s.optimalUsageRatio
                     THEN s.base + s.slope1 + rayMul(s.slope2, excess)
                     ELSE s.base + rayDiv(rayMul(s.slope1, usage), s.optimalUsageRatio)
           overall == OverallBorrowRate(debt, rate)
<1>1. /\ s.optimalUsageRatio \in Nat \ {0} /\ RAY - s.optimalUsageRatio \in Nat \ {0}
      /\ s.base \in Nat /\ s.slope1 \in Nat /\ s.slope2 \in Nat
  BY StrategyAssumption, UnitsAssumption
<1> HIDE DEF s
<1>2. usage \in Nat
  <2>1. CASE debt = 0
    BY <2>1
  <2>2. CASE debt # 0
    <3>1. liquidity + debt \in Nat \ {0}
      BY <2>2
    <3>2. QED
      BY <2>2, <3>1, DivideTypes
  <2>3. QED
    BY <2>1, <2>2
<1> HIDE DEF usage
<1>3. rate \in Nat
  <2>1. CASE usage > s.optimalUsageRatio
    <3>1. usage - s.optimalUsageRatio \in Nat
      BY <1>1, <1>2, <2>1
    <3>2. excess \in Nat
      BY <1>1, <3>1, DivideTypes
    <3> HIDE DEF excess
    <3>3. rayMul(s.slope2, excess) \in Nat
      BY <1>1, <3>2, MultiplyTypes
    <3>4. QED
      BY <1>1, <2>1, <3>3
  <2>2. CASE ~(usage > s.optimalUsageRatio)
    <3>1. rayMul(s.slope1, usage) \in Nat
      BY <1>1, <1>2, MultiplyTypes
    <3>2. rayDiv(rayMul(s.slope1, usage), s.optimalUsageRatio) \in Nat
      BY <1>1, <3>1, DivideTypes
    <3>3. QED
      BY <1>1, <2>2, <3>2
  <2>3. QED
    BY <2>1, <2>2
<1> HIDE DEF rate
<1>4. overall \in Nat
  <2>1. CASE debt = 0
    BY <2>1 DEF OverallBorrowRate
  <2>2. CASE debt # 0
    <3>1. wadToRay(debt) \in Nat \ {0}
      BY <2>2, StrategyAssumption DEF wadToRay
    <3>2. rayMul(wadToRay(debt), rate) \in Nat
      BY <1>3, <3>1, MultiplyTypes
    <3>3. QED
      BY <2>2, <3>1, <3>2, DivideTypes DEF OverallBorrowRate
  <2>3. QED
    BY <2>1, <2>2
<1> HIDE DEF overall
<1>5. PERCENTAGE_FACTOR - factor \in Nat
  BY UnitsAssumption
<1>6. percentMul(rayMul(overall, usage), PERCENTAGE_FACTOR - factor) \in Nat
  BY <1>2, <1>4, <1>5, MultiplyTypes
<1>7. InterestRates(a, debt, liquidity, factor)
        = [liquidity |-> percentMul(rayMul(overall, usage), PERCENTAGE_FACTOR - factor),
           variable |-> rate]
  BY DEF InterestRates, overall, rate, excess, usage, s
<1>8. QED
  BY <1>3, <1>6, <1>7

(* New rates leave the rest of a reserve as it is.                         *)
LEMMA RatedReserve ==
    ASSUME SettingsOK, NEW a \in Assets, NEW r, SoundReserve(r),
           NEW debt \in Nat, NEW liquidity \in Nat
    PROVE  /\ SoundReserve(WithRates(a, r, debt, liquidity))
           /\ GrownFrom(r, WithRates(a, r, debt, liquidity))
<1> DEFINE total == VTokenBalance(debt, r.variableBorrowIndex)
           factor == config[a].reserveFactor
           rates == InterestRates(a, total, liquidity, factor)
           s == WithRates(a, r, debt, liquidity)
<1>1. r \in ReserveData /\ r.variableBorrowIndex \in Nat /\ r.liquidityIndex \in Nat
      /\ r.lastUpdateTimestamp \in Nat
  BY DEF SoundReserve, ReserveData
<1>2. total \in Nat
  BY <1>1, MultiplyTypes
<1>3. factor \in 0..PERCENTAGE_FACTOR
  BY DEF SettingsOK, ReserveConfiguration
<1> HIDE DEF total, factor
<1>4. rates.liquidity \in Nat /\ rates.variable \in Nat
  BY <1>2, <1>3, RateTypes
<1>5. s = [r EXCEPT !.currentLiquidityRate = rates.liquidity,
                    !.currentVariableBorrowRate = rates.variable]
  BY DEF WithRates, total, factor
<1> HIDE DEF rates, s
<1>6. /\ s \in ReserveData /\ s.liquidityIndex = r.liquidityIndex
      /\ s.variableBorrowIndex = r.variableBorrowIndex
      /\ s.lastUpdateTimestamp = r.lastUpdateTimestamp
  BY <1>1, <1>4, <1>5 DEF ReserveData
<1>7. SoundReserve(s) /\ GrownFrom(r, s)
  BY <1>1, <1>6 DEF SoundReserve, GrownFrom
<1>8. QED
  BY <1>7 DEF s

(* What every call that moves funds does to its reserve.                   *)
LEMMA SettledAndRated ==
    ASSUME now \in Nat, SettingsOK, vSupply \in [Assets -> Nat],
           NEW a \in Assets, NEW r, SoundReserve(r),
           NEW debt \in Nat, NEW liquidity \in Nat
    PROVE  LET s == WithRates(a, UpdatedState(a, r), debt, liquidity)
           IN  SoundReserve(s) /\ GrownFrom(r, s)
<1> DEFINE u == UpdatedState(a, r)
           s == WithRates(a, u, debt, liquidity)
<1>1. SoundReserve(u) /\ GrownFrom(r, u)
  BY SettledReserve
<1> HIDE DEF u
<1>2. SoundReserve(s) /\ GrownFrom(u, s)
  BY <1>1, RatedReserve
<1> HIDE DEF s
<1>3. GrownFrom(r, s)
  BY <1>1, <1>2 DEF GrownFrom, SoundReserve, ReserveData
<1>4. QED
  BY <1>2, <1>3 DEF s, u

(* Isolated debt is bookkeeping of its own: it moves no index.             *)
LEMMA IsolatedDebtKeepsReserves ==
    ASSUME NEW rs \in [Assets -> ReserveData], \A c \in Assets : SoundReserve(rs[c]),
           NEW u, NEW a \in Assets, NEW n \in Nat
    PROVE  /\ \A c \in Assets : /\ SoundReserve(WithIsolatedDebtRepaid(rs, u, a, n)[c])
                                /\ GrownFrom(rs[c], WithIsolatedDebtRepaid(rs, u, a, n)[c])
                                /\ SoundReserve(WithIsolatedDebtBorrowed(rs, u, a, n)[c])
                                /\ GrownFrom(rs[c], WithIsolatedDebtBorrowed(rs, u, a, n)[c])
<1> DEFINE units == n \div IsolationUnit[a]
<1>1. units \in Nat
  BY Division, StorageAssumption
<1> HIDE DEF units
<1> SUFFICES ASSUME NEW c \in Assets
             PROVE  /\ SoundReserve(WithIsolatedDebtRepaid(rs, u, a, n)[c])
                    /\ GrownFrom(rs[c], WithIsolatedDebtRepaid(rs, u, a, n)[c])
                    /\ SoundReserve(WithIsolatedDebtBorrowed(rs, u, a, n)[c])
                    /\ GrownFrom(rs[c], WithIsolatedDebtBorrowed(rs, u, a, n)[c])
  OBVIOUS
<1> DEFINE r == rs[c]
           debt == r.isolationModeTotalDebt
<1>2. r \in ReserveData /\ debt \in Nat
  BY DEF SoundReserve, ReserveData
<1>3. ASSUME NEW m \in Nat, NEW s, s = [r EXCEPT !.isolationModeTotalDebt = m]
      PROVE  SoundReserve(s) /\ GrownFrom(r, s)
  <2>1. /\ s \in ReserveData /\ s.liquidityIndex = r.liquidityIndex
        /\ s.variableBorrowIndex = r.variableBorrowIndex
        /\ s.lastUpdateTimestamp = r.lastUpdateTimestamp
        /\ r.liquidityIndex \in Nat /\ r.variableBorrowIndex \in Nat
        /\ r.lastUpdateTimestamp \in Nat
    BY <1>2, <1>3 DEF ReserveData
  <2>2. QED
    BY <2>1 DEF SoundReserve, GrownFrom
<1>4. GrownFrom(r, r)
  BY <1>2 DEF GrownFrom, ReserveData
<1>5. (IF debt <= units THEN 0 ELSE debt - units) \in Nat /\ debt + units \in Nat
  BY <1>1, <1>2
<1>6. \/ WithIsolatedDebtRepaid(rs, u, a, n)[c] = r
      \/ WithIsolatedDebtRepaid(rs, u, a, n)[c]
           = [r EXCEPT !.isolationModeTotalDebt =
                          IF debt <= units THEN 0 ELSE debt - units]
  BY DEF WithIsolatedDebtRepaid, units
<1>7. \/ WithIsolatedDebtBorrowed(rs, u, a, n)[c] = r
      \/ WithIsolatedDebtBorrowed(rs, u, a, n)[c]
           = [r EXCEPT !.isolationModeTotalDebt = debt + units]
  BY DEF WithIsolatedDebtBorrowed, units
<1>8. SoundReserve(r)
  OBVIOUS
<1> HIDE DEF r, debt
<1>9. /\ SoundReserve(WithIsolatedDebtRepaid(rs, u, a, n)[c])
      /\ GrownFrom(r, WithIsolatedDebtRepaid(rs, u, a, n)[c])
  BY <1>3, <1>4, <1>5, <1>6, <1>8
<1>10. /\ SoundReserve(WithIsolatedDebtBorrowed(rs, u, a, n)[c])
       /\ GrownFrom(r, WithIsolatedDebtBorrowed(rs, u, a, n)[c])
  BY <1>3, <1>4, <1>5, <1>7, <1>8
<1>11. QED
  BY <1>9, <1>10 DEF r

(* rs may follow reserve: every record is sound and grown from its own.    *)
SoundSuccessor(rs) ==
    /\ rs \in [Assets -> ReserveData]
    /\ \A c \in Assets : SoundReserve(rs[c]) /\ GrownFrom(reserve[c], rs[c])

(* Growth of a reserve record composes.                                    *)
LEMMA GrowthIsTransitive ==
    ASSUME NEW r \in ReserveData, NEW s \in ReserveData, NEW t \in ReserveData,
           GrownFrom(r, s), GrownFrom(s, t)
    PROVE  GrownFrom(r, t) /\ GrownFrom(r, r)
BY DEF GrownFrom, ReserveData

(* A call that leaves the reserves alone lets no index fall.               *)
LEMMA ReserveFollowsItself ==
    ASSUME ReservesOK
    PROVE  SoundSuccessor(reserve)
BY DEF ReservesOK, SoundSuccessor, SoundReserve, GrownFrom, ReserveData

(* A call settles and rates one reserve...                                 *)
LEMMA OneReserveSettled ==
    ASSUME TypeOK, NEW rs, SoundSuccessor(rs), NEW a \in Assets,
           NEW debt \in Nat, NEW liquidity \in Nat
    PROVE  SoundSuccessor([rs EXCEPT ![a] =
                              WithRates(a, UpdatedState(a, rs[a]), debt, liquidity)])
<1> DEFINE s == WithRates(a, UpdatedState(a, rs[a]), debt, liquidity)
<1>1. SoundReserve(rs[a]) /\ rs \in [Assets -> ReserveData]
  BY DEF SoundSuccessor
<1>2. SoundReserve(s) /\ GrownFrom(rs[a], s)
  BY <1>1, SettledAndRated DEF TypeOK, LedgersOK, WorldOK
<1> HIDE DEF s
<1>3. s \in ReserveData /\ rs[a] \in ReserveData
  BY <1>1, <1>2 DEF SoundReserve
<1>4. reserve[a] \in ReserveData /\ GrownFrom(reserve[a], rs[a])
  BY DEF TypeOK, ReservesOK, SoundSuccessor
<1>5. GrownFrom(reserve[a], s)
  BY <1>2, <1>3, <1>4, GrowthIsTransitive
<1>6. SoundSuccessor([rs EXCEPT ![a] = s])
  BY <1>1, <1>2, <1>3, <1>5 DEF SoundSuccessor
<1>7. QED
  BY <1>6 DEF s

(* ... and may move the isolated debt of another.                          *)
LEMMA IsolatedDebtMoved ==
    ASSUME ReservesOK, NEW rs, SoundSuccessor(rs),
           NEW u, NEW a \in Assets, NEW n \in Nat
    PROVE  /\ SoundSuccessor(WithIsolatedDebtRepaid(rs, u, a, n))
           /\ SoundSuccessor(WithIsolatedDebtBorrowed(rs, u, a, n))
<1> DEFINE repaid == WithIsolatedDebtRepaid(rs, u, a, n)
           borrowed == WithIsolatedDebtBorrowed(rs, u, a, n)
<1>1. rs \in [Assets -> ReserveData] /\ \A c \in Assets : SoundReserve(rs[c])
  BY DEF SoundSuccessor
<1>2. \A c \in Assets : /\ SoundReserve(repaid[c]) /\ GrownFrom(rs[c], repaid[c])
                        /\ SoundReserve(borrowed[c]) /\ GrownFrom(rs[c], borrowed[c])
  BY <1>1, IsolatedDebtKeepsReserves
<1>3. /\ repaid = [c \in Assets |-> repaid[c]]
      /\ borrowed = [c \in Assets |-> borrowed[c]]
  BY DEF WithIsolatedDebtRepaid, WithIsolatedDebtBorrowed
<1> HIDE DEF repaid, borrowed
<1>4. \A c \in Assets : /\ repaid[c] \in ReserveData /\ borrowed[c] \in ReserveData
                        /\ rs[c] \in ReserveData /\ reserve[c] \in ReserveData
                        /\ GrownFrom(reserve[c], rs[c])
  BY <1>1, <1>2 DEF SoundReserve, ReservesOK, SoundSuccessor
<1>5. \A c \in Assets : /\ GrownFrom(reserve[c], repaid[c])
                        /\ GrownFrom(reserve[c], borrowed[c])
  BY <1>2, <1>4, GrowthIsTransitive
<1>6. repaid \in [Assets -> ReserveData] /\ borrowed \in [Assets -> ReserveData]
  BY <1>3, <1>4
<1>7. SoundSuccessor(repaid) /\ SoundSuccessor(borrowed)
  BY <1>2, <1>5, <1>6 DEF SoundSuccessor
<1>8. QED
  BY <1>7 DEF repaid, borrowed

(* A sound successor may become the reserves of the next state.            *)
LEMMA SuccessorIsSound ==
    ASSUME SoundSuccessor(reserve'), now' = now
    PROVE  ReservesOK' /\ IndexesNeverFallStep
BY DEF SoundSuccessor, ReservesOK, SoundReserve, GrownFrom, IndexesNeverFallStep

(* So may the reserves that were there before.                             *)
LEMMA UnchangedReserves ==
    ASSUME ReservesOK, UNCHANGED <<reserve, now>>
    PROVE  ReservesOK' /\ IndexesNeverFallStep
BY DEF ReservesOK, IndexesNeverFallStep, ReserveData

(* The indexes every call works with.                                      *)
LEMMA CallIndexes ==
    ASSUME TypeOK, NEW a \in Assets
    PROVE  /\ SoundReserve(UpdatedReserve(a))
           /\ UpdatedReserve(a).liquidityIndex \in Nat \ {0}
           /\ UpdatedReserve(a).variableBorrowIndex \in Nat \ {0}
           /\ UpdatedReserve(a).liquidityIndex >= RAY
           /\ UpdatedReserve(a).variableBorrowIndex >= RAY
           /\ NormalizedIncome(a) \in Nat \ {0} /\ NormalizedIncome(a) >= RAY
           /\ NormalizedDebt(a) \in Nat \ {0} /\ NormalizedDebt(a) >= RAY
<1>1. SoundReserve(reserve[a]) /\ now \in Nat /\ SettingsOK /\ vSupply \in [Assets -> Nat]
  BY DEF TypeOK, ReservesOK, LedgersOK, WorldOK, SoundReserve
<1>2. /\ SoundReserve(UpdatedReserve(a))
      /\ UpdatedReserve(a).liquidityIndex \in Nat \ {0}
      /\ UpdatedReserve(a).variableBorrowIndex \in Nat \ {0}
  BY <1>1, SettledReserve DEF UpdatedReserve
<1>3. /\ IncomeOf(reserve[a]) \in Nat /\ IncomeOf(reserve[a]) >= reserve[a].liquidityIndex
      /\ DebtIndexOf(reserve[a]) \in Nat
      /\ DebtIndexOf(reserve[a]) >= reserve[a].variableBorrowIndex
  BY <1>1, IndexesGrow
<1>4. /\ reserve[a].liquidityIndex \in Nat /\ reserve[a].liquidityIndex >= RAY
      /\ reserve[a].variableBorrowIndex \in Nat /\ reserve[a].variableBorrowIndex >= RAY
  BY <1>1 DEF SoundReserve, ReserveData
<1>5. QED
  BY <1>2, <1>3, <1>4, UnitsAssumption DEF NormalizedIncome, NormalizedDebt, SoundReserve

-----------------------------------------------------------------------------
(* Every call keeps the type invariant and lets no index fall.             *)

(* supply: mints what the amount is worth, rounded down.                   *)
LEMMA SupplySound ==
    ASSUME TypeOK, NEW caller \in Users, NEW v \in Users, NEW a \in Assets,
           NEW amount \in Nat, Supply(caller, a, amount, v)
    PROVE  TypeOK' /\ IndexesNeverFallStep
<1> DEFINE r == UpdatedReserve(a)
           scaled == ATokenMintScaled(amount, r.liquidityIndex)
<1>1. caller \in Accounts /\ v \in Accounts
  BY DEF Accounts
<1>2. LedgersOK /\ AccountsOK
  BY DEF TypeOK
<1>3. scaled \in Nat
  BY CallIndexes, DivideTypes
<1> HIDE DEF scaled
<1>4. LedgersOK'
  <2>1. aBalance' \in [Assets -> [Accounts -> Nat]]
    BY <1>1, <1>2, <1>3, CreditTypes DEF Supply, LedgersOK, scaled
  <2>2. aSupply' \in [Assets -> Nat]
    BY <1>2, <1>3 DEF Supply, LedgersOK, scaled
  <2>3. wallet' \in [Assets -> [Accounts -> Nat]]
    <3>1. amount <= wallet[a][caller] /\ wallet' = Debit(wallet, a, caller, amount)
      BY <1>1, <1>2 DEF Supply, LedgersOK
    <3>2. QED
      BY <1>1, <1>2, <3>1, DebitTypes DEF LedgersOK
  <2>4. cash' \in [Assets -> Nat]
    BY <1>2 DEF Supply, LedgersOK
  <2>5. QED
    BY <1>2, <2>1, <2>2, <2>3, <2>4 DEF Supply, LedgersOK
<1>5. AccountsOK'
  <2>1. usingAsCollateral' \in [Accounts -> SUBSET Assets]
    BY <1>1, <1>2, BitTypes DEF Supply, AccountsOK
  <2>2. QED
    BY <1>2, <2>1 DEF Supply, AccountsOK
<1>6. SettingsOK' /\ WorldOK' /\ now' = now
  BY DEF Supply, TypeOK, SettingsOK, WorldOK, adminVars, worldVars
<1>7. SoundSuccessor(reserve')
  <2>1. vSupply[a] \in Nat /\ cash[a] + amount \in Nat
    BY <1>2 DEF LedgersOK
  <2>2. reserve' = [reserve EXCEPT ![a] = WithRates(a, UpdatedState(a, reserve[a]),
                                                   vSupply[a], cash[a] + amount)]
    BY DEF Supply, UpdatedReserve
  <2>3. SoundSuccessor(reserve)
    BY ReserveFollowsItself DEF TypeOK
  <2>4. QED
    BY <2>1, <2>2, <2>3, OneReserveSettled
<1>8. QED
  BY <1>4, <1>5, <1>6, <1>7, SuccessorIsSound DEF TypeOK

(* withdraw: the burn, at most the balance and the supply, and the payout, *)
(* at most the cash, underflow nothing.                                    *)
LEMMA WithdrawSound ==
    ASSUME TypeOK, NEW caller \in Users, NEW to \in Users, NEW a \in Assets,
           NEW requested \in Nat, Withdraw(caller, a, requested, to)
    PROVE  TypeOK' /\ IndexesNeverFallStep
<1> DEFINE r == UpdatedReserve(a)
           balance == ATokenBalance(aBalance[a][caller], r.liquidityIndex)
           amount == IF requested = MAX_UINT THEN balance ELSE requested
           scaled == ATokenBurnScaled(amount, r.liquidityIndex)
<1>1. caller \in Accounts /\ to \in Accounts
  BY DEF Accounts
<1>2. LedgersOK /\ AccountsOK
  BY DEF TypeOK
<1>3. amount \in Nat
  <2>1. aBalance[a][caller] \in Nat /\ r.liquidityIndex \in Nat
    BY <1>1, <1>2, CallIndexes DEF LedgersOK
  <2>2. balance \in Nat
    BY <2>1, MultiplyTypes
  <2> HIDE DEF balance
  <2>3. QED
    BY <2>2
<1> HIDE DEF amount
<1>4. scaled \in Nat
  BY <1>3, CallIndexes, DivideTypes
<1> HIDE DEF scaled
<1>5. /\ amount <= cash[a]
      /\ scaled <= aBalance[a][caller] /\ scaled <= aSupply[a]
      /\ aBalance' = Debit(aBalance, a, caller, scaled)
      /\ aSupply' = [aSupply EXCEPT ![a] = @ - scaled]
      /\ cash' = [cash EXCEPT ![a] = @ - amount]
      /\ wallet' = Credit(wallet, a, to, amount)
  BY DEF Withdraw, Burnable, scaled, amount
<1>6. LedgersOK'
  <2>1. aBalance' \in [Assets -> [Accounts -> Nat]]
    BY <1>1, <1>2, <1>4, <1>5, DebitTypes DEF LedgersOK
  <2>2. wallet' \in [Assets -> [Accounts -> Nat]]
    BY <1>1, <1>2, <1>3, <1>5, CreditTypes DEF LedgersOK
  <2>3. aSupply' \in [Assets -> Nat] /\ cash' \in [Assets -> Nat]
    BY <1>2, <1>3, <1>4, <1>5 DEF LedgersOK
  <2>4. QED
    BY <1>2, <2>1, <2>2, <2>3 DEF Withdraw, LedgersOK
<1>7. AccountsOK'
  <2>1. usingAsCollateral' \in [Accounts -> SUBSET Assets]
    BY <1>1, <1>2, BitTypes DEF Withdraw, AccountsOK
  <2>2. QED
    BY <1>2, <2>1 DEF Withdraw, AccountsOK
<1>8. SettingsOK' /\ WorldOK' /\ now' = now
  BY DEF Withdraw, TypeOK, SettingsOK, WorldOK, adminVars, worldVars
<1>9. SoundSuccessor(reserve')
  <2>1. vSupply[a] \in Nat /\ cash[a] - amount \in Nat
    BY <1>2, <1>3, <1>5 DEF LedgersOK
  <2>2. reserve' = [reserve EXCEPT ![a] = WithRates(a, UpdatedState(a, reserve[a]),
                                                   vSupply[a], cash[a] - amount)]
    BY DEF Withdraw, UpdatedReserve, amount
  <2>3. SoundSuccessor(reserve)
    BY ReserveFollowsItself DEF TypeOK
  <2>4. QED
    BY <2>1, <2>2, <2>3, OneReserveSettled
<1>10. QED
  BY <1>6, <1>7, <1>8, <1>9, SuccessorIsSound DEF TypeOK

(* transfer: what leaves one balance enters the other.                     *)
LEMMA TransferSound ==
    ASSUME TypeOK, NEW from \in Users, NEW to \in Users, NEW a \in Assets,
           NEW amount \in Nat, Transfer(from, a, amount, to)
    PROVE  TypeOK' /\ IndexesNeverFallStep
<1> DEFINE scaled == ATokenTransferScaled(amount, NormalizedIncome(a))
<1>1. from \in Accounts /\ to \in Accounts
  BY DEF Accounts
<1>2. LedgersOK /\ AccountsOK /\ ReservesOK
  BY DEF TypeOK
<1>3. scaled \in Nat
  BY CallIndexes, DivideTypes
<1> HIDE DEF scaled
<1>4. /\ scaled <= aBalance[a][from]
      /\ aBalance' = Credit(Debit(aBalance, a, from, scaled), a, to, scaled)
      /\ UNCHANGED <<reserve, now, aSupply, vBalance, vSupply, cash, wallet>>
  BY DEF Transfer, scaled, worldVars
<1>5. LedgersOK'
  <2>1. Debit(aBalance, a, from, scaled) \in [Assets -> [Accounts -> Nat]]
    BY <1>1, <1>2, <1>3, <1>4, DebitTypes DEF LedgersOK
  <2>2. aBalance' \in [Assets -> [Accounts -> Nat]]
    BY <1>1, <1>3, <1>4, <2>1, CreditTypes
  <2>3. QED
    BY <1>2, <1>4, <2>2 DEF LedgersOK
<1>6. AccountsOK'
  <2>1. usingAsCollateral \in [Accounts -> SUBSET Assets]
    BY <1>2 DEF AccountsOK
  <2>2. WithoutBit(usingAsCollateral, from, a) \in [Accounts -> SUBSET Assets]
    BY <1>1, <2>1, BitTypes
  <2>3. BitsAfterTransfer(from, to, a, scaled) \in [Accounts -> SUBSET Assets]
    BY <1>1, <2>1, <2>2, BitTypes DEF BitsAfterTransfer
  <2>4. usingAsCollateral' \in [Accounts -> SUBSET Assets]
    BY <2>1, <2>3 DEF Transfer, scaled
  <2>5. QED
    BY <1>2, <2>4 DEF Transfer, AccountsOK
<1>7. SettingsOK' /\ WorldOK'
  BY DEF Transfer, TypeOK, SettingsOK, WorldOK, adminVars, worldVars
<1>8. QED
  BY <1>2, <1>4, <1>5, <1>6, <1>7, UnchangedReserves DEF TypeOK

(* setUserUseReserveAsCollateral: only a bit changes.                      *)
LEMMA CollateralSwitchSound ==
    ASSUME TypeOK, NEW u \in Users, NEW a \in Assets, NEW on \in BOOLEAN,
           SetUserUseReserveAsCollateral(u, a, on)
    PROVE  TypeOK' /\ IndexesNeverFallStep
<1>1. u \in Accounts
  BY DEF Accounts
<1>2. usingAsCollateral' \in [Accounts -> SUBSET Assets]
  BY <1>1, BitTypes DEF SetUserUseReserveAsCollateral, TypeOK, AccountsOK
<1>3. UNCHANGED <<reserve, ledgerVars, borrowAllowance, borrowing, userEMode,
                  adminVars, worldVars>>
  BY DEF SetUserUseReserveAsCollateral
<1>4. /\ AccountsOK' /\ LedgersOK' /\ SettingsOK' /\ WorldOK'
      /\ UNCHANGED <<reserve, now>>
  BY <1>2, <1>3 DEF TypeOK, AccountsOK, LedgersOK, SettingsOK, WorldOK, ledgerVars,
                    adminVars, worldVars
<1>5. QED
  BY <1>4, UnchangedReserves DEF TypeOK

(* borrow: the realised debt increase is never negative and the allowance  *)
(* spent never more than there is.                                         *)
LEMMA ExecuteBorrowSound ==
    ASSUME TypeOK, NEW caller \in Users, NEW v \in Users, NEW a \in Assets,
           NEW amount \in Nat, NEW released \in Nat,
           ExecuteBorrow(caller, a, amount, v, released)
    PROVE  TypeOK' /\ IndexesNeverFallStep
<1> DEFINE r == UpdatedReserve(a)
           scaled == VTokenMintScaled(amount, r.variableBorrowIndex)
           increase == RealizedDebtIncrease(a, r, v, scaled)
           spent == AllowanceSpent(borrowAllowance[a][v][caller], increase)
           settled == [reserve EXCEPT
                         ![a] = WithRates(a, r, vSupply[a] + scaled, cash[a] - released)]
<1>1. caller \in Accounts /\ v \in Accounts
  BY DEF Accounts
<1>2. LedgersOK /\ AccountsOK
  BY DEF TypeOK
<1>3. scaled \in Nat
  BY CallIndexes, DivideTypes
<1>4. increase \in Nat
  <2>1. r.variableBorrowIndex \in Nat \ {0} /\ vBalance[a][v] \in Nat
    BY <1>1, <1>2, CallIndexes DEF LedgersOK
  <2> HIDE DEF r, scaled
  <2>2. VTokenBalance(vBalance[a][v], r.variableBorrowIndex)
          <= VTokenBalance(vBalance[a][v] + scaled, r.variableBorrowIndex)
    BY <1>3, <2>1, DebtIsMonotone
  <2> DEFINE later == vBalance[a][v] + scaled
  <2>3. later \in Nat
    BY <1>3, <2>1
  <2> HIDE DEF later
  <2>4. VTokenBalance(later, r.variableBorrowIndex) \in Nat
    BY <2>1, <2>3, MultiplyTypes
  <2>5. /\ VTokenBalance(vBalance[a][v], r.variableBorrowIndex) \in Nat
        /\ VTokenBalance(vBalance[a][v] + scaled, r.variableBorrowIndex) \in Nat
    BY <2>1, <2>4, MultiplyTypes DEF later
  <2>6. QED
    BY <2>2, <2>5 DEF RealizedDebtIncrease
<1> HIDE DEF scaled, increase
<1>5. /\ released <= cash[a]
      /\ vBalance' = Credit(vBalance, a, v, scaled)
      /\ vSupply' = [vSupply EXCEPT ![a] = @ + scaled]
      /\ cash' = [cash EXCEPT ![a] = @ - released]
      /\ wallet' = Credit(wallet, a, caller, released)
      /\ borrowing' = WithBit(borrowing, v, a)
      /\ \/ borrowAllowance' = borrowAllowance
         \/ borrowAllowance' = [borrowAllowance EXCEPT ![a][v][caller] = @ - spent]
      /\ reserve' = WithIsolatedDebtBorrowed(settled, v, a, increase)
      /\ UNCHANGED <<aBalance, aSupply, usingAsCollateral, userEMode,
                     adminVars, worldVars>>
  BY DEF ExecuteBorrow, scaled, increase
<1>6. LedgersOK'
  <2>1. vBalance' \in [Assets -> [Accounts -> Nat]]
    BY <1>1, <1>2, <1>3, <1>5, CreditTypes DEF LedgersOK
  <2>2. wallet' \in [Assets -> [Accounts -> Nat]]
    BY <1>1, <1>2, <1>5, CreditTypes DEF LedgersOK
  <2>3. vSupply' \in [Assets -> Nat] /\ cash' \in [Assets -> Nat]
    BY <1>2, <1>3, <1>5 DEF LedgersOK
  <2>4. QED
    BY <1>2, <1>5, <2>1, <2>2, <2>3 DEF LedgersOK
<1>7. AccountsOK'
  <2>1. borrowing' \in [Accounts -> SUBSET Assets]
    BY <1>1, <1>2, <1>5, BitTypes DEF AccountsOK
  <2>2. borrowAllowance' \in [Assets -> [Accounts -> [Accounts -> Nat]]]
    <3>1. borrowAllowance[a][v][caller] \in Nat
      BY <1>1, <1>2 DEF AccountsOK
    <3>2. spent \in Nat /\ spent <= borrowAllowance[a][v][caller]
      BY <1>4, <3>1 DEF AllowanceSpent
    <3>3. borrowAllowance[a][v][caller] - spent \in Nat
      BY <3>1, <3>2
    <3> HIDE DEF spent
    <3>4. [borrowAllowance EXCEPT ![a][v][caller] = @ - spent]
            \in [Assets -> [Accounts -> [Accounts -> Nat]]]
      BY <1>1, <1>2, <3>3 DEF AccountsOK
    <3>5. QED
      BY <1>2, <1>5, <3>4 DEF AccountsOK
  <2>3. QED
    BY <1>2, <1>5, <2>1, <2>2 DEF AccountsOK
<1>8. SettingsOK' /\ WorldOK' /\ now' = now
  BY <1>5 DEF TypeOK, SettingsOK, WorldOK, adminVars, worldVars
<1>9. SoundSuccessor(reserve')
  <2>1. vSupply[a] + scaled \in Nat /\ cash[a] - released \in Nat
    BY <1>2, <1>3, <1>5 DEF LedgersOK
  <2>2. SoundSuccessor(reserve)
    BY ReserveFollowsItself DEF TypeOK
  <2>3. SoundSuccessor(settled)
    BY <2>1, <2>2, OneReserveSettled DEF UpdatedReserve
  <2> HIDE DEF settled
  <2>4. QED
    BY <1>4, <1>5, <2>3, IsolatedDebtMoved DEF TypeOK
<1>10. QED
  BY <1>6, <1>7, <1>8, <1>9, SuccessorIsSound DEF TypeOK

LEMMA BorrowSound ==
    ASSUME TypeOK, NEW caller \in Users, NEW v \in Users, NEW a \in Assets,
           NEW amount \in Nat, Borrow(caller, a, amount, v)
    PROVE  TypeOK' /\ IndexesNeverFallStep
BY ExecuteBorrowSound DEF Borrow

(* approveDelegation: only an allowance changes.                           *)
LEMMA ApproveDelegationSound ==
    ASSUME TypeOK, NEW u \in Users, NEW v \in Users, NEW a \in Assets,
           NEW amount \in Nat, ApproveDelegation(u, a, v, amount)
    PROVE  TypeOK' /\ IndexesNeverFallStep
<1>1. u \in Accounts /\ v \in Accounts
  BY DEF Accounts
<1>2. borrowAllowance' \in [Assets -> [Accounts -> [Accounts -> Nat]]]
  BY <1>1 DEF ApproveDelegation, TypeOK, AccountsOK
<1>3. UNCHANGED <<reserve, ledgerVars, bitVars, userEMode, adminVars, worldVars>>
  BY DEF ApproveDelegation
<1>4. /\ AccountsOK' /\ LedgersOK' /\ SettingsOK' /\ WorldOK'
      /\ UNCHANGED <<reserve, now>>
  BY <1>2, <1>3 DEF TypeOK, AccountsOK, LedgersOK, SettingsOK, WorldOK, ledgerVars,
                    bitVars, adminVars, worldVars
<1>5. QED
  BY <1>4, UnchangedReserves DEF TypeOK

(* What a repayment burns is a natural number.                             *)
LEMMA BurnAmountType ==
    ASSUME LedgersOK, NEW u \in Accounts, NEW a \in Assets, NEW amount \in Nat,
           NEW index \in Nat \ {0}
    PROVE  DebtBurnScaled(u, a, amount, index) \in Nat
<1>1. vBalance[a][u] \in Nat /\ VTokenBurnScaled(amount, index) \in Nat
  BY DivideTypes DEF LedgersOK
<1>2. QED
  BY <1>1 DEF DebtBurnScaled

(* A debt that is partly burnt has not grown.                              *)
LEMMA RepaidIsNatural ==
    ASSUME NEW debt \in Nat, NEW burnt \in Nat, burnt <= debt, NEW index \in Nat
    PROVE  VTokenBalance(debt, index) - VTokenBalance(debt - burnt, index) \in Nat
<1> DEFINE left == debt - burnt
<1>1. left \in Nat /\ debt = left + burnt
  OBVIOUS
<1> HIDE DEF left
<1>2. VTokenBalance(left, index) <= VTokenBalance(left + burnt, index)
  BY <1>1, DebtIsMonotone
<1>3. VTokenBalance(left, index) \in Nat /\ VTokenBalance(debt, index) \in Nat
  BY <1>1, MultiplyTypes
<1>4. QED
  BY <1>1, <1>2, <1>3 DEF left

(* The debt half of a repayment.                                           *)
LEMMA BurnDebtSound ==
    ASSUME TypeOK, NEW u \in Users, NEW a \in Assets, NEW scaled \in Nat,
           NEW added \in Nat, BurnDebt(u, a, UpdatedReserve(a), scaled, added)
    PROVE  /\ vBalance' \in [Assets -> [Accounts -> Nat]]
           /\ vSupply' \in [Assets -> Nat]
           /\ borrowing' \in [Accounts -> SUBSET Assets]
           /\ SoundSuccessor(reserve')
<1> DEFINE r == UpdatedReserve(a)
           before == VTokenBalance(vBalance[a][u], r.variableBorrowIndex)
           after  == VTokenBalance(vBalance[a][u] - scaled, r.variableBorrowIndex)
           settled == [reserve EXCEPT
                         ![a] = WithRates(a, r, vSupply[a] - scaled, cash[a] + added)]
<1>1. LedgersOK /\ AccountsOK /\ u \in Accounts
  BY DEF TypeOK, Accounts
<1>2. /\ scaled <= vBalance[a][u] /\ scaled <= vSupply[a]
      /\ vBalance' = Debit(vBalance, a, u, scaled)
      /\ vSupply' = [vSupply EXCEPT ![a] = @ - scaled]
      /\ \/ borrowing' = borrowing
         \/ borrowing' = WithoutBit(borrowing, u, a)
      /\ reserve' = WithIsolatedDebtRepaid(settled, u, a, before - after)
  BY DEF BurnDebt, Burnable
<1>3. vBalance' \in [Assets -> [Accounts -> Nat]]
  BY <1>1, <1>2, DebitTypes DEF LedgersOK
<1>4. vSupply' \in [Assets -> Nat]
  BY <1>1, <1>2 DEF LedgersOK
<1>5. borrowing' \in [Accounts -> SUBSET Assets]
  BY <1>1, <1>2, BitTypes DEF AccountsOK
<1>6. SoundSuccessor(settled)
  <2>1. vSupply[a] - scaled \in Nat /\ cash[a] + added \in Nat
    BY <1>1, <1>2 DEF LedgersOK
  <2>2. SoundSuccessor(reserve)
    BY ReserveFollowsItself DEF TypeOK
  <2>3. QED
    BY <2>1, <2>2, OneReserveSettled DEF UpdatedReserve
<1>7. before - after \in Nat
  <2>1. vBalance[a][u] \in Nat /\ r.variableBorrowIndex \in Nat
    BY <1>1, CallIndexes DEF LedgersOK
  <2> HIDE DEF r
  <2>2. QED
    BY <1>2, <2>1, RepaidIsNatural
<1> HIDE DEF settled, before, after
<1>8. SoundSuccessor(reserve')
  BY <1>2, <1>6, <1>7, IsolatedDebtMoved DEF TypeOK
<1>9. QED
  BY <1>3, <1>4, <1>5, <1>8

(* repay: the payback is at most what the caller holds.                    *)
LEMMA RepaySound ==
    ASSUME TypeOK, NEW caller \in Users, NEW v \in Users, NEW a \in Assets,
           NEW amount \in Nat, Repay(caller, a, amount, v)
    PROVE  TypeOK' /\ IndexesNeverFallStep
<1> DEFINE r == UpdatedReserve(a)
           debt == VTokenBalance(vBalance[a][v], r.variableBorrowIndex)
           payback == IF amount < debt THEN amount ELSE debt
           scaled == DebtBurnScaled(v, a, payback, r.variableBorrowIndex)
<1>1. caller \in Accounts /\ v \in Accounts /\ LedgersOK /\ AccountsOK
  BY DEF TypeOK, Accounts
<1>2. r.variableBorrowIndex \in Nat \ {0}
  BY CallIndexes
<1>3. payback \in Nat
  <2>1. vBalance[a][v] \in Nat
    BY <1>1 DEF LedgersOK
  <2> HIDE DEF r
  <2>2. debt \in Nat
    BY <1>2, <2>1, MultiplyTypes
  <2> HIDE DEF debt
  <2>3. QED
    BY <2>2
<1>4. scaled \in Nat
  <2> HIDE DEF payback, r
  <2>1. QED
    BY <1>1, <1>2, <1>3, BurnAmountType
<1>5. /\ payback <= wallet[a][caller]
      /\ BurnDebt(v, a, r, scaled, payback)
      /\ wallet' = Debit(wallet, a, caller, payback)
      /\ cash' = [cash EXCEPT ![a] = @ + payback]
      /\ UNCHANGED <<aBalance, aSupply, borrowAllowance, usingAsCollateral, userEMode,
                     adminVars, worldVars>>
  <2>1. wallet[a][caller] \in Nat
    BY <1>1 DEF LedgersOK
  <2>2. QED
    BY <1>3, <2>1 DEF Repay
<1> HIDE DEF payback, scaled
<1>6. /\ vBalance' \in [Assets -> [Accounts -> Nat]] /\ vSupply' \in [Assets -> Nat]
      /\ borrowing' \in [Accounts -> SUBSET Assets] /\ SoundSuccessor(reserve')
  BY <1>3, <1>4, <1>5, BurnDebtSound
<1>7. wallet' \in [Assets -> [Accounts -> Nat]] /\ cash' \in [Assets -> Nat]
  <2> HIDE DEF r, debt
  <2>1. wallet \in [Assets -> [Accounts -> Nat]] /\ cash \in [Assets -> Nat]
    BY <1>1 DEF LedgersOK
  <2>2. Debit(wallet, a, caller, payback) \in [Assets -> [Accounts -> Nat]]
    BY <1>1, <1>3, <1>5, <2>1, DebitTypes
  <2>3. [cash EXCEPT ![a] = @ + payback] \in [Assets -> Nat]
    BY <1>3, <2>1
  <2>4. QED
    BY <1>5, <2>2, <2>3
<1>8. LedgersOK' /\ AccountsOK'
  BY <1>1, <1>5, <1>6, <1>7 DEF LedgersOK, AccountsOK
<1>9. SettingsOK' /\ WorldOK' /\ now' = now
  BY <1>5 DEF TypeOK, SettingsOK, WorldOK, adminVars, worldVars
<1>10. QED
  BY <1>6, <1>8, <1>9, SuccessorIsSound DEF TypeOK

(* repayWithATokens: both tokens burn at most what there is.               *)
LEMMA RepayWithATokensSound ==
    ASSUME TypeOK, NEW u \in Users, NEW a \in Assets, NEW amount \in Nat,
           RepayWithATokens(u, a, amount)
    PROVE  TypeOK' /\ IndexesNeverFallStep
<1> DEFINE r == UpdatedReserve(a)
           debt == VTokenBalance(vBalance[a][u], r.variableBorrowIndex)
           held == ATokenBalance(aBalance[a][u], r.liquidityIndex)
           offered == IF amount = MAX_UINT \/ amount > held THEN held ELSE amount
           payback == IF offered < debt THEN offered ELSE debt
           aScaled == ATokenBurnScaled(payback, r.liquidityIndex)
           scaled == DebtBurnScaled(u, a, payback, r.variableBorrowIndex)
<1>1. u \in Accounts /\ LedgersOK /\ AccountsOK
  BY DEF TypeOK, Accounts
<1>2. r.variableBorrowIndex \in Nat \ {0} /\ r.liquidityIndex \in Nat \ {0}
  BY CallIndexes
<1>3. payback \in Nat
  <2>1. vBalance[a][u] \in Nat /\ aBalance[a][u] \in Nat
    BY <1>1 DEF LedgersOK
  <2> HIDE DEF r
  <2>2. debt \in Nat /\ held \in Nat
    BY <1>2, <2>1, MultiplyTypes
  <2> HIDE DEF debt, held
  <2>3. QED
    BY <2>2
<1>4. scaled \in Nat /\ aScaled \in Nat
  <2> HIDE DEF payback, r
  <2>1. QED
    BY <1>1, <1>2, <1>3, BurnAmountType, DivideTypes
<1>5. /\ aScaled <= aBalance[a][u] /\ aScaled <= aSupply[a]
      /\ BurnDebt(u, a, r, scaled, 0)
      /\ aBalance' = Debit(aBalance, a, u, aScaled)
      /\ aSupply' = [aSupply EXCEPT ![a] = @ - aScaled]
      /\ \/ usingAsCollateral' = usingAsCollateral
         \/ usingAsCollateral' = WithoutBit(usingAsCollateral, u, a)
      /\ UNCHANGED <<cash, wallet, borrowAllowance, userEMode, adminVars, worldVars>>
  BY DEF RepayWithATokens, Burnable
<1> HIDE DEF payback, scaled, aScaled
<1>6. /\ vBalance' \in [Assets -> [Accounts -> Nat]] /\ vSupply' \in [Assets -> Nat]
      /\ borrowing' \in [Accounts -> SUBSET Assets] /\ SoundSuccessor(reserve')
  BY <1>4, <1>5, BurnDebtSound
<1>7. aBalance' \in [Assets -> [Accounts -> Nat]] /\ aSupply' \in [Assets -> Nat]
  BY <1>1, <1>4, <1>5, DebitTypes DEF LedgersOK
<1>8. usingAsCollateral' \in [Accounts -> SUBSET Assets]
  <2>1. usingAsCollateral \in [Accounts -> SUBSET Assets]
    BY <1>1 DEF AccountsOK
  <2>2. WithoutBit(usingAsCollateral, u, a) \in [Accounts -> SUBSET Assets]
    BY <1>1, <2>1, BitTypes
  <2> HIDE DEF r, debt, held, offered
  <2>3. QED
    BY <1>5, <2>1, <2>2
<1>9. LedgersOK' /\ AccountsOK'
  BY <1>1, <1>5, <1>6, <1>7, <1>8 DEF LedgersOK, AccountsOK
<1>10. SettingsOK' /\ WorldOK' /\ now' = now
  BY <1>5 DEF TypeOK, SettingsOK, WorldOK, adminVars, worldVars
<1>11. QED
  BY <1>6, <1>9, <1>10, SuccessorIsSound DEF TypeOK

-----------------------------------------------------------------------------
(* Liquidation.                                                            *)

(* What the debt to liquidate is, is a natural number.                     *)
LEMMA DebtToLiquidateType ==
    ASSUME LedgersOK, NEW u \in Accounts, NEW a \in Assets, NEW debtToCover \in Nat,
           NEW index \in Nat
    PROVE  DebtToLiquidate(u, a, debtToCover, index) \in Nat
<1> DEFINE debt == VTokenBalance(vBalance[a][u], index)
           closeFactor == IF HealthFactor(u) > CLOSE_FACTOR_HF_THRESHOLD
                            THEN DEFAULT_LIQUIDATION_CLOSE_FACTOR
                            ELSE PERCENTAGE_FACTOR
           maxDebt == percentMul(debt, closeFactor)
           actual == IF debtToCover > maxDebt THEN maxDebt ELSE debtToCover
<1>1. debt \in Nat
  <2>1. vBalance[a][u] \in Nat
    BY DEF LedgersOK
  <2>2. QED
    BY <2>1, MultiplyTypes
<1>2. closeFactor \in Nat
  BY LiquidationAssumption, UnitsAssumption
<1> HIDE DEF debt, closeFactor
<1>3. maxDebt \in Nat
  BY <1>1, <1>2, MultiplyTypes
<1> HIDE DEF maxDebt
<1>4. actual \in Nat
  BY <1>3
<1>5. \/ DebtToLiquidate(u, a, debtToCover, index) = debt
      \/ DebtToLiquidate(u, a, debtToCover, index) = actual
  BY DEF DebtToLiquidate, debt, closeFactor, maxDebt, actual
<1> HIDE DEF actual
<1>6. QED
  BY <1>1, <1>4, <1>5

(* Prices and bonuses of a position.                                       *)
LEMMA PositionParameters ==
    ASSUME TypeOK, NEW u \in Accounts, NEW a \in Assets
    PROVE  /\ PriceFor(userEMode[u], a) \in Nat \ {0}
           /\ LiquidationBonus(u, a) \in Bonus
<1>1. /\ userEMode[u] \in Categories \cup {0}
      /\ config[a] \in ReserveConfiguration
      /\ \A c \in Categories : eModeCategories[c] \in EModeCategory
      /\ \A f \in Feeds : price[f] \in Nat \ {0}
  BY DEF TypeOK, AccountsOK, SettingsOK, WorldOK
<1>2. isInEModeCategory(userEMode[u], a) => userEMode[u] \in Categories
  BY <1>1 DEF isInEModeCategory
<1>3. PriceFor(userEMode[u], a) \in Nat \ {0}
  BY <1>1, <1>2 DEF PriceFor, EModeCategory, Feeds
<1>4. LiquidationBonus(u, a) \in Bonus
  BY <1>1, <1>2 DEF LiquidationBonus, EModeCategory, ReserveConfiguration
<1>5. QED
  BY <1>3, <1>4

(* Whichever side limits a liquidation, what the liquidator gets, what the *)
(* liquidator pays and the fee are amounts: the fee is never more than the *)
(* collateral it is cut from, and nothing is divided by a missing bonus.   *)
LEMMA AvailableCollateralTypes ==
    ASSUME TypeOK, NEW u \in Accounts, NEW c \in Assets, NEW d \in Assets,
           NEW toCover \in Nat, NEW balance \in Nat,
           config[c].liquidationProtocolFee # 0 => LiquidationBonus(u, c) # 0
    PROVE  /\ AvailableCollateral(u, c, d, toCover, balance).collateral \in Nat
           /\ AvailableCollateral(u, c, d, toCover, balance).debt \in Nat
           /\ AvailableCollateral(u, c, d, toCover, balance).fee \in Nat
<1> DEFINE cp == PriceFor(userEMode[u], c)
           dp == PriceFor(userEMode[u], d)
           bonus == LiquidationBonus(u, c)
           feeFactor == config[c].liquidationProtocolFee
           Fee(n) == IF feeFactor = 0 THEN 0
                     ELSE percentMulCeil(n - percentDivFloor(n, bonus), feeFactor)
           base == (dp * toCover * AssetUnit[c]) \div (cp * AssetUnit[d])
           maxC == percentMulFloor(base, bonus)
           needBase == (cp * balance * AssetUnit[d]) \div (dp * AssetUnit[c])
           need == percentDivCeil(needBase, bonus)
           taken == IF maxC > balance THEN balance ELSE maxC
           out == AvailableCollateral(u, c, d, toCover, balance)
<1>1. cp \in Nat \ {0} /\ dp \in Nat \ {0} /\ bonus \in Bonus
  BY PositionParameters
<1>2. feeFactor \in 0..PERCENTAGE_FACTOR
  BY DEF TypeOK, SettingsOK, ReserveConfiguration
<1>3. AssetUnit[c] \in Nat \ {0} /\ AssetUnit[d] \in Nat \ {0}
  BY StorageAssumption
<1>4. feeFactor # 0 => bonus # 0
  OBVIOUS
<1>5. out = [collateral |-> taken - Fee(taken),
             debt |-> IF maxC > balance THEN need ELSE toCover,
             fee |-> Fee(taken)]
  BY DEF AvailableCollateral
<1> HIDE DEF cp, dp, bonus, feeFactor, out
<1>6. base \in Nat /\ needBase \in Nat
  <2>1. /\ dp * toCover * AssetUnit[c] \in Nat /\ cp * AssetUnit[d] \in Nat \ {0}
        /\ cp * balance * AssetUnit[d] \in Nat /\ dp * AssetUnit[c] \in Nat \ {0}
    <3>1. dp * toCover \in Nat /\ cp * balance \in Nat
      BY <1>1, ProductNat
    <3>2. cp * AssetUnit[d] \in Nat \ {0} /\ dp * AssetUnit[c] \in Nat \ {0}
      BY <1>1, <1>3
    <3>3. QED
      BY <1>3, <3>1, <3>2, ProductNat
  <2>2. QED
    BY <2>1, Division
<1> HIDE DEF base, needBase
<1>7. maxC \in Nat
  BY <1>1, <1>6, MultiplyTypes DEF Bonus
<1>8. maxC > balance => need \in Nat
  <2>1. CASE bonus = 0
    <3>1. maxC = 0
      BY <1>6, <2>1, UnitsAssumption DEF percentMulFloor, DivFloor
    <3>2. QED
      BY <3>1
  <2>2. CASE bonus # 0
    BY <1>1, <1>6, <2>2, DivideTypes DEF Bonus
  <2>3. QED
    BY <2>1, <2>2
<1> HIDE DEF maxC, need
<1>9. taken \in Nat
  BY <1>7
<1> HIDE DEF taken
<1>10. Fee(taken) \in Nat /\ Fee(taken) <= taken
  <2>1. CASE feeFactor = 0
    BY <1>9, <2>1
  <2>2. CASE feeFactor # 0
    <3> DEFINE principal == percentDivFloor(taken, bonus)
               extra == taken - principal
    <3>1. bonus \in Nat \ {0} /\ bonus > PERCENTAGE_FACTOR
      BY <1>1, <1>4, <2>2, UnitsAssumption DEF Bonus
    <3>2. principal \in Nat /\ principal <= taken
      BY <1>9, <3>1, DivideTypes, PartAtMostWhole
    <3> HIDE DEF principal
    <3>3. extra \in Nat /\ extra <= taken
      BY <1>9, <3>2
    <3> HIDE DEF extra
    <3>4. feeFactor \in Nat
      BY <1>2, UnitsAssumption
    <3>5. percentMulCeil(extra, feeFactor) \in Nat /\ percentMulCeil(extra, feeFactor) <= extra
      BY <1>2, <3>3, <3>4, MultiplyTypes, PartAtMostWhole
    <3>6. Fee(taken) = percentMulCeil(extra, feeFactor)
      BY <2>2 DEF extra, principal
    <3> HIDE DEF Fee
    <3>7. QED
      BY <1>9, <3>3, <3>5, <3>6
  <2>3. QED
    BY <2>1, <2>2
<1> HIDE DEF Fee
<1>11. taken - Fee(taken) \in Nat
  BY <1>9, <1>10
<1>12. (IF maxC > balance THEN need ELSE toCover) \in Nat
  BY <1>8
<1>13. out.collateral \in Nat /\ out.debt \in Nat /\ out.fee \in Nat
  BY <1>5, <1>10, <1>11, <1>12
<1>14. QED
  BY <1>13 DEF out

(* The fee the treasury gets is never more than the seizure left.          *)
LEMMA FeeFits ==
    ASSUME NEW fee \in Nat, NEW left \in Nat, NEW index \in Nat \ {0}
    PROVE  FeeScaled(fee, left, index) \in Nat /\ FeeScaled(fee, left, index) <= left
<1>1. ATokenTransferScaled(fee, index) \in Nat
  BY DivideTypes
<1>2. ATokenBalance(left, index) \in Nat
  BY MultiplyTypes
<1>3. ATokenTransferScaled(ATokenBalance(left, index), index) \in Nat
  BY <1>2, DivideTypes
<1>4. ATokenTransferScaled(ATokenBalance(left, index), index) <= left
  BY DrainAtMost
<1>5. QED
  BY <1>1, <1>3, <1>4 DEF FeeScaled

(* Liquidation, side by side: the debt burnt, the collateral seized, the   *)
(* fee, and the two reserves, which may be the same one.                   *)
LEMMA LiquidationSound ==
    ASSUME TypeOK, NEW w \in Users, NEW u \in Users, NEW c \in Assets, NEW d \in Assets,
           NEW toCover \in Nat, NEW receive \in BOOLEAN,
           LiquidationCall(w, u, c, d, toCover, receive)
    PROVE  TypeOK' /\ IndexesNeverFallStep
<1> DEFINE rd == UpdatedReserve(d)
           debtIndex == rd.variableBorrowIndex
           debt == VTokenBalance(vBalance[d][u], debtIndex)
           balance == ATokenBalanceOf(u, c)
           out == AvailableCollateral(u, c, d, DebtToLiquidate(u, d, toCover, debtIndex),
                                      balance)
           burnt == DebtBurnScaled(u, d, out.debt, debtIndex)
           debtAfter == VTokenBalance(vBalance[d][u] - burnt, debtIndex)
           rated == [reserve EXCEPT ![d] = WithRates(d, rd, vSupply[d] - burnt,
                                                     cash[d] + out.debt)]
           debtSide == WithIsolatedDebtRepaid(rated, u, d, debt - debtAfter)
           vSupplyAfter == [vSupply EXCEPT ![d] = @ - burnt]
           repaidHere == IF c = d THEN out.debt ELSE 0
           index == NormalizedIncome(c)
           seized == ATokenTransferScaled(out.collateral, index)
           left == aBalance[c][u] - seized
           feeScaled == IF out.fee = 0 THEN 0 ELSE FeeScaled(out.fee, left, index)
           afterUser == Debit(aBalance, c, u, seized + feeScaled)
           released == IF receive THEN 0 ELSE out.collateral
           paid == Credit(wallet, c, w, released)
           afterDrain == IF \/ out.collateral + out.fee = balance
                            \/ left = feeScaled
                           THEN WithoutBit(usingAsCollateral, u, c)
                           ELSE usingAsCollateral
<1>1. /\ u \in Accounts /\ w \in Accounts /\ Treasury \in Accounts
      /\ LedgersOK /\ AccountsOK /\ ReservesOK
  BY DEF TypeOK, Accounts
<1>2. debtIndex \in Nat \ {0} /\ index \in Nat \ {0}
  BY CallIndexes
<1>3. /\ config[c].liquidationProtocolFee # 0 => LiquidationBonus(u, c) # 0
      /\ burnt <= vBalance[d][u] /\ burnt <= vSupply[d]
      /\ seized <= aBalance[c][u]
      /\ ~receive => seized <= aSupply[c] /\ out.collateral <= cash[c]
      /\ paid[d][w] >= out.debt
      /\ vBalance' = Debit(vBalance, d, u, burnt)
      /\ vSupply' = vSupplyAfter
      /\ \/ borrowing' = borrowing
         \/ borrowing' = WithoutBit(borrowing, u, d)
      /\ \/ reserve' = debtSide
         \/ /\ ~receive
            /\ reserve' = CollateralReserveAfter(debtSide, c, out.collateral, repaidHere,
                                                vSupplyAfter[c])
      /\ \/ aBalance' = Credit(afterUser, c, Treasury, feeScaled)
         \/ aBalance' = Credit(Credit(afterUser, c, w, seized), c, Treasury, feeScaled)
      /\ \/ aSupply' = aSupply
         \/ ~receive /\ aSupply' = [aSupply EXCEPT ![c] = @ - seized]
      /\ \/ usingAsCollateral' = afterDrain
         \/ usingAsCollateral' = WithBit(afterDrain, w, c)
      /\ cash' = [[cash EXCEPT ![c] = @ - released] EXCEPT ![d] = @ + out.debt]
      /\ wallet' = Debit(paid, d, w, out.debt)
      /\ UNCHANGED <<borrowAllowance, userEMode, adminVars, worldVars>>
  BY DEF LiquidationCall, Burnable, LedgersOK, TypeOK
<1>4. /\ out.collateral \in Nat /\ out.debt \in Nat /\ out.fee \in Nat
      /\ balance \in Nat
  <2>1. aBalance[c][u] \in Nat
    BY <1>1 DEF LedgersOK
  <2>2. balance \in Nat
    BY <1>2, <2>1, MultiplyTypes DEF ATokenBalanceOf
  <2>3. DebtToLiquidate(u, d, toCover, debtIndex) \in Nat
    BY <1>1, <1>2, DebtToLiquidateType
  <2> HIDE DEF balance, rd
  <2>4. QED
    BY <1>1, <1>3, <2>2, <2>3, AvailableCollateralTypes
<1> HIDE DEF out, balance
<1>5. burnt \in Nat
  <2> HIDE DEF rd
  <2>1. QED
    BY <1>1, <1>2, <1>4, BurnAmountType
<1>6. debt - debtAfter \in Nat
  <2> HIDE DEF burnt, rd
  <2>1. vBalance[d][u] \in Nat
    BY <1>1 DEF LedgersOK
  <2>2. QED
    BY <1>2, <1>3, <1>5, <2>1, RepaidIsNatural
<1>7. seized \in Nat /\ left \in Nat
  <2> HIDE DEF index
  <2>1. seized \in Nat
    BY <1>2, <1>4, DivideTypes
  <2> HIDE DEF seized
  <2>2. aBalance[c][u] \in Nat
    BY <1>1 DEF LedgersOK
  <2>3. QED
    BY <1>3, <2>1, <2>2
<1> HIDE DEF index
<1>8. feeScaled \in Nat /\ seized + feeScaled \in Nat
      /\ seized + feeScaled <= aBalance[c][u]
  <2>1. aBalance[c][u] \in Nat /\ aBalance[c][u] = seized + left
    <3> HIDE DEF seized
    <3>1. QED
      BY <1>1, <1>7 DEF LedgersOK
  <2> HIDE DEF left
  <2>2. FeeScaled(out.fee, left, index) \in Nat /\ FeeScaled(out.fee, left, index) <= left
    BY <1>2, <1>4, <1>7, FeeFits
  <2>3. feeScaled \in Nat /\ feeScaled <= left
    BY <1>7, <2>2
  <2> HIDE DEF feeScaled, seized
  <2>4. QED
    BY <1>7, <2>1, <2>3
<1> HIDE DEF burnt, debt, debtAfter, seized, left, feeScaled, rd
<1>9. released \in Nat /\ repaidHere \in Nat
  BY <1>4
<1>10. aBalance' \in [Assets -> [Accounts -> Nat]]
  <2>1. afterUser \in [Assets -> [Accounts -> Nat]]
    BY <1>1, <1>8, DebitTypes DEF LedgersOK
  <2> HIDE DEF afterUser
  <2>2. Credit(afterUser, c, w, seized) \in [Assets -> [Accounts -> Nat]]
    BY <1>1, <1>7, <2>1, CreditTypes
  <2> DEFINE g == Credit(afterUser, c, w, seized)
  <2> HIDE DEF g
  <2>3. /\ Credit(afterUser, c, Treasury, feeScaled) \in [Assets -> [Accounts -> Nat]]
        /\ Credit(g, c, Treasury, feeScaled) \in [Assets -> [Accounts -> Nat]]
    BY <1>1, <1>8, <2>1, <2>2, CreditTypes DEF g
  <2>4. QED
    BY <1>3, <2>3 DEF g
<1>11. aSupply' \in [Assets -> Nat]
  <2>1. aSupply \in [Assets -> Nat] /\ seized \in Nat
    BY <1>1, <1>7 DEF LedgersOK
  <2>2. ~receive => [aSupply EXCEPT ![c] = @ - seized] \in [Assets -> Nat]
    BY <1>3, <2>1
  <2>3. QED
    BY <1>3, <2>1, <2>2
<1>12. vBalance' \in [Assets -> [Accounts -> Nat]] /\ vSupply' \in [Assets -> Nat]
  <2>1. Debit(vBalance, d, u, burnt) \in [Assets -> [Accounts -> Nat]]
    BY <1>1, <1>3, <1>5, DebitTypes DEF LedgersOK
  <2>2. vSupplyAfter \in [Assets -> Nat]
    BY <1>1, <1>3, <1>5 DEF LedgersOK
  <2>3. QED
    BY <1>3, <2>1, <2>2
<1>13. cash' \in [Assets -> Nat]
  <2>1. cash \in [Assets -> Nat] /\ cash[c] - released \in Nat
    <3>1. cash \in [Assets -> Nat]
      BY <1>1 DEF LedgersOK
    <3>2. released <= cash[c]
      BY <1>3, <3>1
    <3> HIDE DEF released
    <3>3. QED
      BY <1>9, <3>1, <3>2
  <2> HIDE DEF released
  <2>2. [[cash EXCEPT ![c] = @ - released] EXCEPT ![d] = @ + out.debt] \in [Assets -> Nat]
    BY <1>4, <2>1
  <2>3. QED
    BY <1>3, <2>2 DEF released
<1>14. wallet' \in [Assets -> [Accounts -> Nat]]
  <2>1. paid \in [Assets -> [Accounts -> Nat]]
    BY <1>1, <1>9, CreditTypes DEF LedgersOK
  <2> HIDE DEF paid
  <2>2. Debit(paid, d, w, out.debt) \in [Assets -> [Accounts -> Nat]]
    BY <1>1, <1>3, <1>4, <2>1, DebitTypes DEF paid
  <2>3. QED
    BY <1>3, <2>2 DEF paid
<1>15. usingAsCollateral' \in [Accounts -> SUBSET Assets]
  <2>1. usingAsCollateral \in [Accounts -> SUBSET Assets]
    BY <1>1 DEF AccountsOK
  <2>2. afterDrain \in [Accounts -> SUBSET Assets]
    BY <1>1, <2>1, BitTypes
  <2> HIDE DEF afterDrain
  <2>3. WithBit(afterDrain, w, c) \in [Accounts -> SUBSET Assets]
    BY <1>1, <2>2, BitTypes
  <2>4. QED
    BY <1>3, <2>2, <2>3 DEF afterDrain
<1>16. borrowing' \in [Accounts -> SUBSET Assets]
  <2>1. WithoutBit(borrowing, u, d) \in [Accounts -> SUBSET Assets]
    BY <1>1, BitTypes DEF AccountsOK
  <2>2. QED
    BY <1>1, <1>3, <2>1 DEF AccountsOK
<1>17. SoundSuccessor(debtSide)
  <2>1. vSupply[d] - burnt \in Nat /\ cash[d] + out.debt \in Nat
    BY <1>1, <1>3, <1>4, <1>5 DEF LedgersOK
  <2>2. SoundSuccessor(reserve)
    BY <1>1, ReserveFollowsItself
  <2>3. SoundSuccessor(rated)
    BY <2>1, <2>2, OneReserveSettled DEF UpdatedReserve, rd
  <2> HIDE DEF rated
  <2>4. QED
    BY <1>1, <1>6, <2>3, IsolatedDebtMoved
<1> HIDE DEF debtSide
<1>18. SoundSuccessor(reserve')
  <2>1. CASE reserve' = debtSide
    BY <1>17, <2>1
  <2>2. CASE /\ ~receive
             /\ reserve' = CollateralReserveAfter(debtSide, c, out.collateral, repaidHere,
                                                 vSupplyAfter[c])
    <3> DEFINE liquidity == cash[c] + repaidHere - out.collateral
               supply == vSupplyAfter[c]
    <3>1. liquidity \in Nat
      <4>1. cash[c] \in Nat /\ out.collateral <= cash[c]
        BY <1>1, <1>3, <2>2 DEF LedgersOK
      <4> HIDE DEF repaidHere
      <4>2. QED
        BY <1>4, <1>9, <4>1
    <3>2. supply \in Nat
      BY <1>3, <1>12
    <3>3. reserve' = [debtSide EXCEPT ![c] =
                         WithRates(c, UpdatedState(c, debtSide[c]), supply, liquidity)]
      BY <2>2 DEF CollateralReserveAfter
    <3> HIDE DEF liquidity, supply
    <3>4. QED
      BY <1>17, <3>1, <3>2, <3>3, OneReserveSettled
  <2>3. QED
    BY <1>3, <2>1, <2>2
<1>19. LedgersOK' /\ AccountsOK'
  BY <1>1, <1>3, <1>10, <1>11, <1>12, <1>13, <1>14, <1>15, <1>16 DEF LedgersOK, AccountsOK
<1>20. SettingsOK' /\ WorldOK' /\ now' = now
  BY <1>3 DEF TypeOK, SettingsOK, WorldOK, adminVars, worldVars
<1>21. QED
  BY <1>18, <1>19, <1>20, SuccessorIsSound DEF TypeOK

-----------------------------------------------------------------------------
(* The other calls.                                                        *)

(* Minting the accrual resets one field of the reserve.                    *)
LEMMA MintToTreasurySound ==
    ASSUME TypeOK, NEW a \in Assets, MintToTreasury(a)
    PROVE  TypeOK' /\ IndexesNeverFallStep
<1> DEFINE income == NormalizedIncome(a)
           amountToMint == rayMulCeil(reserve[a].accruedToTreasury, income)
           scaled == ATokenMintScaled(amountToMint, income)
<1>1. /\ LedgersOK /\ ReservesOK /\ Treasury \in Accounts
      /\ reserve \in [Assets -> ReserveData]
  BY DEF TypeOK, ReservesOK, Accounts
<1>2. scaled \in Nat
  <2>1. income \in Nat \ {0} /\ reserve[a].accruedToTreasury \in Nat
    BY <1>1, CallIndexes DEF ReserveData
  <2> HIDE DEF income
  <2>2. amountToMint \in Nat
    BY <2>1, MultiplyTypes
  <2> HIDE DEF amountToMint
  <2>3. QED
    BY <2>1, <2>2, DivideTypes
<1>3. /\ reserve' = [reserve EXCEPT ![a].accruedToTreasury = 0]
      /\ aBalance' = Credit(aBalance, a, Treasury, scaled)
      /\ aSupply' = [aSupply EXCEPT ![a] = @ + scaled]
      /\ UNCHANGED <<vBalance, vSupply, cash, wallet, borrowAllowance, bitVars,
                     userEMode, adminVars, worldVars>>
  BY DEF MintToTreasury
<1> HIDE DEF scaled
<1>4. SoundSuccessor(reserve')
  BY <1>1, <1>3 DEF ReservesOK, ReserveData, SoundSuccessor, SoundReserve, GrownFrom
<1>5. LedgersOK'
  <2>1. aBalance' \in [Assets -> [Accounts -> Nat]]
    BY <1>1, <1>2, <1>3, CreditTypes DEF LedgersOK
  <2>2. aSupply' \in [Assets -> Nat]
    BY <1>1, <1>2, <1>3 DEF LedgersOK
  <2>3. QED
    BY <1>1, <1>3, <2>1, <2>2 DEF LedgersOK
<1>6. AccountsOK' /\ SettingsOK' /\ WorldOK' /\ now' = now
  BY <1>3 DEF TypeOK, AccountsOK, SettingsOK, WorldOK, adminVars, worldVars, bitVars
<1>7. QED
  BY <1>4, <1>5, <1>6, SuccessorIsSound DEF TypeOK

(* A category is recorded and nothing else changes.                        *)
LEMMA SetUserEModeSound ==
    ASSUME TypeOK, NEW u \in Users, NEW category \in Categories \cup {0},
           SetUserEMode(u, category)
    PROVE  TypeOK' /\ IndexesNeverFallStep
<1>1. /\ userEMode' = [userEMode EXCEPT ![u] = category]
      /\ UNCHANGED <<reserve, ledgerVars, borrowAllowance, bitVars, adminVars, worldVars>>
  BY DEF SetUserEMode
<1>2. /\ AccountsOK' /\ LedgersOK' /\ SettingsOK' /\ WorldOK'
      /\ UNCHANGED <<reserve, now>>
  BY <1>1 DEF TypeOK, AccountsOK, LedgersOK, SettingsOK, WorldOK, ledgerVars,
              bitVars, adminVars, worldVars
<1>3. QED
  BY <1>2, UnchangedReserves DEF TypeOK

(* A new configuration leaves ledgers, accounts and the world alone.       *)
LEMMA ConfigurationSound ==
    ASSUME TypeOK, NEW a \in Assets, NEW c \in ReserveConfiguration,
           SetConfiguration(a, c)
    PROVE  LedgersOK' /\ AccountsOK' /\ SettingsOK' /\ WorldOK' /\ now' = now
<1>1. /\ config' = [config EXCEPT ![a] = c]
      /\ UNCHANGED <<eModeCategories, ledgerVars, borrowAllowance, bitVars,
                     userEMode, worldVars>>
  BY DEF SetConfiguration
<1>2. QED
  BY <1>1 DEF TypeOK, AccountsOK, LedgersOK, SettingsOK, WorldOK, ledgerVars,
              bitVars, worldVars

(* Every setting of one reserve is of its type.                            *)
LEMMA AdminSound ==
    ASSUME TypeOK, AdminStep
    PROVE  TypeOK' /\ IndexesNeverFallStep
<1> PICK a \in Assets :
        \/ \E b \in AdminChoices.active : SetReserveActive(a, b)
        \/ \E b \in AdminChoices.paused : SetReservePause(a, b)
        \/ \E b \in AdminChoices.frozen : SetReserveFreeze(a, b)
        \/ \E b \in AdminChoices.borrowing : SetReserveBorrowing(a, b)
        \/ \E n \in AdminChoices.supplyCap : SetSupplyCap(a, n)
        \/ \E n \in AdminChoices.borrowCap : SetBorrowCap(a, n)
        \/ \E b \in AdminChoices.siloed : SetSiloedBorrowing(a, b)
        \/ \E n \in AdminChoices.debtCeiling : SetDebtCeiling(a, n)
        \/ \E n \in AdminChoices.reserveFactor : SetReserveFactor(a, n)
        \/ \E p \in AdminChoices.collateral : ConfigureReserveAsCollateral(a, p)
        \/ \E n \in AdminChoices.protocolFee : SetLiquidationProtocolFee(a, n)
        \/ \E b \in AdminChoices.isolated : SetBorrowableInIsolation(a, b)
        \/ \E c \in AdminChoices.category : SetAssetEModeCategory(a, c)
  BY PoolAssumption DEF AdminStep
<1>1. config[a] \in ReserveConfiguration /\ ReservesOK
  BY DEF TypeOK, SettingsOK
<1>2. ASSUME NEW c \in ReserveConfiguration, SetConfiguration(a, c), UNCHANGED reserve
      PROVE  TypeOK' /\ IndexesNeverFallStep
  BY <1>1, <1>2, ConfigurationSound, UnchangedReserves DEF TypeOK
<1>3. CASE \/ \E b \in AdminChoices.active : SetReserveActive(a, b)
           \/ \E b \in AdminChoices.paused : SetReservePause(a, b)
           \/ \E b \in AdminChoices.frozen : SetReserveFreeze(a, b)
           \/ \E b \in AdminChoices.borrowing : SetReserveBorrowing(a, b)
           \/ \E b \in AdminChoices.siloed : SetSiloedBorrowing(a, b)
           \/ \E b \in AdminChoices.isolated : SetBorrowableInIsolation(a, b)
  <2>1. PICK b \in BOOLEAN :
            \/ SetReserveActive(a, b) \/ SetReservePause(a, b) \/ SetReserveFreeze(a, b)
            \/ SetReserveBorrowing(a, b) \/ SetSiloedBorrowing(a, b)
            \/ SetBorrowableInIsolation(a, b)
    BY <1>3, PoolAssumption
  <2>2. /\ [config[a] EXCEPT !.active = b] \in ReserveConfiguration
        /\ [config[a] EXCEPT !.paused = b] \in ReserveConfiguration
        /\ [config[a] EXCEPT !.frozen = b] \in ReserveConfiguration
        /\ [config[a] EXCEPT !.borrowingEnabled = b] \in ReserveConfiguration
        /\ [config[a] EXCEPT !.siloedBorrowing = b] \in ReserveConfiguration
        /\ [config[a] EXCEPT !.borrowableInIsolation = b] \in ReserveConfiguration
    BY <1>1 DEF ReserveConfiguration
  <2>3. QED
    BY <1>2, <2>1, <2>2 DEF SetReserveActive, SetReservePause, SetReserveFreeze,
        SetReserveBorrowing, SetSiloedBorrowing, SetBorrowableInIsolation
<1>4. CASE \/ \E n \in AdminChoices.supplyCap : SetSupplyCap(a, n)
           \/ \E n \in AdminChoices.borrowCap : SetBorrowCap(a, n)
           \/ \E n \in AdminChoices.protocolFee : SetLiquidationProtocolFee(a, n)
  <2>1. PICK n \in Nat : \/ SetSupplyCap(a, n) \/ SetBorrowCap(a, n)
                         \/ SetLiquidationProtocolFee(a, n)
    BY <1>4, PoolAssumption
  <2>2. /\ [config[a] EXCEPT !.supplyCap = n] \in ReserveConfiguration
        /\ [config[a] EXCEPT !.borrowCap = n] \in ReserveConfiguration
        /\ n <= PERCENTAGE_FACTOR =>
              [config[a] EXCEPT !.liquidationProtocolFee = n] \in ReserveConfiguration
    BY <1>1, UnitsAssumption DEF ReserveConfiguration
  <2>3. QED
    BY <1>2, <2>1, <2>2 DEF SetSupplyCap, SetBorrowCap, SetLiquidationProtocolFee
<1>5. CASE \E n \in AdminChoices.debtCeiling : SetDebtCeiling(a, n)
  <2>1. PICK n \in Nat : SetDebtCeiling(a, n)
    BY <1>5, PoolAssumption
  <2>2. [config[a] EXCEPT !.debtCeiling = n] \in ReserveConfiguration
    BY <1>1 DEF ReserveConfiguration
  <2>3. LedgersOK' /\ AccountsOK' /\ SettingsOK' /\ WorldOK' /\ now' = now
    BY <2>1, <2>2, ConfigurationSound DEF SetDebtCeiling
  <2>4. \/ reserve' = reserve
        \/ reserve' = [reserve EXCEPT ![a].isolationModeTotalDebt = 0]
    BY <2>1 DEF SetDebtCeiling
  <2>5. SoundSuccessor(reserve')
    BY <1>1, <2>4 DEF ReservesOK, ReserveData, SoundSuccessor, SoundReserve, GrownFrom
  <2>6. QED
    BY <2>3, <2>5, SuccessorIsSound DEF TypeOK
<1>6. CASE \E n \in AdminChoices.reserveFactor : SetReserveFactor(a, n)
  <2>1. PICK n \in Nat : SetReserveFactor(a, n)
    BY <1>6, PoolAssumption
  <2> DEFINE r == UpdatedReserve(a)
             debt == VTokenBalance(vSupply[a], r.variableBorrowIndex)
             rates == InterestRates(a, debt, cash[a], n)
             s == [r EXCEPT !.currentLiquidityRate = rates.liquidity,
                            !.currentVariableBorrowRate = rates.variable]
  <2>2. n \in 0..PERCENTAGE_FACTOR /\ reserve' = [reserve EXCEPT ![a] = s]
    <3>1. n \in 0..PERCENTAGE_FACTOR
      <4>1. n <= PERCENTAGE_FACTOR
        BY <2>1 DEF SetReserveFactor
      <4>2. QED
        BY <4>1, UnitsAssumption
    <3>2. reserve' = [reserve EXCEPT ![a] = s]
      BY <2>1 DEF SetReserveFactor
    <3>3. QED
      BY <3>1, <3>2
  <2>3. [config[a] EXCEPT !.reserveFactor = n] \in ReserveConfiguration
    BY <1>1, <2>2 DEF ReserveConfiguration
  <2>4. LedgersOK' /\ AccountsOK' /\ SettingsOK' /\ WorldOK' /\ now' = now
    BY <2>1, <2>3, ConfigurationSound DEF SetReserveFactor
  <2>5. /\ now \in Nat /\ vSupply \in [Assets -> Nat] /\ cash[a] \in Nat
        /\ vSupply[a] \in Nat /\ SettingsOK /\ SoundReserve(reserve[a])
    BY DEF TypeOK, LedgersOK, WorldOK, ReservesOK, SoundReserve
  <2>6. SoundReserve(r) /\ GrownFrom(reserve[a], r) /\ r.variableBorrowIndex \in Nat
    BY <2>5, SettledReserve DEF UpdatedReserve
  <2> HIDE DEF r
  <2>7. debt \in Nat
    BY <2>5, <2>6, MultiplyTypes
  <2> HIDE DEF debt
  <2>8. rates.liquidity \in Nat /\ rates.variable \in Nat
    BY <2>2, <2>5, <2>7, RateTypes
  <2> HIDE DEF rates
  <2>9. SoundReserve(s) /\ GrownFrom(reserve[a], s)
    BY <2>6, <2>8 DEF SoundReserve, GrownFrom, ReserveData
  <2> HIDE DEF s
  <2>10. SoundSuccessor(reserve)
    BY <1>1, ReserveFollowsItself
  <2>11. SoundSuccessor(reserve')
    BY <2>2, <2>9, <2>10 DEF SoundSuccessor, SoundReserve
  <2>12. QED
    BY <2>4, <2>11, SuccessorIsSound DEF TypeOK
<1>7. CASE \E p \in AdminChoices.collateral : ConfigureReserveAsCollateral(a, p)
  <2>1. PICK p \in [ltv: Nat, liquidationThreshold: Nat, liquidationBonus: Bonus] :
            ConfigureReserveAsCollateral(a, p)
    BY <1>7, PoolAssumption
  <2>2. [config[a] EXCEPT !.ltv = p.ltv, !.liquidationThreshold = p.liquidationThreshold,
                          !.liquidationBonus = p.liquidationBonus] \in ReserveConfiguration
    BY <1>1 DEF ReserveConfiguration
  <2>3. QED
    BY <1>2, <2>1, <2>2 DEF ConfigureReserveAsCollateral
<1>8. CASE \E c \in AdminChoices.category : SetAssetEModeCategory(a, c)
  <2>1. PICK c \in Categories \cup {0} : SetAssetEModeCategory(a, c)
    BY <1>8, PoolAssumption
  <2>2. [config[a] EXCEPT !.eModeCategory = c] \in ReserveConfiguration
    BY <1>1 DEF ReserveConfiguration
  <2>3. QED
    BY <1>2, <2>1, <2>2 DEF SetAssetEModeCategory
<1>9. QED
  BY <1>3, <1>4, <1>5, <1>6, <1>7, <1>8

(* So are the pause of the pool and a new eMode category.                  *)
LEMMA PoolWideSettingsSound ==
    ASSUME TypeOK,
           \/ \E b \in AdminChoices.poolPaused : SetPoolPause(b)
           \/ \E c \in Categories, p \in AdminChoices.eMode : SetEModeCategory(c, p)
    PROVE  TypeOK' /\ IndexesNeverFallStep
<1>1. SettingsOK' /\ UNCHANGED <<reserve, ledgerVars, borrowAllowance, bitVars,
                                 userEMode, worldVars>>
  <2>1. CASE \E b \in AdminChoices.poolPaused : SetPoolPause(b)
    <3>1. PICK b \in BOOLEAN : SetPoolPause(b)
      BY <2>1, PoolAssumption
    <3>2. \A a \in Assets : [config[a] EXCEPT !.paused = b] \in ReserveConfiguration
      BY DEF TypeOK, SettingsOK, ReserveConfiguration
    <3>3. QED
      BY <3>1, <3>2 DEF SetPoolPause, TypeOK, SettingsOK
  <2>2. CASE \E c \in Categories, p \in AdminChoices.eMode : SetEModeCategory(c, p)
    <3>1. PICK c \in Categories, p \in EModeCategory : SetEModeCategory(c, p)
      BY <2>2, PoolAssumption
    <3>2. QED
      BY <3>1 DEF SetEModeCategory, TypeOK, SettingsOK
  <2>3. QED
    BY <2>1, <2>2
<1>2. AccountsOK' /\ LedgersOK' /\ WorldOK' /\ UNCHANGED <<reserve, now>>
  BY <1>1 DEF TypeOK, AccountsOK, LedgersOK, WorldOK, ledgerVars, bitVars, worldVars
<1>3. QED
  BY <1>1, <1>2, UnchangedReserves DEF TypeOK

(* The oracle and the clock move nothing the pool keeps.                   *)
LEMMA WorldSound ==
    ASSUME TypeOK, \/ \E f \in Feeds : \E p \in PriceChoices[f] : SetPrice(f, p)
                   \/ Tick
    PROVE  TypeOK' /\ IndexesNeverFallStep
<1>1. /\ WorldOK' /\ now' >= now
      /\ UNCHANGED <<reserve, adminVars, ledgerVars, borrowAllowance, bitVars, userEMode>>
  BY PoolAssumption DEF SetPrice, Tick, TypeOK, WorldOK
<1>2. AccountsOK' /\ LedgersOK' /\ SettingsOK'
  BY <1>1 DEF TypeOK, AccountsOK, LedgersOK, SettingsOK, ledgerVars, bitVars, adminVars
<1>3. ReservesOK' /\ IndexesNeverFallStep
  <2>1. now \in Nat /\ now' \in Nat
    BY <1>1 DEF TypeOK, WorldOK
  <2>2. QED
    BY <1>1, <2>1 DEF TypeOK, ReservesOK, ReserveData, IndexesNeverFallStep
<1>4. QED
  BY <1>1, <1>2, <1>3 DEF TypeOK

-----------------------------------------------------------------------------
(* The pool starts with values of these types.                             *)
LEMMA InitSound == Init => TypeOK
<1> SUFFICES ASSUME Init PROVE TypeOK
  OBVIOUS
<1>1. ASSUME NEW a \in Assets
      PROVE  SoundReserve(EmptiedReserve(a)) /\ SoundReserve(NewReserve)
  <2>1. InitialConfig[a].reserveFactor \in 0..PERCENTAGE_FACTOR
    BY PoolAssumption DEF ReserveConfiguration
  <2> DEFINE rates == InterestRates(a, 0, 0, InitialConfig[a].reserveFactor)
  <2>2. rates.liquidity \in Nat /\ rates.variable \in Nat
    BY <2>1, RateTypes
  <2> HIDE DEF rates
  <2>3. /\ InitialIndexes[a].liquidityIndex \in Nat
        /\ InitialIndexes[a].variableBorrowIndex \in Nat
        /\ InitialIndexes[a].liquidityIndex >= RAY
        /\ InitialIndexes[a].variableBorrowIndex >= RAY
        /\ RAY \in Nat
    BY PoolAssumption, UnitsAssumption
  <2>4. EmptiedReserve(a) =
            [liquidityIndex |-> InitialIndexes[a].liquidityIndex,
             variableBorrowIndex |-> InitialIndexes[a].variableBorrowIndex,
             currentLiquidityRate |-> rates.liquidity,
             currentVariableBorrowRate |-> rates.variable,
             lastUpdateTimestamp |-> 1, accruedToTreasury |-> 0,
             isolationModeTotalDebt |-> 0]
    BY DEF EmptiedReserve, rates
  <2>5. now = 1
    BY DEF Init
  <2> DEFINE e == EmptiedReserve(a)
  <2>6. e \in ReserveData
    BY <2>2, <2>3, <2>4 DEF ReserveData
  <2>7. SoundReserve(e)
    BY <2>3, <2>4, <2>5, <2>6 DEF SoundReserve
  <2>8. SoundReserve(NewReserve)
    BY <2>3, <2>5 DEF NewReserve, SoundReserve, ReserveData
  <2>9. QED
    BY <2>7, <2>8
<1>2. ReservesOK
  BY <1>1 DEF Init, ReservesOK, SoundReserve
<1>3. LedgersOK /\ AccountsOK
  BY PoolAssumption DEF Init, LedgersOK, AccountsOK
<1>4. SettingsOK /\ WorldOK
  BY PoolAssumption DEF Init, SettingsOK, WorldOK
<1>5. QED
  BY <1>2, <1>3, <1>4 DEF TypeOK

(* Every step keeps the types and lets no index fall.                      *)
LEMMA NextSound ==
    ASSUME TypeOK, [Next]_vars
    PROVE  TypeOK' /\ (IndexesNeverFallStep \/ UNCHANGED vars)
<1>1. CASE UserStep
  <2>1. PICK u \in Users : \E v \in Beneficiaries[u], a \in Assets :
            \/ \E n \in CallChoices[u].supply : Supply(u, a, n, v)
            \/ \E n \in CallChoices[u].withdraw : Withdraw(u, a, n, v)
            \/ \E n \in CallChoices[u].transfer : Transfer(u, a, n, v)
            \/ \E n \in CallChoices[u].borrow : Borrow(u, a, n, v)
            \/ \E n \in CallChoices[u].repay : Repay(u, a, n, v)
            \/ \E n \in CallChoices[u].delegate : ApproveDelegation(u, a, v, n)
    BY <1>1 DEF UserStep
  <2>2. PICK v \in Users, a \in Assets, n \in Nat :
            \/ Supply(u, a, n, v) \/ Withdraw(u, a, n, v) \/ Transfer(u, a, n, v)
            \/ Borrow(u, a, n, v) \/ Repay(u, a, n, v) \/ ApproveDelegation(u, a, v, n)
    BY <2>1, PoolAssumption
  <2>3. QED
    BY <2>2, SupplySound, WithdrawSound, TransferSound, BorrowSound, RepaySound,
       ApproveDelegationSound
<1>2. CASE OwnStep
  <2>1. PICK u \in Users, a \in Assets :
            \/ \E n \in CallChoices[u].repayWithATokens : RepayWithATokens(u, a, n)
            \/ \E b \in CallChoices[u].useAsCollateral :
                  SetUserUseReserveAsCollateral(u, a, b)
    BY <1>2 DEF OwnStep
  <2>2. \/ \E n \in Nat : RepayWithATokens(u, a, n)
        \/ \E b \in BOOLEAN : SetUserUseReserveAsCollateral(u, a, b)
    BY <2>1, PoolAssumption
  <2>3. QED
    BY <2>2, RepayWithATokensSound, CollateralSwitchSound
<1>3. CASE Liquidate
  <2>1. PICK w \in Users, u \in Users, c \in Assets, d \in Assets, n \in Nat,
             b \in BOOLEAN : LiquidationCall(w, u, c, d, n, b)
    BY <1>3, PoolAssumption DEF Liquidate
  <2>2. QED
    BY <2>1, LiquidationSound
<1>4. CASE \E a \in Assets : MintToTreasury(a)
  BY <1>4, MintToTreasurySound
<1>5. CASE \E u \in Users, c \in Categories \cup {0} : SetUserEMode(u, c)
  BY <1>5, SetUserEModeSound
<1>6. CASE AdminStep
  BY <1>6, AdminSound
<1>7. CASE \/ \E b \in AdminChoices.poolPaused : SetPoolPause(b)
           \/ \E c \in Categories, p \in AdminChoices.eMode : SetEModeCategory(c, p)
  BY <1>7, PoolWideSettingsSound
<1>8. CASE \/ \E f \in Feeds : \E p \in PriceChoices[f] : SetPrice(f, p)
           \/ Tick
  BY <1>8, WorldSound
<1>9. CASE UNCHANGED vars
  BY <1>9 DEF vars, adminVars, ledgerVars, bitVars, worldVars, TypeOK, ReservesOK,
              LedgersOK, AccountsOK, SettingsOK, WorldOK
<1>10. QED
  BY <1>1, <1>2, <1>3, <1>4, <1>5, <1>6, <1>7, <1>8, <1>9 DEF Next, UserCall, WorldStep

-----------------------------------------------------------------------------
(* Type correctness: in every reachable state no balance, supply, index,   *)
(* rate or counter has underflowed, whatever the calls, the prices and the *)
(* configuration were.                                                     *)
THEOREM TypeCorrect == Spec => []TypeOK
<1>1. Init => TypeOK
  BY InitSound
<1>2. TypeOK /\ [Next]_vars => TypeOK'
  BY NextSound
<1>3. QED
  BY <1>1, <1>2, PTL DEF Spec

(* The indexes of a reserve, and the time they were settled at, never go   *)
(* back.                                                                   *)
THEOREM IndexesOnlyGrow == Spec => IndexesNeverFall
<1>1. TypeOK /\ [Next]_vars => [IndexesNeverFallStep]_vars
  BY NextSound
<1>2. QED
  BY <1>1, TypeCorrect, PTL DEF Spec, IndexesNeverFall
=============================================================================
