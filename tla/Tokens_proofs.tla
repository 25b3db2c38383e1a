----------------------------- MODULE Tokens_proofs -----------------------------
(***************************************************************************)
(* For every index, amount and allowance: what a spender pays for the      *)
(* aTokens it moves, the events the tests look for, and what the events    *)
(* tell of balances.                                                       *)
(***************************************************************************)
EXTENDS TokenizationEvents, RayMath_proofs

(* The aToken ledger, its index and its allowances are unsigned, and the   *)
(* index is never below one ray.                                           *)
LedgerOK ==
    /\ income \in Nat /\ income >= RAY
    /\ aUser \in [Users -> [balance : Nat, additionalData : Nat]]
    /\ allowance \in [Pairs -> Nat]

-----------------------------------------------------------------------------
(* A balance loses at least the amount transferred, and at most a scaled   *)
(* unit more.                                                              *)
LEMMA TransferLoss ==
    ASSUME NEW balance \in Nat, NEW amount \in Nat,
           NEW index \in Nat, index >= RAY,
           ATokenTransferScaled(amount, index) <= balance
    PROVE  LET scaled == ATokenTransferScaled(amount, index)
               lost   == ATokenBalance(balance, index)
                           - ATokenBalance(balance - scaled, index)
           IN  /\ scaled \in Nat
               /\ ATokenBalance(balance, index) \in Nat
               /\ lost \in Nat
               /\ amount <= lost /\ lost <= amount + DivCeil(index, RAY)
<1> DEFINE s == ATokenTransferScaled(amount, index)
           f == ATokenBalance(balance, index)
           g == ATokenBalance(balance - s, index)
           u == DivCeil(index, RAY)
<1>1. /\ RAY \in Nat \ {0} /\ index \in Nat \ {0}
      /\ amount * RAY \in Nat
  BY UnitsAssumption, ProductNat
<1>2. /\ s \in Nat
      /\ amount * RAY <= index * s /\ index * s < (amount * RAY) + index
  BY <1>1, RoundingTypes, CeilBounds DEF ATokenTransferScaled, rayDivCeil
<1> HIDE DEF s
<1>3. balance - s \in Nat /\ balance * index \in Nat /\ (balance - s) * index \in Nat
  <2>1. balance - s \in Nat
    BY <1>2 DEF s
  <2> QED BY <2>1, <1>1, ProductNat
<1>4. /\ f \in Nat /\ RAY * f <= balance * index /\ balance * index < (RAY * f) + RAY
  BY <1>1, <1>3, RoundingTypes, FloorBounds DEF ATokenBalance, rayMulFloor
<1>5. /\ g \in Nat /\ RAY * g <= (balance - s) * index
      /\ (balance - s) * index < (RAY * g) + RAY
  BY <1>1, <1>3, RoundingTypes, FloorBounds DEF ATokenBalance, rayMulFloor
<1>6. u \in Nat /\ index <= RAY * u
  BY <1>1, RoundingTypes, CeilBounds
<1> HIDE DEF f, g, u
<1>7. (balance - s) * index = (balance * index) - (index * s)
  BY <1>1, <1>2
<1>8. amount <= f - g
  <2>1. RAY * (f - g) > (RAY * amount) - RAY
    <3>1. RAY * (f - g) = (RAY * f) - (RAY * g)
      BY <1>1, <1>4, <1>5
    <3> QED BY <3>1, <1>1, <1>2, <1>3, <1>4, <1>5, <1>7
  <2>2. RAY * (f - g - amount + 1) > 0
    BY <2>1, <1>1, <1>4, <1>5
  <2>3. f - g - amount + 1 > 0
    BY <2>2, <1>1, <1>4, <1>5
  <2> QED BY <2>3, <1>4, <1>5
<1>9. f - g <= amount + u
  <2>1. RAY * (f - g) < (RAY * amount) + (RAY * u) + RAY
    <3>1. RAY * (f - g) = (RAY * f) - (RAY * g)
      BY <1>1, <1>4, <1>5
    <3> QED BY <3>1, <1>1, <1>2, <1>3, <1>4, <1>5, <1>6, <1>7
  <2>2. RAY * (amount + u + 1 - (f - g)) > 0
    BY <2>1, <1>1, <1>4, <1>5, <1>6
  <2>3. amount + u + 1 - (f - g) > 0
    BY <2>2, <1>1, <1>4, <1>5, <1>6
  <2> QED BY <2>3, <1>4, <1>5, <1>6
<1>10. f - g \in Nat
  BY <1>4, <1>5, <1>8
<1> QED BY <1>2, <1>4, <1>8, <1>9, <1>10 DEF s, f, g, u

-----------------------------------------------------------------------------
(* Initially.                                                              *)
LEMMA InitLedger == TokensInit => LedgerOK
<1>1. RAY \in Nat
  BY UnitsAssumption
<1> QED BY <1>1 DEF TokensInit, LedgerOK, Pairs

(* A transfer keeps the ledger unsigned.                                   *)
LEMMA MovedTypes ==
    ASSUME LedgerOK, NEW from \in Users, NEW to \in Users,
           NEW scaled \in Nat, scaled <= aUser[from].balance
    PROVE  /\ MovedBalances(from, to, scaled)
                \in [Users -> [balance : Nat, additionalData : Nat]]
           /\ MovedBalances(from, to, scaled)[from].balance
                = IF from = to THEN aUser[from].balance
                               ELSE aUser[from].balance - scaled
<1> DEFINE taken == Refreshed(aUser, from, aUser[from].balance - scaled, income)
<1>1. /\ aUser[from].balance \in Nat
      /\ taken \in [Users -> [balance : Nat, additionalData : Nat]]
      /\ taken[from].balance = aUser[from].balance - scaled
  BY DEF LedgerOK, Refreshed
<1>2. MovedBalances(from, to, scaled)
        = [taken EXCEPT ![to] = [balance |-> taken[to].balance + scaled,
                                 additionalData |-> income]]
  BY DEF MovedBalances, Refreshed
<1> HIDE DEF taken
<1> QED BY <1>1, <1>2 DEF LedgerOK

(* What transferFrom does to the owner and to the allowance.               *)
LEMMA TransferFromPaysStep ==
    ASSUME LedgerOK, NEW spender \in Users, NEW owner \in Users, NEW to \in Users,
           NEW amount \in Amounts, TransferFrom(spender, owner, to, amount)
    PROVE  /\ allowance' \in [Pairs -> Nat]
           /\ TransferFromIsPaidStep
<1> DEFINE pair    == <<owner, spender>>
           granted == allowance[pair]
           scaled  == ATokenTransferScaled(amount, income)
           balance == aUser[owner].balance
           lost    == ATokenBalance(balance, income)
                        - ATokenBalance(balance - scaled, income)
           spent   == IF lost > granted THEN granted ELSE lost
<1>1. /\ income \in Nat /\ income >= RAY /\ amount \in Nat
      /\ pair \in Pairs /\ granted \in Nat /\ balance \in Nat
  BY TokensAssumption DEF LedgerOK, Pairs
<1>2. /\ granted >= amount
      /\ scaled <= balance
      /\ aUser' = MovedBalances(owner, to, scaled)
      /\ receipt'.call = "transferFrom" /\ receipt'.user = spender
      /\ receipt'.account = <<owner, to>> /\ receipt'.amount = amount
      /\ income' = income
  BY DEF TransferFrom, MoveTokens, Emit, indexes
<1>3. /\ scaled \in Nat /\ ATokenBalance(balance, income) \in Nat /\ lost \in Nat
      /\ amount <= lost /\ lost <= amount + UnitValue
  BY <1>1, <1>2, TransferLoss DEF UnitValue
<1>4. aUser'[owner].balance = IF owner = to THEN balance ELSE balance - scaled
  BY <1>2, <1>3, MovedTypes
<1>5. UnitValue \in Nat
  BY <1>1, UnitsAssumption, RoundingTypes DEF UnitValue
<1>6. /\ granted = InfiniteAmount => allowance' = allowance
      /\ granted # InfiniteAmount =>
            allowance' = [allowance EXCEPT ![pair] = granted - spent]
  BY DEF TransferFrom, Spent
<1>7. ATokenBalance(balance, income) - ATokenBalance(aUser'[owner].balance, income)
        = IF owner = to THEN 0 ELSE lost
  BY <1>3, <1>4
<1> HIDE DEF scaled, lost
<1>8. spent \in Nat /\ spent <= granted /\ spent >= amount /\ lost <= spent + UnitValue
  BY <1>1, <1>2, <1>3, <1>5
<1> HIDE DEF spent
<1>9. allowance' \in [Pairs -> Nat]
  BY <1>1, <1>6, <1>8 DEF LedgerOK
<1>10. CASE granted = InfiniteAmount
  <2>1. allowance[pair] - allowance'[pair] = 0
    BY <1>1, <1>6, <1>10
  <2> QED BY <2>1, <1>2, <1>9, <1>10 DEF TransferFromIsPaidStep
<1>11. CASE granted # InfiniteAmount
  <2>1. allowance[pair] - allowance'[pair] = spent
    BY <1>1, <1>6, <1>8, <1>11 DEF LedgerOK
  <2>2. ATokenBalance(balance, income) - ATokenBalance(aUser'[owner].balance, income)
          <= spent + UnitValue
    BY <1>3, <1>5, <1>7, <1>8
  <2> QED BY <2>1, <2>2, <1>2, <1>8, <1>9, <1>11 DEF TransferFromIsPaidStep
<1> QED BY <1>9, <1>10, <1>11

-----------------------------------------------------------------------------
(* A call of another name is no transferFrom.                              *)
LEMMA OtherCalls ==
    ASSUME NEW name, name # "transferFrom", NEW u, NEW v, NEW n, NEW events,
           Emit(name, u, v, n, events)
    PROVE  receipt'.call = name /\ TransferFromIsPaidStep
<1>1. receipt'.call = name
  BY DEF Emit
<1> QED BY <1>1 DEF TransferFromIsPaidStep

(* Every call keeps the ledger unsigned, and only transferFrom reports     *)
(* itself.                                                                 *)
LEMMA TokensStep ==
    LedgerOK /\ [TokensNext]_tokenVars => LedgerOK' /\ [TransferFromIsPaidStep]_tokenVars
<1> SUFFICES ASSUME LedgerOK, [TokensNext]_tokenVars
             PROVE  LedgerOK' /\ [TransferFromIsPaidStep]_tokenVars
  OBVIOUS
<1>0. RAY \in Nat \ {0} /\ income \in Nat \ {0}
  BY UnitsAssumption DEF LedgerOK
<1>1. ASSUME Accrue
      PROVE  LedgerOK' /\ TransferFromIsPaidStep
  <2>1. /\ income' \in Nat /\ income' >= RAY
        /\ aUser' = aUser /\ allowance' = allowance
        /\ receipt'.call = "none"
    BY <1>1, <1>0, TokensAssumption DEF Accrue, LedgerOK, ledgers
  <2> QED BY <2>1 DEF LedgerOK, TransferFromIsPaidStep
<1>2. ASSUME NEW u \in Users, NEW v \in Users, NEW n \in Amounts, Supply(u, v, n)
      PROVE  LedgerOK' /\ TransferFromIsPaidStep
  <2>1. ATokenMintScaled(n, income) \in Nat
    BY <1>0, TokensAssumption, DivideTypes DEF ATokenMintScaled
  <2>2. TransferFromIsPaidStep
    BY <1>2, OtherCalls DEF Supply
  <2>3. /\ income' = income /\ allowance' = allowance
        /\ aUser' = Refreshed(aUser, v, aUser[v].balance + ATokenMintScaled(n, income), income)
    BY <1>2 DEF Supply, indexes
  <2> QED BY <1>0, <2>1, <2>2, <2>3 DEF Refreshed, LedgerOK
<1>3. ASSUME NEW u \in Users, NEW v \in Users, NEW n \in Amounts, Withdraw(u, v, n)
      PROVE  LedgerOK' /\ TransferFromIsPaidStep
  <2>1. ATokenBurnScaled(n, income) \in Nat
    BY <1>0, TokensAssumption, DivideTypes DEF ATokenBurnScaled
  <2>2. TransferFromIsPaidStep
    BY <1>3, OtherCalls DEF Withdraw
  <2>3. /\ income' = income /\ allowance' = allowance
        /\ ATokenBurnScaled(n, income) <= aUser[u].balance
        /\ aUser' = Refreshed(aUser, u, aUser[u].balance - ATokenBurnScaled(n, income), income)
    BY <1>3 DEF Withdraw, indexes
  <2> QED BY <1>0, <2>1, <2>2, <2>3 DEF Refreshed, LedgerOK
<1>4. ASSUME NEW c \in Users, NEW u \in Users, NEW v \in Users, NEW n \in Amounts,
             NEW name, MoveTokens(name, c, u, v, n)
      PROVE  /\ income' = income /\ receipt'.call = name
             /\ aUser' \in [Users -> [balance : Nat, additionalData : Nat]]
  <2>1. ATokenTransferScaled(n, income) \in Nat
    BY <1>0, TokensAssumption, DivideTypes DEF ATokenTransferScaled
  <2> QED BY <1>4, <2>1, MovedTypes DEF MoveTokens, Emit, indexes
<1>5. ASSUME NEW u \in Users, NEW v \in Users, NEW n \in Amounts, Transfer(u, v, n)
      PROVE  LedgerOK' /\ TransferFromIsPaidStep
  BY <1>4, <1>5 DEF Transfer, LedgerOK, TransferFromIsPaidStep
<1>6. ASSUME NEW w \in Users, NEW u \in Users, NEW v \in Users, NEW n \in Amounts,
             TransferFrom(w, u, v, n)
      PROVE  LedgerOK' /\ TransferFromIsPaidStep
  <2>1. MoveTokens("transferFrom", w, u, v, n)
    BY <1>6 DEF TransferFrom
  <2> QED BY <1>4, <1>6, <2>1, TransferFromPaysStep DEF LedgerOK
<1>7. ASSUME NEW u \in Users, NEW v \in Users, NEW n \in Amounts,
             Borrow(u, v, n) \/ Repay(u, v, n)
      PROVE  LedgerOK' /\ TransferFromIsPaidStep
  <2>1. UNCHANGED <<income, aUser, allowance>>
    BY <1>7 DEF Borrow, Repay, indexes
  <2>2. CASE Borrow(u, v, n)
    <3>1. PICK events : Emit("borrow", u, v, n, events)
      BY <2>2 DEF Borrow
    <3> QED BY <2>1, <3>1, OtherCalls DEF LedgerOK
  <2>3. CASE Repay(u, v, n)
    <3>1. PICK events : Emit("repay", u, v, n, events)
      BY <2>3 DEF Repay
    <3> QED BY <2>1, <3>1, OtherCalls DEF LedgerOK
  <2> QED BY <1>7, <2>2, <2>3
<1>8. ASSUME NEW u \in Users, NEW v \in Users, NEW n \in Nat, Approve(u, v, n)
      PROVE  LedgerOK' /\ TransferFromIsPaidStep
  <2>1. TransferFromIsPaidStep
    BY <1>8, OtherCalls DEF Approve
  <2>2. /\ allowance' = [allowance EXCEPT ![<<u, v>>] = n]
        /\ income' = income /\ aUser' = aUser
    BY <1>8 DEF Approve, indexes, ledgers
  <2> QED BY <2>1, <2>2 DEF LedgerOK, Pairs
<1>9. ASSUME NEW u \in Users, NEW v \in Users, NEW n, ApproveDelegation(u, v, n)
      PROVE  LedgerOK' /\ TransferFromIsPaidStep
  <2>1. TransferFromIsPaidStep
    BY <1>9, OtherCalls DEF ApproveDelegation
  <2> QED BY <1>9, <2>1 DEF ApproveDelegation, LedgerOK, indexes, ledgers
<1>10. CASE UNCHANGED tokenVars
  BY <1>10 DEF tokenVars, indexes, ledgers, LedgerOK
<1> QED
  BY <1>1, <1>2, <1>3, <1>5, <1>6, <1>7, <1>8, <1>9, <1>10, TokensAssumption DEF TokensNext

(* Along every behaviour, for any indexes, amounts and allowances, what a  *)
(* spender pays is at least what it moves, and covers the owner's loss up  *)
(* to one scaled unit.                                                     *)
THEOREM TransferFromPays == TokensSpec => TransferFromIsPaid
<1> QED BY InitLedger, TokensStep, PTL DEF TokensSpec, TransferFromIsPaid

-----------------------------------------------------------------------------
(* The roundings of the tests.                                             *)

(* The usual way to round up in integers is rounding up.                   *)
LEMMA CeilAgrees ==
    ASSUME NEW a \in Nat, NEW b \in Nat \ {0}
    PROVE  (a + b - 1) \div b = DivCeil(a, b)
<1> DEFINE q == DivCeil(a, b)
           n == a + b - 1
           f == DivFloor(n, b)
<1>1. q \in Nat /\ a <= b * q /\ b * q < a + b
  BY RoundingTypes, CeilBounds
<1> HIDE DEF q
<1>2. n \in Nat /\ b * q <= n
  BY <1>1
<1>3. f \in Nat /\ b * f <= n
  BY <1>2, RoundingTypes, FloorBounds
<1>4. f >= q
  BY <1>1, <1>2, QuotientAtLeast
<1> HIDE DEF f
<1>5. b * f < b * (q + 1)
  <2>1. b * (q + 1) = (b * q) + b
    BY <1>1
  <2>2. QED
    BY <1>1, <1>3, <2>1
<1>6. f < q + 1
  BY <1>1, <1>3, <1>5
<1>7. f = q
  BY <1>1, <1>3, <1>4, <1>6
<1>8. QED
  BY <1>7 DEF f, q, n, DivFloor

(* The tests' roundings are those of the tokens.                           *)
LEMMA TestsRoundAlike ==
    ASSUME NEW n \in Nat, NEW index \in Nat
    PROVE  /\ getATokenBalance(n, index) = ATokenBalance(n, index)
           /\ getVTokenBalance(n, index) = VTokenBalance(n, index)
           /\ testDivFloor(n, index) = ATokenMintScaled(n, index)
           /\ index # 0 => /\ testDivCeil(n, index) = ATokenTransferScaled(n, index)
                           /\ testDivCeil(n, index) = VTokenMintScaled(n, index)
<1>1. RAY \in Nat \ {0} /\ n * index \in Nat /\ n * RAY \in Nat
  BY UnitsAssumption, ProductNat
<1>2. /\ getATokenBalance(n, index) = ATokenBalance(n, index)
      /\ testDivFloor(n, index) = ATokenMintScaled(n, index)
  BY DEF getATokenBalance, ATokenBalance, rayMulFloor, DivFloor,
         testDivFloor, ATokenMintScaled, rayDivFloor
<1>3. \A b \in Nat \ {0} : DivCeil(0, b) = 0
  BY DEF DivCeil
<1>4. getVTokenBalance(n, index) = VTokenBalance(n, index)
  <2>1. CASE n = 0 \/ index = 0
    <3>1. n * index = 0
      BY <2>1
    <3>2. QED
      BY <2>1, <3>1, <1>1, <1>3 DEF getVTokenBalance, VTokenBalance, rayMulCeil
  <2>2. CASE ~(n = 0 \/ index = 0)
    BY <2>2, <1>1, CeilAgrees DEF getVTokenBalance, VTokenBalance, rayMulCeil
  <2>3. QED
    BY <2>1, <2>2
<1>5. ASSUME index # 0
      PROVE  testDivCeil(n, index) = rayDivCeil(n, index)
  <2>1. CASE n = 0
    <3>1. n * RAY = 0
      BY <1>1, <2>1
    <3>2. QED
      BY <1>3, <1>5, <2>1, <3>1 DEF testDivCeil, rayDivCeil
  <2>2. CASE n # 0
    BY <1>1, <1>5, <2>2, CeilAgrees DEF testDivCeil, rayDivCeil
  <2>3. QED
    BY <2>1, <2>2
<1>6. QED
  BY <1>2, <1>4, <1>5 DEF ATokenTransferScaled, VTokenMintScaled

-----------------------------------------------------------------------------
(* Ledgers.                                                                *)

(* Both ledgers and both indexes are unsigned, and no index is below a ray.*)
BothLedgersOK ==
    /\ LedgerOK
    /\ debtIndex \in Nat /\ debtIndex >= RAY
    /\ vUser \in [Users -> [balance : Nat, additionalData : Nat]]

(* What a repayment burns is there.                                        *)
LEMMA BurnFits ==
    ASSUME NEW scaled \in Nat, NEW index \in Nat \ {0}, NEW amount \in Nat,
           amount < VTokenBalance(scaled, index)
    PROVE  VTokenBurnScaled(amount, index) <= scaled
<1>1. RAY \in Nat \ {0} /\ scaled * index \in Nat /\ amount * RAY \in Nat
  BY UnitsAssumption, ProductNat
<1>2. RAY * VTokenBalance(scaled, index) < (scaled * index) + RAY
  BY <1>1, CeilBounds DEF VTokenBalance, rayMulCeil
<1>3. VTokenBalance(scaled, index) \in Nat
  BY MultiplyTypes
<1>4. RAY * (amount + 1) <= RAY * VTokenBalance(scaled, index)
  BY <1>1, <1>3, ProductMonotone
<1>5. amount * RAY <= index * scaled
  <2>1. RAY * (amount + 1) = (amount * RAY) + RAY /\ index * scaled = scaled * index
    BY <1>1
  <2>2. RAY * VTokenBalance(scaled, index) \in Nat
    BY <1>1, <1>3, ProductNat
  <2>3. QED
    BY <1>1, <1>2, <1>4, <2>1, <2>2
<1>6. QED
  BY <1>1, <1>5, QuotientAtMost DEF VTokenBurnScaled, rayDivFloor

(* Initially.                                                              *)
LEMMA InitBothLedgers == TokensInit => BothLedgersOK
<1>1. RAY \in Nat
  BY UnitsAssumption
<1>2. QED
  BY <1>1, InitLedger DEF TokensInit, BothLedgersOK

(* The debt token after a borrow and after a repayment.                    *)
LEMMA DebtLedgerKept ==
    ASSUME BothLedgersOK, NEW u \in Users, NEW v \in Users, NEW n \in Amounts,
           Borrow(u, v, n) \/ Repay(u, v, n)
    PROVE  vUser' \in [Users -> [balance : Nat, additionalData : Nat]]
<1>1. /\ debtIndex \in Nat \ {0} /\ n \in Nat /\ vUser[v].balance \in Nat
      /\ vUser \in [Users -> [balance : Nat, additionalData : Nat]]
  BY UnitsAssumption, TokensAssumption DEF BothLedgersOK
<1>2. VTokenMintScaled(n, debtIndex) \in Nat /\ VTokenBurnScaled(n, debtIndex) \in Nat
      /\ VTokenBalance(vUser[v].balance, debtIndex) \in Nat
  BY <1>1, DivideTypes, MultiplyTypes
<1>3. CASE Borrow(u, v, n)
  <2>1. vUser' = Refreshed(vUser, v, vUser[v].balance + VTokenMintScaled(n, debtIndex),
                           debtIndex)
    BY <1>3 DEF Borrow
  <2>2. QED
    BY <1>1, <1>2, <2>1 DEF Refreshed
<1>4. CASE Repay(u, v, n)
  <2> DEFINE scaled == IF n >= VTokenBalance(vUser[v].balance, debtIndex)
                         THEN vUser[v].balance ELSE VTokenBurnScaled(n, debtIndex)
  <2>1. vUser' = Refreshed(vUser, v, vUser[v].balance - scaled, debtIndex)
    BY <1>4 DEF Repay
  <2>2. scaled \in Nat /\ scaled <= vUser[v].balance
    <3>1. CASE n >= VTokenBalance(vUser[v].balance, debtIndex)
      BY <3>1, <1>1
    <3>2. CASE ~(n >= VTokenBalance(vUser[v].balance, debtIndex))
      BY <3>2, <1>1, <1>2, BurnFits
    <3>3. QED
      BY <3>1, <3>2
  <2> HIDE DEF scaled
  <2>3. vUser[v].balance - scaled \in Nat
    BY <1>1, <2>2
  <2>4. QED
    BY <1>1, <2>1, <2>3 DEF Refreshed
<1>5. QED
  BY <1>3, <1>4

(* Both ledgers stay unsigned.                                             *)
LEMMA BothLedgersKept == BothLedgersOK /\ [TokensNext]_tokenVars => BothLedgersOK'
<1> SUFFICES ASSUME BothLedgersOK, [TokensNext]_tokenVars
             PROVE  BothLedgersOK'
  OBVIOUS
<1>1. LedgerOK'
  BY TokensStep DEF BothLedgersOK
<1>2. CASE Accrue
  BY <1>1, <1>2, UnitsAssumption, TokensAssumption DEF Accrue, BothLedgersOK, ledgers
<1>3. ASSUME NEW u \in Users, NEW v \in Users, NEW n \in Amounts,
             Borrow(u, v, n) \/ Repay(u, v, n)
      PROVE  BothLedgersOK'
  BY <1>1, <1>3, DebtLedgerKept DEF Borrow, Repay, BothLedgersOK, indexes
<1>4. ASSUME UNCHANGED <<debtIndex, vUser>>
      PROVE  BothLedgersOK'
  BY <1>1, <1>4 DEF BothLedgersOK
<1>5. ASSUME NEW u \in Users, NEW v \in Users, NEW n \in Amounts,
             \/ Supply(u, v, n) \/ Withdraw(u, v, n) \/ Transfer(u, v, n)
             \/ \E w \in Users : TransferFrom(w, u, v, n)
      PROVE  UNCHANGED <<debtIndex, vUser>>
  BY <1>5 DEF Supply, Withdraw, Transfer, TransferFrom, MoveTokens, indexes
<1>6. ASSUME NEW u \in Users, NEW v \in Users, NEW n,
             Approve(u, v, n) \/ ApproveDelegation(u, v, n)
      PROVE  UNCHANGED <<debtIndex, vUser>>
  BY <1>6 DEF Approve, ApproveDelegation, indexes, ledgers
<1>7. CASE UNCHANGED tokenVars
  BY <1>4, <1>7 DEF tokenVars, indexes, ledgers
<1>8. QED
  BY <1>2, <1>3, <1>4, <1>5, <1>6, <1>7 DEF TokensNext

-----------------------------------------------------------------------------
(* The events the tests look for.                                          *)

(* What is in a short receipt.                                             *)
LEMMA InReceipt ==
    /\ ToSet(<<>>) = {}
    /\ \A x : <<x>> \in Seq({x}) /\ ToSet(<<x>>) = {x}
    /\ \A x, y : <<x, y>> \in Seq({x, y}) /\ ToSet(<<x, y>>) = {x, y}
  BY DEF ToSet

Joined(a, b) == a \o b

(* What is in a receipt that is put together.                              *)
LEMMA InConcat ==
    ASSUME NEW A, NEW B, NEW a, NEW b, a \in Seq(A), b \in Seq(B)
    PROVE  ToSet(Joined(a, b)) = ToSet(a) \cup ToSet(b)
<1>1. a \in Seq(A \cup B) /\ b \in Seq(A \cup B)
  OBVIOUS
<1>2. /\ a \o b \in Seq(A \cup B) /\ Len(a) \in Nat /\ Len(b) \in Nat
      /\ Len(a \o b) = Len(a) + Len(b)
      /\ \A i \in 1..Len(a) : (a \o b)[i] = a[i]
      /\ \A i \in 1..Len(b) : (a \o b)[Len(a) + i] = b[i]
  BY <1>1
<1> DEFINE c == a \o b
<1> HIDE DEF c
<1>3. /\ ToSet(c) = {c[i] : i \in 1..Len(c)}
      /\ ToSet(a) = {a[i] : i \in 1..Len(a)} /\ ToSet(b) = {b[i] : i \in 1..Len(b)}
  BY <1>2 DEF ToSet, c
<1>4. /\ c \in Seq(A \cup B) /\ Len(a) \in Nat /\ Len(b) \in Nat
      /\ Len(c) = Len(a) + Len(b)
      /\ \A i \in 1..Len(a) : c[i] = a[i]
      /\ \A i \in 1..Len(b) : c[Len(a) + i] = b[i]
  BY <1>2 DEF c
<1>5. ASSUME NEW i \in 1..Len(c)
      PROVE  c[i] \in ToSet(a) \cup ToSet(b)
  <2>1. CASE i <= Len(a)
    BY <1>3, <1>4, <2>1
  <2>2. CASE i > Len(a)
    <3>1. i - Len(a) \in 1..Len(b) /\ i = Len(a) + (i - Len(a))
      BY <1>4, <2>2
    <3>2. QED
      BY <1>3, <1>4, <3>1
  <2>3. QED
    BY <1>4, <2>1, <2>2
<1>6. ToSet(a) \subseteq ToSet(c)
  BY <1>3, <1>4
<1>7. ToSet(b) \subseteq ToSet(c)
  <2>1. \A i \in 1..Len(b) : Len(a) + i \in 1..Len(c)
    BY <1>4
  <2>2. QED
    BY <1>3, <1>4, <2>1
<1>8. ToSet(c) = ToSet(a) \cup ToSet(b)
  BY <1>3, <1>5, <1>6, <1>7
<1>9. QED
  BY <1>4, <1>8 DEF c, Joined

(* It is a sequence again.                                                 *)
LEMMA ConcatIsSeq ==
    ASSUME NEW A, NEW B, NEW a, NEW b, a \in Seq(A), b \in Seq(B)
    PROVE  \E S : Joined(a, b) \in Seq(S)
<1>1. a \in Seq(A \cup B) /\ b \in Seq(A \cup B)
  OBVIOUS
<1>2. a \o b \in Seq(A \cup B)
  BY <1>1
<1>3. QED
  BY <1>2 DEF Joined

(* Mints and burns emit what the tests expect of them.                     *)
LEMMA MintsAsExpected ==
    ASSUME NEW t, NEW caller, NEW u, NEW previous, NEW current, NEW next, NEW index
    PROVE  LET es == MintEvents(t, caller, u, previous, current, next, index)
           IN  /\ \E S : es \in Seq(S)
               /\ ToSet(es) = MintExpected(t, caller, u, next - previous,
                                           current - previous, index)
  BY InReceipt DEF MintEvents, MintExpected

(* A burn, or the mint it becomes when the interest exceeds it.            *)
LEMMA BurnsAsExpected ==
    ASSUME NEW t, NEW u, NEW target, NEW previous, NEW current, NEW next, NEW index
    PROVE  LET es == BurnEvents(t, u, target, previous, current, next, index)
           IN  /\ \E S : es \in Seq(S)
               /\ ToSet(es) = LeftExpected(t, u, target, previous, next,
                                           current - previous, index)
<1>1. CASE next > previous
  BY <1>1, MintsAsExpected DEF BurnEvents, LeftExpected
<1>2. CASE ~(next > previous)
  BY <1>2, InReceipt DEF BurnEvents, LeftExpected
<1>3. QED
  BY <1>1, <1>2

(* One more event at the start or at the end of a receipt.                 *)
LEMMA OneMore ==
    ASSUME NEW S, NEW es \in Seq(S), NEW e
    PROVE  /\ ToSet(<<e>> \o es) = {e} \cup ToSet(es)
           /\ ToSet(es \o <<e>>) = {e} \cup ToSet(es)
<1> DEFINE one == <<e>>
<1>1. one \in Seq({e}) /\ ToSet(one) = {e}
  BY InReceipt
<1> HIDE DEF one
<1>2. PICK T : one \in Seq(T)
  BY <1>1
<1>3. ToSet(Joined(one, es)) = ToSet(one) \cup ToSet(es)
  BY <1>2, InConcat
<1>4. ToSet(Joined(es, one)) = ToSet(es) \cup ToSet(one)
  BY <1>2, InConcat
<1>5. QED
  BY <1>1, <1>3, <1>4 DEF one, Joined

(* Abbreviation: the last call emitted what the tests look for.            *)
AsExpected == Expected(receipt', Reading, Reading') \subseteq ToSet(receipt'.events)

(* The events of a supply.                                                 *)
LEMMA SupplyAsExpected ==
    ASSUME BothLedgersOK, NEW u \in Users, NEW v \in Users, NEW n \in Amounts,
           Supply(u, v, n)
    PROVE  AsExpected
<1> DEFINE old    == aUser[v]
           new    == old.balance + ATokenMintScaled(n, income)
           told   == ATokenBalance(old.balance, old.additionalData)
           now    == ATokenBalance(old.balance, income)
           next   == ATokenBalance(new, income)
           mints  == MintEvents("aToken", u, v, told, now, next, income)
           first  == TransferEvent("underlying", u, "aToken", n)
<1>1. /\ income \in Nat \ {0} /\ n \in Nat
      /\ old.balance \in Nat /\ old.additionalData \in Nat
  BY UnitsAssumption, TokensAssumption DEF BothLedgersOK, LedgerOK
<1>2. new \in Nat
  <2>1. ATokenMintScaled(n, income) \in Nat
    BY <1>1, DivideTypes
  <2>2. QED
    BY <1>1, <2>1
<1>3. receipt' = [call |-> "supply", user |-> u, account |-> v, amount |-> n,
                  events |-> <<first>> \o mints]
      /\ income' = income
  BY DEF Supply, Emit, indexes
<1>4. ToSet(receipt'.events)
        = {first} \cup MintExpected("aToken", u, v, next - told, now - told, income)
  <2>1. PICK S : mints \in Seq(S)
    BY MintsAsExpected
  <2> HIDE DEF first, mints
  <2>2. ToSet(<<first>> \o mints) = {first} \cup ToSet(mints)
    BY <2>1, OneMore
  <2>3. ToSet(mints) = MintExpected("aToken", u, v, next - told, now - told, income)
    BY MintsAsExpected DEF mints
  <2>4. receipt'.events = <<first>> \o mints
    BY <1>3
  <2>5. QED
    BY <2>2, <2>3, <2>4
<1>5. Expected(receipt', Reading, Reading') = SupplyExpected(u, v, n, old, income)
  BY <1>3 DEF Expected, Reading
<1>6. SupplyExpected(u, v, n, old, income)
        = {first} \cup MintExpected("aToken", u, v, next - told, now - told, income)
  BY <1>1, <1>2, TestsRoundAlike DEF SupplyExpected, getATokenBalanceIncrease
<1>7. QED
  BY <1>4, <1>5, <1>6 DEF AsExpected

(* The events of a withdrawal.                                             *)
LEMMA WithdrawAsExpected ==
    ASSUME BothLedgersOK, NEW u \in Users, NEW v \in Users, NEW n \in Amounts,
           Withdraw(u, v, n)
    PROVE  AsExpected
<1> DEFINE old    == aUser[u]
           new    == old.balance - ATokenBurnScaled(n, income)
           told   == ATokenBalance(old.balance, old.additionalData)
           now    == ATokenBalance(old.balance, income)
           next   == ATokenBalance(new, income)
           burns  == BurnEvents("aToken", u, v, told, now, next, income)
           last   == TransferEvent("underlying", "aToken", v, n)
<1>1. /\ income \in Nat \ {0} /\ n \in Nat
      /\ old.balance \in Nat /\ old.additionalData \in Nat
  BY UnitsAssumption, TokensAssumption DEF BothLedgersOK, LedgerOK
<1>2. new \in Nat
  <2>1. ATokenBurnScaled(n, income) \in Nat
    BY <1>1, DivideTypes
  <2>2. ATokenBurnScaled(n, income) <= old.balance
    BY DEF Withdraw
  <2>3. QED
    BY <1>1, <2>1, <2>2
<1>3. /\ receipt' = [call |-> "withdraw", user |-> u, account |-> v, amount |-> n,
                     events |-> burns \o <<last>>]
      /\ income' = income
      /\ aUser' = Refreshed(aUser, u, new, income)
  BY DEF Withdraw, Emit, indexes
<1>4. ToSet(receipt'.events)
        = {last} \cup LeftExpected("aToken", u, v, told, next, now - told, income)
  <2>1. PICK S : burns \in Seq(S)
    BY BurnsAsExpected
  <2> HIDE DEF last, burns
  <2>2. ToSet(burns \o <<last>>) = {last} \cup ToSet(burns)
    BY <2>1, OneMore
  <2>3. ToSet(burns) = LeftExpected("aToken", u, v, told, next, now - told, income)
    BY BurnsAsExpected DEF burns
  <2>4. receipt'.events = burns \o <<last>>
    BY <1>3
  <2>5. QED
    BY <2>2, <2>3, <2>4
<1>5. aUser'[u].balance = new
  BY <1>3 DEF Refreshed, BothLedgersOK, LedgerOK
<1>6. Expected(receipt', Reading, Reading')
        = WithdrawExpected(u, v, n, old, aUser'[u], income)
  BY <1>3 DEF Expected, Reading
<1>7. WithdrawExpected(u, v, n, old, aUser'[u], income)
        = {last} \cup LeftExpected("aToken", u, v, told, next, now - told, income)
  BY <1>1, <1>2, <1>5, TestsRoundAlike DEF WithdrawExpected
<1>8. QED
  BY <1>4, <1>6, <1>7 DEF AsExpected

(* The events of a borrow.                                                 *)
LEMMA BorrowAsExpected ==
    ASSUME BothLedgersOK, NEW u \in Users, NEW v \in Users, NEW n \in Amounts,
           Borrow(u, v, n)
    PROVE  AsExpected
<1> DEFINE old    == vUser[v]
           new    == old.balance + VTokenMintScaled(n, debtIndex)
           told   == VTokenBalance(old.balance, old.additionalData)
           now    == VTokenBalance(old.balance, debtIndex)
           next   == VTokenBalance(new, debtIndex)
           mints  == MintEvents("debtToken", u, v, told, now, next, debtIndex)
           last   == TransferEvent("underlying", "aToken", u, n)
<1>1. /\ debtIndex \in Nat \ {0} /\ n \in Nat
      /\ old.balance \in Nat /\ old.additionalData \in Nat
  BY UnitsAssumption, TokensAssumption DEF BothLedgersOK
<1>2. new \in Nat
  <2>1. VTokenMintScaled(n, debtIndex) \in Nat
    BY <1>1, DivideTypes
  <2>2. QED
    BY <1>1, <2>1
<1>3. /\ receipt' = [call |-> "borrow", user |-> u, account |-> v, amount |-> n,
                     events |-> mints \o <<last>>]
      /\ debtIndex' = debtIndex
  BY DEF Borrow, Emit, indexes
<1>4. ToSet(receipt'.events)
        = {last} \cup MintExpected("debtToken", u, v, next - told, now - told, debtIndex)
  <2>1. PICK S : mints \in Seq(S)
    BY MintsAsExpected
  <2> HIDE DEF last, mints
  <2>2. ToSet(mints \o <<last>>) = {last} \cup ToSet(mints)
    BY <2>1, OneMore
  <2>3. ToSet(mints) = MintExpected("debtToken", u, v, next - told, now - told, debtIndex)
    BY MintsAsExpected DEF mints
  <2>4. receipt'.events = mints \o <<last>>
    BY <1>3
  <2>5. QED
    BY <2>2, <2>3, <2>4
<1>5. Expected(receipt', Reading, Reading')
        = VariableBorrowExpected(u, v, n, old, debtIndex)
  BY <1>3 DEF Expected, Reading
<1>6. VariableBorrowExpected(u, v, n, old, debtIndex)
        = {last} \cup MintExpected("debtToken", u, v, next - told, now - told, debtIndex)
  BY <1>1, <1>2, TestsRoundAlike DEF VariableBorrowExpected, getVTokenBalanceIncrease
<1>7. QED
  BY <1>4, <1>5, <1>6 DEF AsExpected

(* The events of a repayment.                                              *)
LEMMA RepayAsExpected ==
    ASSUME BothLedgersOK, NEW u \in Users, NEW v \in Users, NEW n \in Amounts,
           Repay(u, v, n)
    PROVE  AsExpected
<1> DEFINE old    == vUser[v]
           now    == VTokenBalance(old.balance, debtIndex)
           new    == old.balance - (IF n >= now THEN old.balance
                                                ELSE VTokenBurnScaled(n, debtIndex))
           told   == VTokenBalance(old.balance, old.additionalData)
           next   == VTokenBalance(new, debtIndex)
           burns  == BurnEvents("debtToken", v, NoOne, told, now, next, debtIndex)
           last   == TransferEvent("underlying", u, "aToken", n)
<1>1. /\ debtIndex \in Nat \ {0} /\ n \in Nat
      /\ old.balance \in Nat /\ old.additionalData \in Nat
  BY UnitsAssumption, TokensAssumption DEF BothLedgersOK
<1>2. /\ receipt' = [call |-> "repay", user |-> u, account |-> v, amount |-> n,
                     events |-> burns \o <<last>>]
      /\ debtIndex' = debtIndex
      /\ vUser' = Refreshed(vUser, v, new, debtIndex)
  BY DEF Repay, Emit, indexes
<1>3. vUser'[v].balance = new
  BY <1>2 DEF Refreshed, BothLedgersOK
<1>4. new \in Nat
  BY <1>3, DebtLedgerKept
<1>5. ToSet(receipt'.events)
        = {last} \cup LeftExpected("debtToken", v, NoOne, told, next, now - told, debtIndex)
  <2>1. PICK S : burns \in Seq(S)
    BY BurnsAsExpected
  <2> HIDE DEF last, burns
  <2>2. ToSet(burns \o <<last>>) = {last} \cup ToSet(burns)
    BY <2>1, OneMore
  <2>3. ToSet(burns) = LeftExpected("debtToken", v, NoOne, told, next, now - told, debtIndex)
    BY BurnsAsExpected DEF burns
  <2>4. receipt'.events = burns \o <<last>>
    BY <1>2
  <2>5. QED
    BY <2>2, <2>3, <2>4
<1>6. Expected(receipt', Reading, Reading')
        = RepayVariableBorrowExpected(u, v, n, old, vUser'[v], debtIndex)
  BY <1>2 DEF Expected, Reading
<1>7. RepayVariableBorrowExpected(u, v, n, old, vUser'[v], debtIndex)
        = {last} \cup LeftExpected("debtToken", v, NoOne, told, next, now - told, debtIndex)
  BY <1>1, <1>3, <1>4, TestsRoundAlike DEF RepayVariableBorrowExpected
<1>8. QED
  BY <1>5, <1>6, <1>7 DEF AsExpected

(* The interest that a transfer mints is what the tests expect.            *)
LEMMA AccrualAsExpected ==
    ASSUME BothLedgersOK, NEW caller \in Users, NEW u \in Users
    PROVE  /\ BalanceIncrease(u) \in Int
           /\ getATokenBalanceIncrease(aUser[u].balance, aUser[u].additionalData, income)
                = BalanceIncrease(u)
           /\ \E S : AccrualEvents(caller, u) \in Seq(S)
           /\ InterestExpected(caller, u, BalanceIncrease(u), income)
                \subseteq ToSet(AccrualEvents(caller, u))
<1> DEFINE b == aUser[u].balance
           d == aUser[u].additionalData
           i == BalanceIncrease(u)
           minted == TransferEvent("aToken", NoOne, u, i)
           told == MintEvent("aToken", caller, u, i, i, income)
<1>1. income \in Nat /\ b \in Nat /\ d \in Nat
  BY DEF BothLedgersOK, LedgerOK
<1>2. /\ i \in Int
      /\ getATokenBalanceIncrease(b, d, income) = i
  <2>1. i = ATokenBalance(b, income) - ATokenBalance(b, d)
    BY DEF BalanceIncrease
  <2>2. getATokenBalanceIncrease(b, d, income)
          = getATokenBalance(b, income) - getATokenBalance(b, d)
    BY DEF getATokenBalanceIncrease
  <2> HIDE DEF b, d, i
  <2>3. /\ ATokenBalance(b, income) \in Nat /\ ATokenBalance(b, d) \in Nat
        /\ getATokenBalance(b, income) = ATokenBalance(b, income)
        /\ getATokenBalance(b, d) = ATokenBalance(b, d)
    BY <1>1, MultiplyTypes, TestsRoundAlike
  <2>4. QED
    BY <2>1, <2>2, <2>3
<1>3. /\ \E S : AccrualEvents(caller, u) \in Seq(S)
      /\ InterestExpected(caller, u, i, income) \subseteq ToSet(AccrualEvents(caller, u))
  <2>1. AccrualEvents(caller, u) = IF i = 0 THEN <<>> ELSE <<minted, told>>
    BY DEF AccrualEvents
  <2>2. InterestExpected(caller, u, i, income) = IF i > 0 THEN {minted, told} ELSE {}
    BY DEF InterestExpected, MintExpected
  <2> HIDE DEF i, minted, told
  <2>3. CASE i = 0
    <3>1. <<>> \in Seq({})
      OBVIOUS
    <3>2. QED
      BY <2>1, <2>2, <2>3, <3>1
  <2>4. CASE i # 0
    BY <1>2, <2>1, <2>2, <2>4, InReceipt
  <2>5. QED
    BY <2>3, <2>4
<1>4. QED
  BY <1>2, <1>3

(* The events of a transfer, by the owner or by a spender.                 *)
LEMMA MoveAsExpected ==
    ASSUME BothLedgersOK, NEW name \in {"transfer", "transferFrom"}, NEW caller \in Users,
           NEW from \in Users, NEW to \in Users, NEW n \in Amounts,
           MoveTokens(name, caller, from, to, n)
    PROVE  AsExpected
<1> DEFINE scaled == ATokenTransferScaled(n, income)
           mine   == AccrualEvents(caller, from)
           theirs == IF from # to THEN AccrualEvents(caller, to) ELSE <<>>
           moved  == <<TransferEvent("aToken", from, to, n),
                       BalanceTransferEvent(from, to, scaled, income)>>
           toIncrease == IF from = to THEN 0 ELSE BalanceIncrease(to)
<1>1. income \in Nat \ {0} /\ n \in Nat
  BY UnitsAssumption, TokensAssumption DEF BothLedgersOK, LedgerOK
<1>2. /\ receipt' = [call |-> name, user |-> caller, account |-> <<from, to>>, amount |-> n,
                     events |-> mine \o theirs \o moved]
      /\ income' = income
  BY DEF MoveTokens, Emit, indexes
<1>3. Expected(receipt', Reading, Reading')
        = TransferExpected(caller, from, to, n, aUser[from], aUser[to], income)
  BY <1>2 DEF Expected, Reading
<1>4. TransferExpected(caller, from, to, n, aUser[from], aUser[to], income)
        = {TransferEvent("aToken", from, to, n),
           BalanceTransferEvent(from, to, scaled, income)}
          \cup InterestExpected(caller, from, BalanceIncrease(from), income)
          \cup InterestExpected(caller, to, toIncrease, income)
  BY <1>1, AccrualAsExpected, TestsRoundAlike DEF TransferExpected
<1>5. /\ \E S : mine \in Seq(S)
      /\ InterestExpected(caller, from, BalanceIncrease(from), income) \subseteq ToSet(mine)
  BY AccrualAsExpected
<1>6. /\ \E S : theirs \in Seq(S)
      /\ InterestExpected(caller, to, toIncrease, income) \subseteq ToSet(theirs)
  <2>1. CASE from = to
    BY <2>1 DEF InterestExpected
  <2>2. CASE from # to
    BY <2>2, AccrualAsExpected
  <2>3. QED
    BY <2>1, <2>2
<1>7. /\ \E S : moved \in Seq(S)
      /\ ToSet(moved) = {TransferEvent("aToken", from, to, n),
                         BalanceTransferEvent(from, to, scaled, income)}
  BY InReceipt
<1>8. receipt'.events = Joined(Joined(mine, theirs), moved)
  BY <1>2 DEF Joined
<1> HIDE DEF mine, theirs, moved
<1>9. ToSet(receipt'.events) = ToSet(mine) \cup ToSet(theirs) \cup ToSet(moved)
  <2>1. ToSet(Joined(mine, theirs)) = ToSet(mine) \cup ToSet(theirs)
    BY <1>5, <1>6, InConcat
  <2>2. \E S : Joined(mine, theirs) \in Seq(S)
    BY <1>5, <1>6, ConcatIsSeq
  <2>3. ToSet(Joined(Joined(mine, theirs), moved))
          = ToSet(Joined(mine, theirs)) \cup ToSet(moved)
    BY <1>7, <2>2, InConcat
  <2>4. QED
    BY <1>8, <2>1, <2>3
<1>10. QED
  BY <1>3, <1>4, <1>5, <1>6, <1>7, <1>9 DEF AsExpected

(* A call about allowances, and the growth of the indexes, promise nothing.*)
LEMMA OthersAsExpected ==
    ASSUME receipt'.call \in {"none", "approve", "approveDelegation"}
    PROVE  AsExpected
<1>1. Expected(receipt', Reading, Reading') = {}
  BY DEF Expected
<1>2. QED
  BY <1>1 DEF AsExpected

(* No step misses an expected event.                                       *)
LEMMA EventsStep ==
    BothLedgersOK /\ [TokensNext]_tokenVars => [AsExpected]_tokenVars
<1> SUFFICES ASSUME BothLedgersOK, [TokensNext]_tokenVars
             PROVE  [AsExpected]_tokenVars
  OBVIOUS
<1>1. CASE Accrue
  <2>1. receipt'.call = "none"
    BY <1>1 DEF Accrue
  <2>2. QED
    BY <2>1, OthersAsExpected
<1>2. ASSUME NEW u \in Users, NEW v \in Users, NEW n \in Amounts,
             \/ Supply(u, v, n) \/ Withdraw(u, v, n) \/ Transfer(u, v, n)
             \/ Borrow(u, v, n) \/ Repay(u, v, n)
      PROVE  AsExpected
  <2>1. CASE Transfer(u, v, n)
    BY <2>1, MoveAsExpected DEF Transfer
  <2>2. CASE Supply(u, v, n) \/ Withdraw(u, v, n) \/ Borrow(u, v, n) \/ Repay(u, v, n)
    BY <2>2, SupplyAsExpected, WithdrawAsExpected, BorrowAsExpected, RepayAsExpected
  <2>3. QED
    BY <1>2, <2>1, <2>2
<1>3. ASSUME NEW w \in Users, NEW u \in Users, NEW v \in Users, NEW n \in Amounts,
             TransferFrom(w, u, v, n)
      PROVE  AsExpected
  <2>1. MoveTokens("transferFrom", w, u, v, n)
    BY <1>3 DEF TransferFrom
  <2>2. QED
    BY <2>1, MoveAsExpected
<1>4. ASSUME NEW u \in Users, NEW v \in Users, NEW n,
             Approve(u, v, n) \/ ApproveDelegation(u, v, n)
      PROVE  AsExpected
  <2>1. receipt'.call \in {"approve", "approveDelegation"}
    BY <1>4 DEF Approve, ApproveDelegation, Emit
  <2>2. QED
    BY <2>1, OthersAsExpected
<1>5. QED
  BY <1>1, <1>2, <1>3, <1>4 DEF TokensNext

(* Every event the tests look for is emitted, with the arguments the tests *)
(* compute, whatever interest came since an account was last touched.      *)
THEOREM EventsAreAsExpected == TokensSpec => EventsAsExpected
<1>1. BothLedgersOK /\ [TokensNext]_tokenVars => [AsExpected]_tokenVars
  BY EventsStep
<1>2. QED
  BY <1>1, InitBothLedgers, BothLedgersKept, PTL DEF TokensSpec, EventsAsExpected, AsExpected

-----------------------------------------------------------------------------
(* What Transfer events add up to.                                         *)

(* The function a sum is computed with, for the first n events.            *)
Sums(es, t, u, n, g) ==
    g = [i \in 0..n |-> IF i = 0 THEN 0 ELSE g[i - 1] + Given(es[i], t, u)]

SumsOf(es, t, u, n) == CHOOSE g : Sums(es, t, u, n, g)

(* The sum is what that function ends with.                                *)
LEMMA NetIsLast ==
    ASSUME NEW es, NEW t, NEW u
    PROVE  Net(es, t, u) = SumsOf(es, t, u, Len(es))[Len(es)]
  BY DEF Net, SumsOf, Sums

(* Such a function exists: it grows by one event at a time.                *)
LEMMA SumsExist ==
    ASSUME NEW es, NEW t, NEW u, NEW n \in Nat
    PROVE  \E g : Sums(es, t, u, n, g)
<1> DEFINE T == {m \in Nat : \E g : Sums(es, t, u, m, g)}
<1>1. 0 \in T
  <2>1. Sums(es, t, u, 0, [i \in 0..0 |-> 0])
    BY DEF Sums
  <2>2. QED
    BY <2>1
<1>2. ASSUME NEW m \in T PROVE m + 1 \in T
  <2>1. PICK g : Sums(es, t, u, m, g)
    OBVIOUS
  <2> DEFINE h == [i \in 0..(m + 1) |->
                      IF i = 0 THEN 0 ELSE g[i - 1] + Given(es[i], t, u)]
  <2>2. \A i \in 0..m : h[i] = g[i]
    BY <2>1 DEF Sums
  <2>3. \A i \in 0..(m + 1) : i # 0 => i - 1 \in 0..m
    OBVIOUS
  <2>4. h = [i \in 0..(m + 1) |-> IF i = 0 THEN 0 ELSE h[i - 1] + Given(es[i], t, u)]
    BY <2>2, <2>3
  <2>5. Sums(es, t, u, m + 1, h)
    BY <2>4 DEF Sums
  <2>6. m + 1 \in Nat
    OBVIOUS
  <2>7. QED
    BY <2>5, <2>6
<1>3. T = Nat
  <2>1. T \in SUBSET Nat
    OBVIOUS
  <2> HIDE DEF T
  <2>2. QED
    BY <1>1, <1>2, <2>1, NumberInduction
<1>4. QED
  BY <1>3

(* How a sum proceeds.                                                     *)
LEMMA SumsUnfold ==
    ASSUME NEW es, NEW t, NEW u, NEW n \in Nat
    PROVE  /\ SumsOf(es, t, u, n)[0] = 0
           /\ \A i \in 1..n :
                 SumsOf(es, t, u, n)[i]
                   = SumsOf(es, t, u, n)[i - 1] + Given(es[i], t, u)
<1> DEFINE g == SumsOf(es, t, u, n)
<1>1. Sums(es, t, u, n, g)
  BY SumsExist DEF SumsOf
<1> HIDE DEF g
<1>2. g = [i \in 0..n |-> IF i = 0 THEN 0 ELSE g[i - 1] + Given(es[i], t, u)]
  BY <1>1 DEF Sums
<1>3. g[0] = 0 /\ \A i \in 1..n : g[i] = g[i - 1] + Given(es[i], t, u)
  BY <1>2
<1>4. QED
  BY <1>3 DEF g

(* Events that give or take whole amounts.                                 *)
Countable(es, t, u) == \A i \in 1..Len(es) : Given(es[i], t, u) \in Int

(* The sum over a receipt that is put together is that of its parts.       *)
LEMMA NetConcat ==
    ASSUME NEW A, NEW B, NEW a, NEW b, a \in Seq(A), b \in Seq(B), NEW t, NEW u,
           Countable(a, t, u), Countable(b, t, u)
    PROVE  /\ Net(a, t, u) \in Int /\ Net(b, t, u) \in Int
           /\ Net(Joined(a, b), t, u) = Net(a, t, u) + Net(b, t, u)
           /\ Countable(Joined(a, b), t, u)
<1> DEFINE c == Joined(a, b)
           x == SumsOf(c, t, u, Len(c))
           y == SumsOf(a, t, u, Len(a))
           z == SumsOf(b, t, u, Len(b))
           P == {i \in Nat : i <= Len(a) => x[i] = y[i] /\ y[i] \in Int}
           Q == {j \in Nat : j <= Len(b) => x[Len(a) + j] = y[Len(a)] + z[j] /\ z[j] \in Int}
<1>1. /\ Len(a) \in Nat /\ Len(b) \in Nat /\ Len(c) = Len(a) + Len(b)
      /\ \A i \in 1..Len(a) : c[i] = a[i]
      /\ \A j \in 1..Len(b) : c[Len(a) + j] = b[j]
  <2>1. a \in Seq(A \cup B) /\ b \in Seq(A \cup B)
    OBVIOUS
  <2>2. QED
    BY <2>1 DEF Joined
<1>2. /\ x[0] = 0
      /\ \A i \in 1..(Len(a) + Len(b)) : x[i] = x[i - 1] + Given(c[i], t, u)
  <2> HIDE DEF c
  <2>1. Len(c) \in Nat
    BY <1>1
  <2>2. x[0] = 0 /\ \A i \in 1..Len(c) : x[i] = x[i - 1] + Given(c[i], t, u)
    BY <2>1, SumsUnfold
  <2> HIDE DEF x
  <2>3. QED
    BY <1>1, <2>2
<1>3. /\ y[0] = 0 /\ y[Len(a)] = Net(a, t, u)
      /\ \A i \in 1..Len(a) : y[i] = y[i - 1] + Given(a[i], t, u)
  BY <1>1, SumsUnfold, NetIsLast
<1>4. /\ z[0] = 0 /\ z[Len(b)] = Net(b, t, u)
      /\ \A j \in 1..Len(b) : z[j] = z[j - 1] + Given(b[j], t, u)
  BY <1>1, SumsUnfold, NetIsLast
<1>5. Net(c, t, u) = x[Len(a) + Len(b)]
  <2> HIDE DEF c
  <2>1. Net(c, t, u) = x[Len(c)]
    BY NetIsLast
  <2>2. QED
    BY <1>1, <2>1
<1> HIDE DEF c, x, y, z
<1>6. P = Nat
  <2>1. P \in SUBSET Nat /\ 0 \in P
    BY <1>2, <1>3
  <2>2. ASSUME NEW i \in P PROVE i + 1 \in P
    <3>1. ASSUME i + 1 <= Len(a) PROVE x[i + 1] = y[i + 1] /\ y[i + 1] \in Int
      <4>1. i + 1 \in 1..Len(a) /\ i + 1 \in 1..(Len(a) + Len(b)) /\ (i + 1) - 1 = i
            /\ i <= Len(a)
        BY <1>1, <3>1
      <4>2. x[i] = y[i] /\ y[i] \in Int /\ Given(a[i + 1], t, u) \in Int
        BY <4>1 DEF Countable
      <4>3. x[i + 1] = x[i] + Given(a[i + 1], t, u)
        BY <1>1, <1>2, <4>1
      <4>4. y[i + 1] = y[i] + Given(a[i + 1], t, u)
        BY <1>3, <4>1
      <4>5. QED
        BY <4>2, <4>3, <4>4
    <3>2. QED
      BY <3>1
  <2> HIDE DEF P
  <2>3. QED
    BY <2>1, <2>2, NumberInduction
<1>7. x[Len(a)] = y[Len(a)] /\ y[Len(a)] \in Int
  BY <1>1, <1>6
<1>8. Q = Nat
  <2>1. Q \in SUBSET Nat /\ 0 \in Q
    BY <1>1, <1>4, <1>7
  <2>2. ASSUME NEW j \in Q PROVE j + 1 \in Q
    <3>1. ASSUME j + 1 <= Len(b)
          PROVE  x[Len(a) + (j + 1)] = y[Len(a)] + z[j + 1] /\ z[j + 1] \in Int
      <4>1. /\ j + 1 \in 1..Len(b) /\ Len(a) + (j + 1) \in 1..(Len(a) + Len(b))
            /\ (Len(a) + (j + 1)) - 1 = Len(a) + j /\ (j + 1) - 1 = j /\ j <= Len(b)
        <5>1. j \in Nat /\ Len(a) \in Nat /\ Len(b) \in Nat
          BY <1>1
        <5> HIDE DEF Q
        <5>2. QED
          BY <3>1, <5>1
      <4>2. /\ x[Len(a) + j] = y[Len(a)] + z[j] /\ z[j] \in Int
            /\ Given(b[j + 1], t, u) \in Int
        BY <4>1 DEF Countable
      <4>3. x[Len(a) + (j + 1)] = x[Len(a) + j] + Given(b[j + 1], t, u)
        BY <1>1, <1>2, <4>1
      <4>4. z[j + 1] = z[j] + Given(b[j + 1], t, u)
        BY <1>4, <4>1
      <4>5. QED
        BY <1>7, <4>2, <4>3, <4>4
    <3>2. QED
      BY <3>1
  <2> HIDE DEF Q
  <2>3. QED
    BY <2>1, <2>2, NumberInduction
<1>9. x[Len(a) + Len(b)] = y[Len(a)] + z[Len(b)] /\ z[Len(b)] \in Int
  BY <1>1, <1>8
<1>10. Countable(c, t, u)
  <2>1. ASSUME NEW i \in 1..Len(c) PROVE Given(c[i], t, u) \in Int
    <3>1. CASE i <= Len(a)
      BY <1>1, <3>1 DEF Countable
    <3>2. CASE i > Len(a)
      <4>1. i - Len(a) \in 1..Len(b) /\ i = Len(a) + (i - Len(a))
        BY <1>1, <3>2
      <4>2. c[i] = b[i - Len(a)]
        BY <1>1, <4>1
      <4>3. QED
        BY <4>1, <4>2 DEF Countable
    <3>3. QED
      BY <1>1, <3>1, <3>2
  <2>2. QED
    BY <2>1 DEF Countable
<1>11. QED
  BY <1>3, <1>4, <1>5, <1>7, <1>9, <1>10 DEF c

(* Sums over short receipts.                                               *)
LEMMA NetOfFew ==
    ASSUME NEW t, NEW u
    PROVE  /\ Net(<<>>, t, u) = 0 /\ Countable(<<>>, t, u)
           /\ \A e : Given(e, t, u) \in Int =>
                 Net(<<e>>, t, u) = Given(e, t, u) /\ Countable(<<e>>, t, u)
           /\ \A e, f : Given(e, t, u) \in Int /\ Given(f, t, u) \in Int =>
                 /\ Net(<<e, f>>, t, u) = Given(e, t, u) + Given(f, t, u)
                 /\ Countable(<<e, f>>, t, u)
<1>1. Net(<<>>, t, u) = 0 /\ Countable(<<>>, t, u)
  <2> DEFINE es == <<>>
  <2>1. Len(es) = 0
    OBVIOUS
  <2> HIDE DEF es
  <2>2. QED
    BY <2>1, SumsUnfold, NetIsLast DEF es, Countable
<1>2. ASSUME NEW e, Given(e, t, u) \in Int
      PROVE  Net(<<e>>, t, u) = Given(e, t, u) /\ Countable(<<e>>, t, u)
  <2> DEFINE es == <<e>>
             g  == SumsOf(es, t, u, 1)
  <2>1. Len(es) = 1 /\ es[1] = e
    OBVIOUS
  <2> HIDE DEF es
  <2>2. g[0] = 0 /\ \A i \in 1..1 : g[i] = g[i - 1] + Given(es[i], t, u)
    BY SumsUnfold
  <2>3. Net(es, t, u) = g[1]
    BY <2>1, NetIsLast
  <2> HIDE DEF g
  <2>4. g[1] = g[0] + Given(es[1], t, u)
    BY <2>2
  <2>5. Net(es, t, u) = Given(e, t, u) /\ Countable(es, t, u)
    BY <1>2, <2>1, <2>2, <2>3, <2>4 DEF Countable
  <2>6. QED
    BY <2>5 DEF es
<1>3. ASSUME NEW e, NEW f, Given(e, t, u) \in Int, Given(f, t, u) \in Int
      PROVE  /\ Net(<<e, f>>, t, u) = Given(e, t, u) + Given(f, t, u)
             /\ Countable(<<e, f>>, t, u)
  <2> DEFINE es == <<e, f>>
             g  == SumsOf(es, t, u, 2)
  <2>1. Len(es) = 2 /\ es[1] = e /\ es[2] = f
    OBVIOUS
  <2> HIDE DEF es
  <2>2. g[0] = 0 /\ \A i \in 1..2 : g[i] = g[i - 1] + Given(es[i], t, u)
    BY SumsUnfold
  <2>3. Net(es, t, u) = g[2]
    BY <2>1, NetIsLast
  <2> HIDE DEF g
  <2>4. g[1] = g[0] + Given(es[1], t, u) /\ g[2] = g[1] + Given(es[2], t, u)
    BY <2>2
  <2>5. Net(es, t, u) = Given(e, t, u) + Given(f, t, u) /\ Countable(es, t, u)
    BY <1>3, <2>1, <2>2, <2>3, <2>4 DEF Countable
  <2>6. QED
    BY <2>5 DEF es
<1>4. QED
  BY <1>1, <1>2, <1>3

(* What a mint and a burn of one account give.                             *)
LEMMA MintsGive ==
    ASSUME NEW t, NEW s, NEW caller, NEW v, NEW u \in Users,
           NEW previous \in Int, NEW current, NEW next \in Int, NEW index
    PROVE  LET es == MintEvents(t, caller, v, previous, current, next, index)
           IN  /\ Net(es, s, u) = IF s = t /\ u = v THEN next - previous ELSE 0
               /\ Countable(es, s, u)
<1> DEFINE e == TransferEvent(t, NoOne, v, next - previous)
           f == MintEvent(t, caller, v, next - previous, current - previous, index)
<1>1. Given(e, s, u) = IF s = t /\ u = v THEN next - previous ELSE 0
  BY TokensAssumption DEF Given, TransferEvent
<1>2. Given(f, s, u) = 0
  BY DEF Given, MintEvent
<1>3. MintEvents(t, caller, v, previous, current, next, index) = <<e, f>>
  BY DEF MintEvents
<1> HIDE DEF e, f
<1>4. /\ Net(<<e, f>>, s, u) = Given(e, s, u) + Given(f, s, u)
      /\ Countable(<<e, f>>, s, u)
  <2>1. Given(e, s, u) \in Int /\ Given(f, s, u) \in Int
    BY <1>1, <1>2
  <2>2. QED
    BY <2>1, NetOfFew
<1>5. QED
  BY <1>1, <1>2, <1>3, <1>4

(* A burn gives what is left minus what was told.                          *)
LEMMA BurnsGive ==
    ASSUME NEW t, NEW s, NEW target, NEW v, NEW u \in Users,
           NEW previous \in Int, NEW current, NEW next \in Int, NEW index
    PROVE  LET es == BurnEvents(t, v, target, previous, current, next, index)
           IN  /\ Net(es, s, u) = IF s = t /\ u = v THEN next - previous ELSE 0
               /\ Countable(es, s, u)
<1> DEFINE e == TransferEvent(t, v, NoOne, previous - next)
           f == BurnEvent(t, v, target, previous - next, current - previous, index)
<1>1. CASE next > previous
  BY <1>1, MintsGive DEF BurnEvents
<1>2. CASE ~(next > previous)
  <2>1. Given(e, s, u) = IF s = t /\ u = v THEN next - previous ELSE 0
    BY TokensAssumption DEF Given, TransferEvent
  <2>2. Given(f, s, u) = 0
    BY DEF Given, BurnEvent
  <2>3. BurnEvents(t, v, target, previous, current, next, index) = <<e, f>>
    BY <1>2 DEF BurnEvents
  <2> HIDE DEF e, f
  <2>4. /\ Net(<<e, f>>, s, u) = Given(e, s, u) + Given(f, s, u)
        /\ Countable(<<e, f>>, s, u)
    <3>1. Given(e, s, u) \in Int /\ Given(f, s, u) \in Int
      BY <2>1, <2>2
    <3>2. QED
      BY <3>1, NetOfFew
  <2>5. QED
    BY <2>1, <2>2, <2>3, <2>4
<1>3. QED
  BY <1>1, <1>2

(* A movement of the underlying gives nothing of the tokens, whether it is *)
(* the first event of a receipt or the last.                               *)
LEMMA UnderlyingGives ==
    ASSUME NEW t \in {"aToken", "debtToken"}, NEW u, NEW from, NEW to, NEW n
    PROVE  LET one == <<TransferEvent("underlying", from, to, n)>>
           IN  /\ Net(one, t, u) = 0 /\ Countable(one, t, u)
               /\ \E S : one \in Seq(S)
<1> DEFINE e == TransferEvent("underlying", from, to, n)
<1>1. Given(e, t, u) = 0
  BY DEF Given, TransferEvent
<1> HIDE DEF e
<1>2. Net(<<e>>, t, u) = 0 /\ Countable(<<e>>, t, u) /\ \E S : <<e>> \in Seq(S)
  <2>1. Given(e, t, u) \in Int
    BY <1>1
  <2>2. Net(<<e>>, t, u) = Given(e, t, u) /\ Countable(<<e>>, t, u)
    BY <2>1, NetOfFew
  <2>3. <<e>> \in Seq({e})
    BY InReceipt
  <2>4. QED
    BY <1>1, <2>2, <2>3
<1>3. QED
  BY <1>2 DEF e

(* So it changes no sum as the first event.                                *)
LEMMA PaidFirst ==
    ASSUME NEW A, NEW es \in Seq(A), NEW t \in {"aToken", "debtToken"}, NEW u,
           NEW from, NEW to, NEW n, Countable(es, t, u)
    PROVE  Net(Joined(<<TransferEvent("underlying", from, to, n)>>, es), t, u)
             = Net(es, t, u)
<1> DEFINE one == <<TransferEvent("underlying", from, to, n)>>
<1>1. Net(one, t, u) = 0 /\ Countable(one, t, u) /\ \E S : one \in Seq(S)
  BY UnderlyingGives
<1> HIDE DEF one
<1>2. Net(Joined(one, es), t, u) = Net(one, t, u) + Net(es, t, u) /\ Net(es, t, u) \in Int
  BY <1>1, NetConcat
<1>3. QED
  BY <1>1, <1>2 DEF one

(* Nor as the last.                                                        *)
LEMMA PaidLast ==
    ASSUME NEW A, NEW es \in Seq(A), NEW t \in {"aToken", "debtToken"}, NEW u,
           NEW from, NEW to, NEW n, Countable(es, t, u)
    PROVE  Net(Joined(es, <<TransferEvent("underlying", from, to, n)>>), t, u)
             = Net(es, t, u)
<1> DEFINE one == <<TransferEvent("underlying", from, to, n)>>
<1>1. Net(one, t, u) = 0 /\ Countable(one, t, u) /\ \E S : one \in Seq(S)
  BY UnderlyingGives
<1> HIDE DEF one
<1>2. Net(Joined(es, one), t, u) = Net(es, t, u) + Net(one, t, u) /\ Net(es, t, u) \in Int
  BY <1>1, NetConcat
<1>3. QED
  BY <1>1, <1>2 DEF one

-----------------------------------------------------------------------------
(* What the events tell of the balances.                                   *)

(* What was told of a balance is a number.                                 *)
LEMMA ToldIsNat ==
    ASSUME BothLedgersOK, NEW u \in Users
    PROVE  /\ aUser[u].balance \in Nat /\ aUser[u].additionalData \in Nat
           /\ vUser[u].balance \in Nat /\ vUser[u].additionalData \in Nat
           /\ ToldA[u] = ATokenBalance(aUser[u].balance, aUser[u].additionalData)
           /\ ToldV[u] = VTokenBalance(vUser[u].balance, vUser[u].additionalData)
           /\ ToldA[u] \in Nat /\ ToldV[u] \in Nat
<1>1. /\ aUser[u].balance \in Nat /\ aUser[u].additionalData \in Nat
      /\ vUser[u].balance \in Nat /\ vUser[u].additionalData \in Nat
  BY DEF BothLedgersOK, LedgerOK
<1>2. /\ ToldA[u] = ATokenBalance(aUser[u].balance, aUser[u].additionalData)
      /\ ToldV[u] = VTokenBalance(vUser[u].balance, vUser[u].additionalData)
  BY DEF ToldA, ToldV
<1>3. \A b, d \in Nat : ATokenBalance(b, d) \in Nat /\ VTokenBalance(b, d) \in Nat
  BY MultiplyTypes
<1>4. QED
  BY <1>1, <1>2, <1>3

(* Who is told a change of one balance of the aToken, or of the debt token.*)
LEMMA OneChangeA ==
    ASSUME BothLedgersOK, NEW v \in Users, NEW new \in Nat,
           aUser' = Refreshed(aUser, v, new, income), vUser' = vUser
    PROVE  \A u \in Users :
              /\ ToldV'[u] - ToldV[u] = 0
              /\ ToldA'[u] - ToldA[u]
                   = IF u = v THEN ATokenBalance(new, income) - ToldA[u] ELSE 0
<1> SUFFICES ASSUME NEW u \in Users
             PROVE  /\ ToldV'[u] - ToldV[u] = 0
                    /\ ToldA'[u] - ToldA[u]
                         = IF u = v THEN ATokenBalance(new, income) - ToldA[u] ELSE 0
  OBVIOUS
<1>1. ToldV' = ToldV
  BY DEF ToldV
<1>2. ToldA'[u] = ATokenBalance(aUser'[u].balance, aUser'[u].additionalData)
  BY DEF ToldA
<1>3. /\ u = v => aUser'[u].balance = new /\ aUser'[u].additionalData = income
      /\ u # v => aUser'[u] = aUser[u]
  BY DEF Refreshed, BothLedgersOK, LedgerOK
<1>4. ToldA[u] \in Nat /\ ToldV[u] \in Nat
      /\ ToldA[u] = ATokenBalance(aUser[u].balance, aUser[u].additionalData)
  BY ToldIsNat
<1>5. QED
  BY <1>1, <1>2, <1>3, <1>4

(* The same for the debt token.                                            *)
LEMMA OneChangeV ==
    ASSUME BothLedgersOK, NEW v \in Users, NEW new \in Nat,
           vUser' = Refreshed(vUser, v, new, debtIndex), aUser' = aUser
    PROVE  \A u \in Users :
              /\ ToldA'[u] - ToldA[u] = 0
              /\ ToldV'[u] - ToldV[u]
                   = IF u = v THEN VTokenBalance(new, debtIndex) - ToldV[u] ELSE 0
<1> SUFFICES ASSUME NEW u \in Users
             PROVE  /\ ToldA'[u] - ToldA[u] = 0
                    /\ ToldV'[u] - ToldV[u]
                         = IF u = v THEN VTokenBalance(new, debtIndex) - ToldV[u] ELSE 0
  OBVIOUS
<1>1. ToldA' = ToldA
  BY DEF ToldA
<1>2. ToldV'[u] = VTokenBalance(vUser'[u].balance, vUser'[u].additionalData)
  BY DEF ToldV
<1>3. /\ u = v => vUser'[u].balance = new /\ vUser'[u].additionalData = debtIndex
      /\ u # v => vUser'[u] = vUser[u]
  BY DEF Refreshed, BothLedgersOK
<1>4. ToldA[u] \in Nat /\ ToldV[u] \in Nat
      /\ ToldV[u] = VTokenBalance(vUser[u].balance, vUser[u].additionalData)
  BY ToldIsNat
<1>5. QED
  BY <1>1, <1>2, <1>3, <1>4

-----------------------------------------------------------------------------
(* What each call tells.                                                   *)

(* A supply tells its change, interest included.                           *)
LEMMA SupplyTells ==
    ASSUME BothLedgersOK, NEW u \in Users, NEW v \in Users, NEW n \in Amounts,
           Supply(u, v, n)
    PROVE  EventsTellTheChangeStep
<1> DEFINE old  == aUser[v]
           new  == old.balance + ATokenMintScaled(n, income)
           told == ATokenBalance(old.balance, old.additionalData)
           now  == ATokenBalance(old.balance, income)
           next == ATokenBalance(new, income)
           changes == MintEvents("aToken", u, v, told, now, next, income)
           paid == TransferEvent("underlying", u, "aToken", n)
<1>1. /\ income \in Nat \ {0} /\ n \in Nat
      /\ old.balance \in Nat /\ told \in Nat /\ told = ToldA[v]
  BY ToldIsNat, UnitsAssumption, TokensAssumption DEF BothLedgersOK, LedgerOK
<1>2. /\ receipt'.call = "supply" /\ receipt'.events = <<paid>> \o changes
      /\ aUser' = Refreshed(aUser, v, new, income) /\ vUser' = vUser
  BY DEF Supply, Emit
<1>3. new \in Nat /\ next \in Nat
  <2>1. new \in Nat
    <3>1. ATokenMintScaled(n, income) \in Nat
      BY <1>1, DivideTypes
    <3>2. QED
      BY <1>1, <3>1
  <2> HIDE DEF new
  <2>2. QED
    BY <1>1, <2>1, MultiplyTypes
<1>4. ASSUME NEW w \in Users, NEW s \in {"aToken", "debtToken"}
      PROVE  Net(receipt'.events, s, w)
               = IF s = "aToken" /\ w = v THEN next - told ELSE 0
  <2>1. /\ Net(changes, s, w) = IF s = "aToken" /\ w = v THEN next - told ELSE 0
        /\ Countable(changes, s, w)
    <3> HIDE DEF told, now, next
    <3>1. told \in Int /\ next \in Int
      BY <1>1, <1>3
    <3>2. QED
      BY <3>1, MintsGive
  <2>2. \E S : changes \in Seq(S)
    BY MintsAsExpected
  <2> HIDE DEF changes
  <2>3. Net(Joined(<<paid>>, changes), s, w) = Net(changes, s, w)
    BY <2>1, <2>2, PaidFirst
  <2>4. receipt'.events = Joined(<<paid>>, changes)
    BY <1>2 DEF Joined
  <2>5. QED
    BY <2>1, <2>3, <2>4
<1>5. \A w \in Users :
         /\ ToldV'[w] - ToldV[w] = 0
         /\ ToldA'[w] - ToldA[w] = IF w = v THEN next - told ELSE 0
  <2> HIDE DEF new, told
  <2>1. QED
    BY <1>1, <1>2, <1>3, OneChangeA
<1>6. ~IsMove(receipt')
  BY <1>2 DEF IsMove
<1> HIDE DEF next, told
<1>7. next - told \in Int
  BY <1>1, <1>3
<1>8. QED
  BY <1>4, <1>5, <1>6, <1>7 DEF EventsTellTheChangeStep

(* So does a withdrawal.                                                   *)
LEMMA WithdrawTells ==
    ASSUME BothLedgersOK, NEW u \in Users, NEW v \in Users, NEW n \in Amounts,
           Withdraw(u, v, n)
    PROVE  EventsTellTheChangeStep
<1> DEFINE old  == aUser[u]
           new  == old.balance - ATokenBurnScaled(n, income)
           told == ATokenBalance(old.balance, old.additionalData)
           now  == ATokenBalance(old.balance, income)
           next == ATokenBalance(new, income)
           changes == BurnEvents("aToken", u, v, told, now, next, income)
           paid == TransferEvent("underlying", "aToken", v, n)
<1>1. /\ income \in Nat \ {0} /\ n \in Nat
      /\ old.balance \in Nat /\ told \in Nat /\ told = ToldA[u]
  BY ToldIsNat, UnitsAssumption, TokensAssumption DEF BothLedgersOK, LedgerOK
<1>2. /\ receipt'.call = "withdraw" /\ receipt'.events = changes \o <<paid>>
      /\ aUser' = Refreshed(aUser, u, new, income) /\ vUser' = vUser
  BY DEF Withdraw, Emit
<1>3. new \in Nat /\ next \in Nat
  <2>1. ATokenBurnScaled(n, income) \in Nat
    BY <1>1, DivideTypes
  <2>2. ATokenBurnScaled(n, income) <= old.balance
    BY DEF Withdraw
  <2>3. new \in Nat
    BY <1>1, <2>1, <2>2
  <2> HIDE DEF new
  <2>4. QED
    BY <1>1, <2>3, MultiplyTypes
<1>4. ASSUME NEW w \in Users, NEW s \in {"aToken", "debtToken"}
      PROVE  Net(receipt'.events, s, w)
               = IF s = "aToken" /\ w = u THEN next - told ELSE 0
  <2>1. /\ Net(changes, s, w) = IF s = "aToken" /\ w = u THEN next - told ELSE 0
        /\ Countable(changes, s, w)
    <3> HIDE DEF told, now, next
    <3>1. told \in Int /\ next \in Int
      BY <1>1, <1>3
    <3>2. QED
      BY <3>1, BurnsGive
  <2>2. \E S : changes \in Seq(S)
    BY BurnsAsExpected
  <2> HIDE DEF changes
  <2>3. Net(Joined(changes, <<paid>>), s, w) = Net(changes, s, w)
    BY <2>1, <2>2, PaidLast
  <2>4. receipt'.events = Joined(changes, <<paid>>)
    BY <1>2 DEF Joined
  <2>5. QED
    BY <2>1, <2>3, <2>4
<1>5. \A w \in Users :
         /\ ToldV'[w] - ToldV[w] = 0
         /\ ToldA'[w] - ToldA[w] = IF w = u THEN next - told ELSE 0
  <2> HIDE DEF new, told
  <2>1. QED
    BY <1>1, <1>2, <1>3, OneChangeA
<1>6. ~IsMove(receipt')
  BY <1>2 DEF IsMove
<1> HIDE DEF next, told
<1>7. next - told \in Int
  BY <1>1, <1>3
<1>8. QED
  BY <1>4, <1>5, <1>6, <1>7 DEF EventsTellTheChangeStep

(* So does a borrow.                                                       *)
LEMMA BorrowTells ==
    ASSUME BothLedgersOK, NEW u \in Users, NEW v \in Users, NEW n \in Amounts,
           Borrow(u, v, n)
    PROVE  EventsTellTheChangeStep
<1> DEFINE old  == vUser[v]
           new  == old.balance + VTokenMintScaled(n, debtIndex)
           told == VTokenBalance(old.balance, old.additionalData)
           now  == VTokenBalance(old.balance, debtIndex)
           next == VTokenBalance(new, debtIndex)
           changes == MintEvents("debtToken", u, v, told, now, next, debtIndex)
           paid == TransferEvent("underlying", "aToken", u, n)
<1>1. /\ debtIndex \in Nat \ {0} /\ n \in Nat
      /\ old.balance \in Nat /\ told \in Nat /\ told = ToldV[v]
  BY ToldIsNat, UnitsAssumption, TokensAssumption DEF BothLedgersOK, LedgerOK
<1>2. /\ receipt'.call = "borrow" /\ receipt'.events = changes \o <<paid>>
      /\ vUser' = Refreshed(vUser, v, new, debtIndex) /\ aUser' = aUser
  BY DEF Borrow, Emit
<1>3. new \in Nat /\ next \in Nat
  <2>1. new \in Nat
    <3>1. VTokenMintScaled(n, debtIndex) \in Nat
      BY <1>1, DivideTypes
    <3>2. QED
      BY <1>1, <3>1
  <2> HIDE DEF new
  <2>2. QED
    BY <1>1, <2>1, MultiplyTypes
<1>4. ASSUME NEW w \in Users, NEW s \in {"aToken", "debtToken"}
      PROVE  Net(receipt'.events, s, w)
               = IF s = "debtToken" /\ w = v THEN next - told ELSE 0
  <2>1. /\ Net(changes, s, w) = IF s = "debtToken" /\ w = v THEN next - told ELSE 0
        /\ Countable(changes, s, w)
    <3> HIDE DEF told, now, next
    <3>1. told \in Int /\ next \in Int
      BY <1>1, <1>3
    <3>2. QED
      BY <3>1, MintsGive
  <2>2. \E S : changes \in Seq(S)
    BY MintsAsExpected
  <2> HIDE DEF changes
  <2>3. Net(Joined(changes, <<paid>>), s, w) = Net(changes, s, w)
    BY <2>1, <2>2, PaidLast
  <2>4. receipt'.events = Joined(changes, <<paid>>)
    BY <1>2 DEF Joined
  <2>5. QED
    BY <2>1, <2>3, <2>4
<1>5. \A w \in Users :
         /\ ToldA'[w] - ToldA[w] = 0
         /\ ToldV'[w] - ToldV[w] = IF w = v THEN next - told ELSE 0
  <2> HIDE DEF new, told
  <2>1. QED
    BY <1>1, <1>2, <1>3, OneChangeV
<1>6. ~IsMove(receipt')
  BY <1>2 DEF IsMove
<1> HIDE DEF next, told
<1>7. next - told \in Int
  BY <1>1, <1>3
<1>8. QED
  BY <1>4, <1>5, <1>6, <1>7 DEF EventsTellTheChangeStep

(* So does a repayment.                                                    *)
LEMMA RepayTells ==
    ASSUME BothLedgersOK, NEW u \in Users, NEW v \in Users, NEW n \in Amounts,
           Repay(u, v, n)
    PROVE  EventsTellTheChangeStep
<1> DEFINE old  == vUser[v]
           new  == old.balance - (IF n >= VTokenBalance(old.balance, debtIndex)
                                    THEN old.balance
                                    ELSE VTokenBurnScaled(n, debtIndex))
           told == VTokenBalance(old.balance, old.additionalData)
           now  == VTokenBalance(old.balance, debtIndex)
           next == VTokenBalance(new, debtIndex)
           changes == BurnEvents("debtToken", v, NoOne, told, now, next, debtIndex)
           paid == TransferEvent("underlying", u, "aToken", n)
<1>1. /\ debtIndex \in Nat \ {0} /\ n \in Nat
      /\ old.balance \in Nat /\ told \in Nat /\ told = ToldV[v]
  BY ToldIsNat, UnitsAssumption, TokensAssumption DEF BothLedgersOK, LedgerOK
<1>2. /\ receipt'.call = "repay" /\ receipt'.events = changes \o <<paid>>
      /\ vUser' = Refreshed(vUser, v, new, debtIndex) /\ aUser' = aUser
  BY DEF Repay, Emit
<1>3. new \in Nat /\ next \in Nat
  <2>1. vUser'[v].balance = new
    BY <1>2 DEF Refreshed, BothLedgersOK
  <2>2. new \in Nat
    BY <2>1, DebtLedgerKept
  <2> HIDE DEF new
  <2>3. QED
    BY <1>1, <2>2, MultiplyTypes
<1>4. ASSUME NEW w \in Users, NEW s \in {"aToken", "debtToken"}
      PROVE  Net(receipt'.events, s, w)
               = IF s = "debtToken" /\ w = v THEN next - told ELSE 0
  <2>1. /\ Net(changes, s, w) = IF s = "debtToken" /\ w = v THEN next - told ELSE 0
        /\ Countable(changes, s, w)
    <3> HIDE DEF told, now, next
    <3>1. told \in Int /\ next \in Int
      BY <1>1, <1>3
    <3>2. QED
      BY <3>1, BurnsGive
  <2>2. \E S : changes \in Seq(S)
    BY BurnsAsExpected
  <2> HIDE DEF changes
  <2>3. Net(Joined(changes, <<paid>>), s, w) = Net(changes, s, w)
    BY <2>1, <2>2, PaidLast
  <2>4. receipt'.events = Joined(changes, <<paid>>)
    BY <1>2 DEF Joined
  <2>5. QED
    BY <2>1, <2>3, <2>4
<1>5. \A w \in Users :
         /\ ToldA'[w] - ToldA[w] = 0
         /\ ToldV'[w] - ToldV[w] = IF w = v THEN next - told ELSE 0
  <2> HIDE DEF new, told
  <2>1. QED
    BY <1>1, <1>2, <1>3, OneChangeV
<1>6. ~IsMove(receipt')
  BY <1>2 DEF IsMove
<1> HIDE DEF next, told
<1>7. next - told \in Int
  BY <1>1, <1>3
<1>8. QED
  BY <1>4, <1>5, <1>6, <1>7 DEF EventsTellTheChangeStep

(* The interest minted before a transfer.                                  *)
LEMMA AccrualGives ==
    ASSUME BothLedgersOK, NEW caller \in Users, NEW v \in Users, NEW w \in Users,
           NEW s \in {"aToken", "debtToken"}
    PROVE  LET es == AccrualEvents(caller, v)
           IN  /\ Net(es, s, w) = IF s = "aToken" /\ w = v THEN BalanceIncrease(v) ELSE 0
               /\ Countable(es, s, w)
<1> DEFINE i == BalanceIncrease(v)
           e == TransferEvent("aToken", NoOne, v, i)
           f == MintEvent("aToken", caller, v, i, i, income)
<1>1. i \in Int
  BY AccrualAsExpected
<1>2. AccrualEvents(caller, v) = IF i = 0 THEN <<>> ELSE <<e, f>>
  BY DEF AccrualEvents
<1> HIDE DEF i
<1>3. Given(e, s, w) = IF s = "aToken" /\ w = v THEN i ELSE 0
  BY <1>1, TokensAssumption DEF Given, TransferEvent
<1>4. Given(f, s, w) = 0
  BY DEF Given, MintEvent
<1> HIDE DEF e, f
<1>5. /\ Net(<<e, f>>, s, w) = Given(e, s, w) + Given(f, s, w)
      /\ Countable(<<e, f>>, s, w)
  <2>1. Given(e, s, w) \in Int /\ Given(f, s, w) \in Int
    BY <1>1, <1>3, <1>4
  <2>2. QED
    BY <2>1, NetOfFew
<1>6. Net(<<>>, s, w) = 0 /\ Countable(<<>>, s, w)
  BY NetOfFew
<1>7. \/ AccrualEvents(caller, v) = <<>> /\ i = 0
      \/ AccrualEvents(caller, v) = <<e, f>>
  BY <1>2
<1>8. CASE AccrualEvents(caller, v) = <<>> /\ i = 0
  BY <1>6, <1>8 DEF i
<1>9. CASE AccrualEvents(caller, v) = <<e, f>>
  BY <1>1, <1>3, <1>4, <1>5, <1>9 DEF i
<1>10. QED
  BY <1>7, <1>8, <1>9

(* What a transfer leaves to each account.                                 *)
LEMMA MovedLedger ==
    ASSUME BothLedgersOK, NEW from \in Users, NEW to \in Users, NEW scaled \in Nat,
           aUser' = MovedBalances(from, to, scaled), NEW w \in Users
    PROVE  LET b == aUser[w].balance
           IN  aUser'[w] =
                 IF w = from
                   THEN [balance |-> IF w = to THEN b ELSE b - scaled,
                         additionalData |-> income]
                 ELSE IF w = to
                   THEN [balance |-> b + scaled, additionalData |-> income]
                 ELSE aUser[w]
<1> DEFINE b     == aUser[from].balance
           taken == Refreshed(aUser, from, b - scaled, income)
<1>1. b \in Nat /\ aUser[w].balance \in Nat /\ aUser[to].balance \in Nat
      /\ b - scaled + scaled = b
  BY DEF BothLedgersOK, LedgerOK
<1>2. taken = [aUser EXCEPT ![from] = [balance |-> b - scaled, additionalData |-> income]]
  BY DEF Refreshed
<1>3. MovedBalances(from, to, scaled)
        = [taken EXCEPT ![to] = [balance |-> taken[to].balance + scaled,
                                 additionalData |-> income]]
  BY DEF MovedBalances, Refreshed
<1>4. aUser \in [Users -> [balance : Nat, additionalData : Nat]]
  BY DEF BothLedgersOK, LedgerOK
<1> HIDE DEF taken
<1>5. /\ DOMAIN taken = Users
      /\ taken[from] = [balance |-> b - scaled, additionalData |-> income]
      /\ \A x \in Users : x # from => taken[x] = aUser[x]
  BY <1>2, <1>4
<1>6. /\ aUser'[to] = [balance |-> taken[to].balance + scaled, additionalData |-> income]
      /\ w # to => aUser'[w] = taken[w]
  BY <1>3, <1>5
<1>7. QED
  BY <1>1, <1>5, <1>6

(* A transfer tells its two sides their interest and the amount.           *)
LEMMA MoveTells ==
    ASSUME BothLedgersOK, NEW name \in {"transfer", "transferFrom"}, NEW caller \in Users,
           NEW from \in Users, NEW to \in Users, NEW n \in Amounts,
           MoveTokens(name, caller, from, to, n)
    PROVE  EventsTellTheChangeStep
<1> DEFINE scaled == ATokenTransferScaled(n, income)
           mine   == AccrualEvents(caller, from)
           theirs == IF from # to THEN AccrualEvents(caller, to) ELSE <<>>
           sent   == TransferEvent("aToken", from, to, n)
           also   == BalanceTransferEvent(from, to, scaled, income)
           moved  == <<sent, also>>
<1>1. /\ income \in Nat \ {0} /\ income >= RAY /\ n \in Nat
      /\ scaled \in Nat /\ scaled <= aUser[from].balance
  <2>1. income \in Nat \ {0} /\ income >= RAY /\ n \in Nat
    BY UnitsAssumption, TokensAssumption DEF BothLedgersOK, LedgerOK
  <2>2. QED
    BY <2>1, DivideTypes DEF MoveTokens
<1>2. /\ receipt'.call = name /\ receipt'.account = <<from, to>>
      /\ receipt'.events = Joined(Joined(mine, theirs), moved)
      /\ aUser' = MovedBalances(from, to, scaled) /\ vUser' = vUser
  BY DEF MoveTokens, Emit, Joined
<1>3. ASSUME NEW w \in Users, NEW s \in {"aToken", "debtToken"}
      PROVE  Net(receipt'.events, s, w)
               = IF s = "debtToken" THEN 0
                 ELSE (IF w = from \/ w = to THEN BalanceIncrease(w) ELSE 0)
                        + ((IF w = to THEN n ELSE 0) - (IF w = from THEN n ELSE 0))
  <2>1. /\ Net(mine, s, w) = IF s = "aToken" /\ w = from THEN BalanceIncrease(from) ELSE 0
        /\ Countable(mine, s, w)
    BY AccrualGives
  <2>2. /\ Net(theirs, s, w) = IF s = "aToken" /\ w = to /\ from # to
                                 THEN BalanceIncrease(to) ELSE 0
        /\ Countable(theirs, s, w)
    <3>1. CASE from = to
      BY <3>1, NetOfFew
    <3>2. CASE from # to
      BY <3>2, AccrualGives
    <3>3. QED
      BY <3>1, <3>2
  <2>3. /\ Net(moved, s, w) = IF s = "aToken" THEN (IF w = to THEN n ELSE 0)
                                                     - (IF w = from THEN n ELSE 0)
                                              ELSE 0
        /\ Countable(moved, s, w)
    <3>1. Given(sent, s, w) = IF s = "aToken" THEN (IF w = to THEN n ELSE 0)
                                                     - (IF w = from THEN n ELSE 0)
                                              ELSE 0
      BY DEF Given, TransferEvent
    <3>2. Given(also, s, w) = 0
      BY DEF Given, BalanceTransferEvent
    <3> HIDE DEF sent, also
    <3>3. Given(sent, s, w) \in Int /\ Given(also, s, w) \in Int
      BY <1>1, <3>1, <3>2
    <3>4. Net(<<sent, also>>, s, w) = Given(sent, s, w) + Given(also, s, w)
          /\ Countable(<<sent, also>>, s, w)
      BY <3>3, NetOfFew
    <3>5. QED
      BY <1>1, <3>1, <3>2, <3>4
  <2>4. (\E S : mine \in Seq(S)) /\ (\E S : theirs \in Seq(S)) /\ (\E S : moved \in Seq(S))
    <3>1. <<>> \in Seq({})
      OBVIOUS
    <3>2. QED
      BY <3>1, AccrualAsExpected, InReceipt
  <2> HIDE DEF mine, theirs, moved
  <2>5. /\ Net(Joined(mine, theirs), s, w) = Net(mine, s, w) + Net(theirs, s, w)
        /\ Countable(Joined(mine, theirs), s, w)
    BY <2>1, <2>2, <2>4, NetConcat
  <2>6. \E S : Joined(mine, theirs) \in Seq(S)
    BY <2>4, ConcatIsSeq
  <2>7. Net(Joined(Joined(mine, theirs), moved), s, w)
          = Net(Joined(mine, theirs), s, w) + Net(moved, s, w)
    BY <2>3, <2>4, <2>5, <2>6, NetConcat
  <2>8. BalanceIncrease(from) \in Int /\ BalanceIncrease(to) \in Int
    BY AccrualAsExpected
  <2>9. QED
    BY <1>1, <1>2, <2>1, <2>2, <2>3, <2>5, <2>7, <2>8
<1>4. ToldV' = ToldV
  BY <1>2 DEF ToldV
<1>5. UnitValue \in Nat
  BY <1>1, UnitsAssumption, RoundingTypes DEF UnitValue
<1>6. IsMove(receipt') <=> from # to
  BY <1>2 DEF IsMove
<1>7. SUFFICES ASSUME NEW w \in Users
               PROVE  LET drift == Net(receipt'.events, "aToken", w) - (ToldA'[w] - ToldA[w])
                      IN  IF from = to THEN drift = 0
                          ELSE IF w = from THEN drift \in 0..UnitValue
                          ELSE IF w = to THEN -drift \in 0..UnitValue
                          ELSE drift = 0
  <2>1. \A w \in Users : Net(receipt'.events, "debtToken", w) = 0 /\ ToldV[w] \in Nat
    BY <1>3, ToldIsNat
  <2>2. \A w \in Users : Net(receipt'.events, "debtToken", w) = ToldV'[w] - ToldV[w]
    BY <1>4, <2>1
  <2>3. receipt'.account[1] = from /\ receipt'.account[2] = to
    BY <1>2
  <2>4. QED
    BY <1>6, <2>2, <2>3 DEF EventsTellTheChangeStep
<1> DEFINE b     == aUser[w].balance
           after == IF w = from THEN (IF w = to THEN b ELSE b - scaled) ELSE b + scaled
           worth == ATokenBalance(b, income)
           left  == ATokenBalance(after, income)
<1>8. b \in Nat /\ ToldA[w] \in Nat /\ worth \in Nat
      /\ ToldA[w] = ATokenBalance(b, aUser[w].additionalData)
  BY <1>1, ToldIsNat, MultiplyTypes
<1>9. BalanceIncrease(w) = worth - ToldA[w]
  BY <1>8 DEF BalanceIncrease
<1>10. ToldA'[w] = IF w = from \/ w = to THEN left ELSE ToldA[w]
  <2>1. ToldA'[w] = ATokenBalance(aUser'[w].balance, aUser'[w].additionalData)
    BY DEF ToldA
  <2>2. /\ w = from \/ w = to => aUser'[w].balance = after
                                 /\ aUser'[w].additionalData = income
        /\ ~(w = from \/ w = to) => aUser'[w] = aUser[w]
    <3>1. aUser'[w] = IF w = from
                        THEN [balance |-> IF w = to THEN b ELSE b - scaled,
                              additionalData |-> income]
                      ELSE IF w = to
                        THEN [balance |-> b + scaled, additionalData |-> income]
                      ELSE aUser[w]
      BY <1>1, <1>2, MovedLedger
    <3> HIDE DEF b, scaled
    <3>2. QED
      BY <3>1
  <2>3. QED
    BY <1>8, <2>1, <2>2
<1>11. CASE w = from /\ from # to
  <2>1. after = b - scaled /\ scaled <= b /\ after \in Nat
    BY <1>1, <1>8, <1>11
  <2> HIDE DEF after
  <2>2. /\ worth - left \in Nat /\ n <= worth - left /\ worth - left <= n + UnitValue
    BY <1>1, <1>8, <2>1, TransferLoss DEF UnitValue
  <2>3. left \in Nat
    BY <1>1, <1>8, <2>1, MultiplyTypes
  <2> HIDE DEF worth, left
  <2>4. Net(receipt'.events, "aToken", w) = (worth - ToldA[w]) + (0 - n)
    BY <1>3, <1>9, <1>11
  <2>5. ToldA'[w] = left
    BY <1>10, <1>11
  <2> DEFINE net == Net(receipt'.events, "aToken", w)
  <2> HIDE DEF net
  <2>6. net - (left - ToldA[w]) \in 0..UnitValue
    BY <1>1, <1>5, <1>8, <2>2, <2>3, <2>4 DEF net
  <2>7. QED
    BY <1>11, <2>5, <2>6 DEF net
<1>12. CASE w = to /\ from # to
  <2>1. after = b + scaled /\ after \in Nat /\ after - scaled = b /\ scaled <= after
    BY <1>1, <1>8, <1>12
  <2> HIDE DEF after
  <2>2. /\ left - worth \in Nat /\ n <= left - worth /\ left - worth <= n + UnitValue
    BY <1>1, <2>1, TransferLoss DEF UnitValue
  <2>3. left \in Nat
    BY <1>1, <2>1, MultiplyTypes
  <2> HIDE DEF worth, left
  <2>4. Net(receipt'.events, "aToken", w) = (worth - ToldA[w]) + (n - 0)
    BY <1>3, <1>9, <1>12
  <2>5. ToldA'[w] = left
    BY <1>10, <1>12
  <2> DEFINE net == Net(receipt'.events, "aToken", w)
  <2> HIDE DEF net
  <2>6. -(net - (left - ToldA[w])) \in 0..UnitValue
    BY <1>1, <1>5, <1>8, <2>2, <2>3, <2>4 DEF net
  <2>7. QED
    BY <1>12, <2>5, <2>6 DEF net
<1>13. CASE w = from /\ from = to
  <2>1. left = worth
    BY <1>13
  <2> HIDE DEF worth, left
  <2>2. Net(receipt'.events, "aToken", w) = (worth - ToldA[w]) + (n - n)
    BY <1>3, <1>9, <1>13
  <2>3. ToldA'[w] = left
    BY <1>10, <1>13
  <2>4. Net(receipt'.events, "aToken", w) - (ToldA'[w] - ToldA[w]) = 0
    BY <1>1, <1>8, <2>1, <2>2, <2>3
  <2>5. QED
    BY <1>13, <2>4
<1>14. CASE w # from /\ w # to
  <2>1. Net(receipt'.events, "aToken", w) = 0 + (0 - 0) /\ ToldA'[w] = ToldA[w]
    BY <1>3, <1>10, <1>14
  <2>2. Net(receipt'.events, "aToken", w) - (ToldA'[w] - ToldA[w]) = 0
    BY <1>8, <2>1
  <2>3. QED
    BY <1>14, <2>2
<1>15. QED
  BY <1>11, <1>12, <1>13, <1>14

(* Without an event nothing that was told changes.                         *)
LEMMA SilentStep ==
    ASSUME BothLedgersOK, receipt'.events = <<>>, UNCHANGED ledgers,
           receipt'.call \in {"none", "approve", "approveDelegation"}
    PROVE  EventsTellTheChangeStep
<1>1. ToldA' = ToldA /\ ToldV' = ToldV
  BY DEF ToldA, ToldV, ledgers
<1>2. ~IsMove(receipt')
  BY DEF IsMove
<1>3. \A u \in Users :
         /\ Net(receipt'.events, "aToken", u) = 0 /\ Net(receipt'.events, "debtToken", u) = 0
         /\ ToldA[u] \in Nat /\ ToldV[u] \in Nat
  BY NetOfFew, ToldIsNat
<1>4. QED
  BY <1>1, <1>2, <1>3 DEF EventsTellTheChangeStep

(* Every step tells what it changes.                                       *)
LEMMA TellingStep ==
    BothLedgersOK /\ [TokensNext]_tokenVars => [EventsTellTheChangeStep]_tokenVars
<1> SUFFICES ASSUME BothLedgersOK, [TokensNext]_tokenVars
             PROVE  [EventsTellTheChangeStep]_tokenVars
  OBVIOUS
<1>1. CASE Accrue
  <2>1. receipt'.call = "none" /\ receipt'.events = <<>> /\ UNCHANGED ledgers
    BY <1>1 DEF Accrue
  <2>2. QED
    BY <2>1, SilentStep
<1>2. ASSUME NEW u \in Users, NEW v \in Users, NEW n \in Amounts,
             \/ Supply(u, v, n) \/ Withdraw(u, v, n) \/ Transfer(u, v, n)
             \/ Borrow(u, v, n) \/ Repay(u, v, n)
      PROVE  EventsTellTheChangeStep
  <2>1. CASE Transfer(u, v, n)
    BY <2>1, MoveTells DEF Transfer
  <2>2. CASE Supply(u, v, n) \/ Withdraw(u, v, n) \/ Borrow(u, v, n) \/ Repay(u, v, n)
    BY <2>2, SupplyTells, WithdrawTells, BorrowTells, RepayTells
  <2>3. QED
    BY <1>2, <2>1, <2>2
<1>3. ASSUME NEW w \in Users, NEW u \in Users, NEW v \in Users, NEW n \in Amounts,
             TransferFrom(w, u, v, n)
      PROVE  EventsTellTheChangeStep
  <2>1. MoveTokens("transferFrom", w, u, v, n)
    BY <1>3 DEF TransferFrom
  <2>2. QED
    BY <2>1, MoveTells
<1>4. ASSUME NEW u \in Users, NEW v \in Users, NEW n,
             Approve(u, v, n) \/ ApproveDelegation(u, v, n)
      PROVE  EventsTellTheChangeStep
  <2>1. /\ receipt'.call \in {"approve", "approveDelegation"} /\ receipt'.events = <<>>
        /\ UNCHANGED ledgers
    BY <1>4 DEF Approve, ApproveDelegation, Emit
  <2>2. QED
    BY <2>1, SilentStep
<1>5. QED
  BY <1>1, <1>2, <1>3, <1>4 DEF TokensNext

(* Whoever adds up Transfer events knows every balance of both tokens as of*)
(* its last touch, except for less than a scaled unit per transfer, which  *)
(* the sender is told too much of and the receiver too little.             *)
THEOREM EventsTellBalances == TokensSpec => EventsTellTheChange
  BY InitBothLedgers, BothLedgersKept, TellingStep, PTL
     DEF TokensSpec, EventsTellTheChange
=============================================================================
