---------------------------- MODULE Flash_proofs ----------------------------
(***************************************************************************)
(* The theorems about the pool hold with flash loans in flight: whatever a *)
(* receiver does between the two halves of a call, and however many loans  *)
(* it nests.  What is lent comes back in cash or as a debt, so the books   *)
(* balance, rates are fresh and no value is lost when it has.              *)
(***************************************************************************)
EXTENDS FlashLoan, PoolValue_proofs, SequenceTheorems

Call == [caller: Users, receiver: Users, onBehalfOf: Users,
         items: Seq(Item) \ {<<>>}, returning: BOOLEAN]

-----------------------------------------------------------------------------
(* A list takes a natural amount out of an asset, at most what there is.   *)
LEMMA AmountTypes ==
    ASSUME NEW items \in Seq(Requested), NEW a \in Assets,
           LedgersOK, \A i \in DOMAIN items : items[i].amount <= cash[items[i].asset]
    PROVE  AmountOf(items, a) \in Nat /\ AmountOf(items, a) <= cash[a]
<1>1. cash[a] \in Nat
  BY DEF LedgersOK
<1>2. CASE \E i \in DOMAIN items : items[i].asset = a
  <2> DEFINE k == CHOOSE i \in DOMAIN items : items[i].asset = a
  <2>1. k \in DOMAIN items /\ items[k].asset = a
    BY <1>2
  <2> HIDE DEF k
  <2>2. items[k] \in Requested
    BY <2>1
  <2>3. items[k].amount \in Nat /\ items[k].amount <= cash[a]
    BY <2>1, <2>2 DEF Requested
  <2>4. AmountOf(items, a) = items[k].amount
    BY <1>2 DEF AmountOf, k
  <2>5. QED
    BY <2>3, <2>4
<1>3. CASE ~ \E i \in DOMAIN items : items[i].asset = a
  BY <1>1, <1>3 DEF AmountOf
<1>4. QED
  BY <1>2, <1>3

(* Lending moves cash into the receiver's wallet and nothing else.         *)
LEMMA LendSound ==
    ASSUME TypeOK, LoansOK, NEW caller \in Users, NEW receiver \in Users,
           NEW onBehalfOf \in Users, NEW items \in Seq(Requested), items # <<>>,
           NEW premium \in Nat, Lend(caller, receiver, items, onBehalfOf, premium)
    PROVE  /\ TypeOK' /\ LoansOK' /\ IndexesNeverFallStep
           /\ UNCHANGED <<vBalance, borrowing, aSupply, config>>
<1> DEFINE asked == [i \in DOMAIN items |-> WithPremium(items[i], premium)]
           call == [caller |-> caller, receiver |-> receiver, onBehalfOf |-> onBehalfOf,
                    items |-> asked, returning |-> FALSE]
<1>1. /\ \A i \in DOMAIN items : items[i].amount <= cash[items[i].asset]
      /\ cash' = [a \in Assets |-> cash[a] - AmountOf(items, a)]
      /\ wallet' = [a \in Assets |->
                       [wallet[a] EXCEPT ![receiver] = @ + AmountOf(items, a)]]
      /\ loans' = Append(loans, call)
      /\ UNCHANGED <<reserve, aBalance, aSupply, vBalance, vSupply, borrowAllowance,
                     bitVars, userEMode, adminVars, worldVars, flashLoanPremium>>
  BY DEF Lend
<1>2. \A i \in DOMAIN items : asked[i] \in Item
  <2>1. ASSUME NEW i \in DOMAIN items PROVE asked[i] \in Item
    <3>1. items[i] \in Requested
      OBVIOUS
    <3>2. percentMulCeil(items[i].amount, premium) \in Nat
      BY <3>1, MultiplyTypes DEF Requested
    <3>3. QED
      BY <3>1, <3>2 DEF WithPremium, Requested, Item
  <2>2. QED
    BY <2>1
<1>3. asked \in Seq(Item) /\ asked # <<>>
  <2>1. /\ DOMAIN items = 1..Len(items) /\ Len(items) \in Nat /\ Len(items) # 0
    OBVIOUS
  <2>2. asked \in [1..Len(items) -> Item]
    BY <1>2, <2>1
  <2>3. asked \in Seq(Item)
    BY <2>1, <2>2, SeqDef
  <2>4. asked # <<>>
    BY <2>1
  <2>5. QED
    BY <2>3, <2>4
<1> HIDE DEF asked
<1>4. call \in Call
  BY <1>3 DEF Call
<1>5. LoansOK'
  BY <1>1, <1>4 DEF LoansOK, Call
<1>6. LedgersOK'
  <2>1. \A a \in Assets : /\ cash[a] \in Nat /\ AmountOf(items, a) \in Nat
                          /\ AmountOf(items, a) <= cash[a]
    BY <1>1, AmountTypes DEF TypeOK, LedgersOK
  <2>2. cash' \in [Assets -> Nat]
    BY <1>1, <2>1
  <2>3. receiver \in Accounts /\ wallet \in [Assets -> [Accounts -> Nat]]
    BY DEF Accounts, TypeOK, LedgersOK
  <2>4. wallet' \in [Assets -> [Accounts -> Nat]]
    BY <1>1, <2>1, <2>3
  <2>5. QED
    BY <1>1, <2>2, <2>4 DEF TypeOK, LedgersOK
<1>7. ReservesOK' /\ IndexesNeverFallStep
  BY <1>1, UnchangedReserves DEF TypeOK, worldVars
<1>8. QED
  BY <1>1, <1>5, <1>6, <1>7 DEF TypeOK, AccountsOK, SettingsOK, WorldOK, bitVars,
     adminVars, worldVars

(* A repayment brings in what the receiver has, and settles and rates the  *)
(* reserve as it finds it.                                                 *)
LEMMA RepaymentSound ==
    ASSUME TypeOK, NEW receiver \in Users, NEW item \in Item,
           HandleFlashLoanRepayment(receiver, item)
    PROVE  /\ TypeOK' /\ IndexesNeverFallStep
           /\ UNCHANGED <<vBalance, borrowing, aSupply, config>>
<1> DEFINE a == item.asset
           r == UpdatedReserve(a)
           due == item.amount + item.premium
           accrual == PremiumAccrual(item.premium, r.liquidityIndex)
           accrued == [r EXCEPT !.accruedToTreasury = @ + accrual]
           rated == WithRates(a, accrued, vSupply[a], cash[a] + due)
<1>1. a \in Assets /\ due \in Nat /\ item.premium \in Nat
  BY DEF Item
<1>2. /\ due <= wallet[a][receiver]
      /\ reserve' = [reserve EXCEPT ![a] = rated]
      /\ cash' = [cash EXCEPT ![a] = @ + due]
      /\ wallet' = Debit(wallet, a, receiver, due)
      /\ UNCHANGED <<aBalance, aSupply, vBalance, vSupply, borrowAllowance,
                     bitVars, userEMode, adminVars, worldVars>>
  BY DEF HandleFlashLoanRepayment
<1>3. receiver \in Accounts /\ LedgersOK /\ SettingsOK /\ ReservesOK /\ WorldOK
  BY DEF Accounts, TypeOK
<1>4. LedgersOK'
  <2> HIDE DEF a, due
  <2>1. wallet' \in [Assets -> [Accounts -> Nat]]
    BY <1>1, <1>2, <1>3, DebitTypes DEF LedgersOK
  <2>2. cash' \in [Assets -> Nat]
    BY <1>1, <1>2, <1>3 DEF LedgersOK
  <2>3. QED
    BY <1>2, <1>3, <2>1, <2>2 DEF LedgersOK
<1>5. SoundReserve(accrued) /\ GrownFrom(reserve[a], accrued)
  <2> HIDE DEF a
  <2>1. SoundReserve(reserve[a])
    BY <1>1, <1>3 DEF ReservesOK, SoundReserve
  <2>2. SoundReserve(r) /\ GrownFrom(reserve[a], r) /\ r.liquidityIndex \in Nat \ {0}
    BY <1>1, <1>3, <2>1, SettledReserve DEF UpdatedReserve, LedgersOK, WorldOK
  <2> HIDE DEF r
  <2>3. accrual \in Nat
    BY <1>1, <2>2, DivideTypes DEF PremiumAccrual
  <2> HIDE DEF accrual
  <2>4. QED
    BY <2>2, <2>3 DEF SoundReserve, GrownFrom, ReserveData
<1> HIDE DEF accrued
<1>6. vSupply[a] \in Nat /\ cash[a] + due \in Nat
  BY <1>1, <1>3 DEF LedgersOK
<1>7. SoundReserve(rated) /\ GrownFrom(accrued, rated)
  BY <1>1, <1>3, <1>5, <1>6, RatedReserve
<1> HIDE DEF rated
<1>8. SoundSuccessor(reserve')
  <2>1. reserve[a] \in ReserveData /\ accrued \in ReserveData /\ rated \in ReserveData
    BY <1>1, <1>3, <1>5, <1>7 DEF ReservesOK, SoundReserve
  <2>2. GrownFrom(reserve[a], rated)
    BY <1>5, <1>7, <2>1, GrowthIsTransitive
  <2>3. SoundSuccessor(reserve)
    BY <1>3, ReserveFollowsItself
  <2>4. QED
    BY <1>1, <1>2, <1>7, <2>1, <2>2, <2>3 DEF SoundSuccessor
<1>9. now' = now
  BY <1>2 DEF worldVars
<1>10. ReservesOK' /\ IndexesNeverFallStep
  BY <1>8, <1>9, SuccessorIsSound
<1>11. QED
  BY <1>2, <1>3, <1>4, <1>10 DEF TypeOK, AccountsOK, SettingsOK, WorldOK, bitVars,
     adminVars, worldVars

(* What Return leaves in flight: the calls around the innermost one, and   *)
(* that one with its remaining items.                                      *)
LEMMA RemainingLoans ==
    ASSUME NEW ls \in Seq(Call), ls # <<>>
    PROVE  LET loan == ls[Len(ls)]
               outer == SubSeq(ls, 1, Len(ls) - 1)
               rest == [loan EXCEPT !.items = Tail(@), !.returning = TRUE]
           IN  /\ loan \in Call /\ Head(loan.items) \in Item
               /\ outer \in Seq(Call)
               /\ Len(loan.items) # 1 => rest \in Call
<1> DEFINE loan == ls[Len(ls)]
           outer == SubSeq(ls, 1, Len(ls) - 1)
           rest == [loan EXCEPT !.items = Tail(@), !.returning = TRUE]
<1>1. Len(ls) \in Nat \ {0}
  BY EmptySeq
<1>2. loan \in Call
  BY <1>1, ElementOfSeq
<1> HIDE DEF loan
<1>3. loan.items \in Seq(Item) /\ loan.items # <<>>
  BY <1>2 DEF Call
<1>4. /\ Head(loan.items) \in Item /\ Tail(loan.items) \in Seq(Item)
      /\ Len(Tail(loan.items)) = Len(loan.items) - 1
  BY <1>3, HeadTailProperties
<1>5. outer \in Seq(Call)
  <2>1. \A i \in 1..(Len(ls) - 1) : ls[i] \in Call
    BY <1>1, ElementOfSeq
  <2>2. Len(ls) - 1 \in Int /\ 1 \in Int
    BY <1>1
  <2>3. QED
    BY <2>1, <2>2, SubSeqProperties
<1>6. Len(loan.items) # 1 => rest \in Call
  <2>1. Len(loan.items) # 1 => Tail(loan.items) # <<>>
    <3>1. Len(loan.items) \in Nat \ {0}
      BY <1>3, EmptySeq
    <3>2. Tail(loan.items) = <<>> => Len(Tail(loan.items)) = 0
      BY EmptySeq
    <3>3. QED
      BY <1>4, <3>1, <3>2
  <2>2. QED
    BY <1>2, <1>4, <2>1 DEF Call
<1>7. QED
  BY <1>2, <1>4, <1>5, <1>6 DEF loan

(* The item the innermost call settles next, and the call without it.      *)
Due  == Head(Current.items)
Rest == [Current EXCEPT !.items = Tail(@), !.returning = TRUE]

(* Settling an item is a repayment, or a borrow that releases nothing.     *)
LEMMA ReturnOutcome ==
    ASSUME LoansOK, Return
    PROVE  /\ loans \in Seq(Call) /\ loans # <<>> /\ Outer \in Seq(Call)
           /\ Current \in Call /\ Due \in Item /\ Due.asset \in Assets
           /\ Current.receiver \in Users
           /\ \/ HandleFlashLoanRepayment(Current.receiver, Due)
              \/ /\ Current.caller \in Users /\ Current.onBehalfOf \in Users
                 /\ Due.amount \in Nat
                 /\ ExecuteBorrow(Current.caller, Due.asset, Due.amount,
                                  Current.onBehalfOf, 0)
           /\ \/ Len(Current.items) = 1 /\ loans' = Outer
              \/ Len(Current.items) # 1 /\ Rest \in Call /\ loans' = Append(Outer, Rest)
           /\ LoansOK'
<1>1. /\ loans # <<>> /\ flashLoanPremium' = flashLoanPremium
      /\ \/ HandleFlashLoanRepayment(Current.receiver, Due)
         \/ ExecuteBorrow(Current.caller, Due.asset, Due.amount, Current.onBehalfOf, 0)
      /\ \/ Len(Current.items) = 1 /\ loans' = Outer
         \/ Len(Current.items) # 1 /\ loans' = Append(Outer, Rest)
  BY DEF Return, Due, Rest
<1>2. loans \in Seq(Call)
  BY DEF LoansOK, Call
<1>3. /\ Current \in Call /\ Due \in Item /\ Outer \in Seq(Call)
      /\ Len(Current.items) # 1 => Rest \in Call
  BY <1>1, <1>2, RemainingLoans DEF Current, Outer, Due, Rest
<1>4. /\ Current.caller \in Users /\ Current.receiver \in Users
      /\ Current.onBehalfOf \in Users /\ Due.asset \in Assets /\ Due.amount \in Nat
  BY <1>3 DEF Call, Item
<1>5. loans' \in Seq(Call)
  BY <1>1, <1>3, AppendProperties
<1>6. LoansOK'
  BY <1>1, <1>5 DEF LoansOK, Call
<1>7. QED
  BY <1>1, <1>2, <1>3, <1>4, <1>6

LEMMA ReturnSound ==
    ASSUME TypeOK, LoansOK, Return
    PROVE  /\ TypeOK' /\ LoansOK' /\ IndexesNeverFallStep
           /\ BorrowingBitsMatchDebts => BorrowingBitsMatchDebts'
           /\ UNCHANGED <<aSupply, config>>
<1>1. LoansOK'
  BY ReturnOutcome
<1>2. CASE HandleFlashLoanRepayment(Current.receiver, Due)
  <2>1. TypeOK' /\ IndexesNeverFallStep /\ UNCHANGED <<vBalance, borrowing, aSupply, config>>
    BY <1>2, ReturnOutcome, RepaymentSound
  <2>2. QED
    BY <1>1, <2>1 DEF BorrowingBitsMatchDebts
<1>3. CASE /\ Current.caller \in Users /\ Current.onBehalfOf \in Users
           /\ Due.asset \in Assets /\ Due.amount \in Nat
           /\ ExecuteBorrow(Current.caller, Due.asset, Due.amount, Current.onBehalfOf, 0)
  <2>1. TypeOK' /\ IndexesNeverFallStep
    BY <1>3, ExecuteBorrowSound
  <2>2. BorrowingBitsMatchDebts => BorrowingBitsMatchDebts'
    BY <1>3, ExecuteBorrowKeepsBits
  <2>3. UNCHANGED <<aSupply, config>>
    BY <1>3 DEF ExecuteBorrow, adminVars
  <2>4. QED
    BY <1>1, <2>1, <2>2, <2>3
<1>4. QED
  BY <1>2, <1>3, ReturnOutcome

-----------------------------------------------------------------------------
(* Every step of the composition is a step of the pool, with nothing in    *)
(* flight or within a callback, or a half of a flash loan.                 *)
LEMMA FlashCases ==
    ASSUME TypeOK, LoansOK, [FlashNext]_allVars
    PROVE  \/ [Next]_vars /\ loans' = loans /\ LoansOK'
           \/ \E u \in Users, v \in Users, w \in Users,
                 items \in Seq(Requested) \ {<<>>}, premium \in Nat :
                     Lend(u, v, items, w, premium)
           \/ Return
<1>1. CASE (UserCall \/ WorldStep) /\ UNCHANGED flashVars
  BY <1>1 DEF Next, LoansOK, flashVars
<1>2. CASE FlashStep
  <2>1. PICK u \in Users, v \in Users, w \in Users, items \in Seq(Requested) \ {<<>>} :
            \/ FlashLoanCall(u, v, items, w)
            \/ Len(items) = 1 /\ FlashLoanSimple(u, v, items[1])
    BY <1>2, FlashAssumption, PoolAssumption DEF FlashStep
  <2>2. flashLoanPremium \in Nat /\ 0 \in Nat
    BY DEF LoansOK
  <2>3. CASE FlashLoanCall(u, v, items, w)
    <3>1. PICK premium \in Nat : Lend(u, v, items, w, premium)
      BY <2>2, <2>3 DEF FlashLoanCall
    <3>2. QED
      BY <3>1
  <2>4. CASE Len(items) = 1 /\ FlashLoanSimple(u, v, items[1])
    <3> DEFINE single == <<items[1]>>
    <3>1. items[1] \in Requested
      BY <2>4, ElementOfSeq
    <3>2. single \in Seq(Requested) \ {<<>>}
      BY <3>1
    <3>3. Lend(u, v, single, u, flashLoanPremium)
      BY <2>4 DEF FlashLoanSimple
    <3> HIDE DEF single
    <3>4. QED
      BY <2>2, <3>2, <3>3
  <2>5. QED
    BY <2>1, <2>3, <2>4
<1>3. CASE FlashAdminStep \/ UNCHANGED allVars
  BY <1>3, FlashAssumption
     DEF FlashAdminStep, UpdateFlashloanPremiumTotal, SetReserveFlashLoaning, allVars,
         flashVars, LoansOK
<1>4. QED
  BY <1>1, <1>2, <1>3 DEF FlashNext

LEMMA FlashNextSound ==
    ASSUME TypeOK, LoansOK, [FlashNext]_allVars
    PROVE  /\ TypeOK' /\ LoansOK'
           /\ BorrowingBitsMatchDebts => BorrowingBitsMatchDebts'
           /\ InactiveReserveHasNoSupply => InactiveReserveHasNoSupply'
<1>1. CASE [Next]_vars /\ loans' = loans /\ LoansOK'
  BY <1>1, NextSound, NextKeepsBits, NextKeepsInactiveEmpty
<1>2. ASSUME NEW u \in Users, NEW v \in Users, NEW w \in Users,
             NEW items \in Seq(Requested) \ {<<>>}, NEW premium \in Nat,
             Lend(u, v, items, w, premium)
      PROVE  /\ TypeOK' /\ LoansOK'
             /\ BorrowingBitsMatchDebts => BorrowingBitsMatchDebts'
             /\ InactiveReserveHasNoSupply => InactiveReserveHasNoSupply'
  BY <1>2, LendSound DEF BorrowingBitsMatchDebts, InactiveReserveHasNoSupply
<1>3. CASE Return
  BY <1>3, ReturnSound DEF InactiveReserveHasNoSupply
<1>4. QED
  BY <1>1, <1>2, <1>3, FlashCases

LEMMA FlashInitSound == FlashInit => TypeOK /\ LoansOK
<1>1. InitialPremium \in Nat
  BY FlashAssumption, UnitsAssumption
<1>2. QED
  BY <1>1, InitSound DEF FlashInit, LoansOK

(* Type correctness with flash loans: no call a receiver makes while it    *)
(* holds the funds, and no premium, underflows a ledger or a counter.      *)
THEOREM FlashTypeCorrect == FlashSpec => [](TypeOK /\ LoansOK)
<1>1. TypeOK /\ LoansOK /\ [FlashNext]_allVars => TypeOK' /\ LoansOK'
  BY FlashNextSound
<1>2. QED
  BY <1>1, FlashInitSound, PTL DEF FlashSpec

(* The borrowing bits are the debts, also of loans that become debts.      *)
THEOREM FlashBitsAreDebts == FlashSpec => []BorrowingBitsMatchDebts
<1>1. FlashInit => BorrowingBitsMatchDebts
  BY DEF FlashInit, Init, BorrowingBitsMatchDebts
<1>2. TypeOK /\ LoansOK /\ BorrowingBitsMatchDebts /\ [FlashNext]_allVars
        => BorrowingBitsMatchDebts'
  BY FlashNextSound
<1>3. QED
  BY <1>1, <1>2, FlashTypeCorrect, PTL DEF FlashSpec

(* Nobody holds aTokens of an inactive reserve, whatever is in flight when *)
(* it is switched off or used.                                             *)
THEOREM FlashInactiveReservesAreEmpty == FlashSpec => []InactiveReserveHasNoSupply
<1>1. FlashInit => InactiveReserveHasNoSupply
  BY DEF FlashInit, Init, InactiveReserveHasNoSupply
<1>2. TypeOK /\ LoansOK /\ InactiveReserveHasNoSupply /\ [FlashNext]_allVars
        => InactiveReserveHasNoSupply'
  BY FlashNextSound
<1>3. QED
  BY <1>1, <1>2, FlashTypeCorrect, PTL DEF FlashSpec

-----------------------------------------------------------------------------
(* The books.                                                              *)

(* Lending moves underlying from the pool into a wallet.                   *)
LEMMA LendKeepsBooks ==
    ASSUME TypeOK, LoansOK, BooksBalance, NEW caller \in Users, NEW receiver \in Users,
           NEW onBehalfOf \in Users, NEW items \in Seq(Requested), items # <<>>,
           NEW premium \in Nat, Lend(caller, receiver, items, onBehalfOf, premium)
    PROVE  BooksBalance'
<1>1. /\ \A i \in DOMAIN items : items[i].amount <= cash[items[i].asset]
      /\ cash' = [a \in Assets |-> cash[a] - AmountOf(items, a)]
      /\ wallet' = [a \in Assets |->
                       [wallet[a] EXCEPT ![receiver] = @ + AmountOf(items, a)]]
      /\ UNCHANGED <<aBalance, aSupply, vBalance, vSupply>>
  BY DEF Lend
<1>2. receiver \in Accounts /\ wallet \in [Assets -> [Accounts -> Nat]] /\ LedgersOK
  BY DEF Accounts, TypeOK, LedgersOK
<1>3. Balanced(aBalance, aSupply) /\ Balanced(vBalance, vSupply) /\ Conserved(cash, wallet)
  BY BooksAre
<1>4. ASSUME NEW a \in Assets
      PROVE  cash'[a] + TotalOf(wallet'[a]) = TotalOf(InitialWallet[a])
  <2> DEFINE n == AmountOf(items, a)
             w == wallet[a]
             w2 == [w EXCEPT ![receiver] = @ + n]
  <2>1. n \in Nat /\ cash[a] \in Nat
    BY <1>1, <1>2, AmountTypes DEF LedgersOK
  <2>2. cash'[a] = cash[a] - n /\ wallet'[a] = w2
    BY <1>1
  <2>3. w \in [Accounts -> Nat]
    BY <1>2
  <2> HIDE DEF n, w
  <2>4. /\ w2 \in [Accounts -> Nat] /\ w2[receiver] = w[receiver] + n
        /\ \A v \in Accounts : v # receiver => w2[v] = w[v]
    BY <1>2, <2>1, <2>3
  <2> HIDE DEF w2
  <2>5. TotalOf(w2) + w[receiver] = TotalOf(w) + (w[receiver] + n)
    BY <1>2, <2>3, <2>4, TotalUpdate
  <2>6. TotalOf(w2) \in Nat /\ TotalOf(w) \in Nat /\ w[receiver] \in Nat
    BY <1>2, <2>3, <2>4, TotalIsNatural
  <2>7. cash[a] + TotalOf(w) = TotalOf(InitialWallet[a])
    BY <1>3 DEF Conserved, w
  <2>8. TotalOf(w2) = TotalOf(w) + n
    BY <2>1, <2>5, <2>6
  <2>9. TotalOf(wallet'[a]) = TotalOf(w2)
    BY <2>2
  <2>10. QED
    BY <2>1, <2>2, <2>6, <2>7, <2>8, <2>9
<1>5. Conserved(cash', wallet')
  BY <1>4 DEF Conserved
<1>6. QED
  BY <1>1, <1>3, <1>5, BooksAre

LEMMA ReturnKeepsBooks ==
    ASSUME TypeOK, LoansOK, BooksBalance, Return
    PROVE  BooksBalance'
<1>1. CASE HandleFlashLoanRepayment(Current.receiver, Due)
  <2> DEFINE due == Due.amount + Due.premium
             u == Current.receiver
             a == Due.asset
  <2>1. /\ due <= wallet[a][u]
        /\ cash' = [cash EXCEPT ![a] = @ + due]
        /\ wallet' = Debit(wallet, a, u, due)
        /\ UNCHANGED <<aBalance, aSupply, vBalance, vSupply>>
    BY <1>1 DEF HandleFlashLoanRepayment
  <2>2. due \in Nat /\ u \in Accounts /\ a \in Assets
    BY ReturnOutcome DEF Item, Accounts
  <2>3. cash \in [Assets -> Nat] /\ wallet \in [Assets -> [Accounts -> Nat]]
    BY DEF TypeOK, LedgersOK
  <2> HIDE DEF due, u, a
  <2>4. Balanced(aBalance, aSupply) /\ Balanced(vBalance, vSupply) /\ Conserved(cash, wallet)
    BY BooksAre
  <2>5. Conserved(cash', wallet')
    BY <2>1, <2>2, <2>3, <2>4, PayingInConserves
  <2>6. QED
    BY <2>1, <2>4, <2>5, BooksAre
<1>2. CASE /\ Current.caller \in Users /\ Current.onBehalfOf \in Users
           /\ Due.asset \in Assets /\ Due.amount \in Nat
           /\ ExecuteBorrow(Current.caller, Due.asset, Due.amount, Current.onBehalfOf, 0)
  BY <1>2, ExecuteBorrowKeepsBooks
<1>3. QED
  BY <1>1, <1>2, ReturnOutcome

(* The books balance in every state of a transaction, also while funds are *)
(* with a receiver that calls whatever it likes.                           *)
THEOREM FlashBooksBalance == FlashSpec => []BooksBalance
<1>1. FlashInit => BooksBalance
  BY InitialBooks DEF FlashInit
<1>2. TypeOK /\ LoansOK /\ BooksBalance /\ [FlashNext]_allVars => BooksBalance'
  BY FlashCases, NextKeepsBooks, LendKeepsBooks, ReturnKeepsBooks
<1>3. QED
  BY <1>1, <1>2, FlashTypeCorrect, PTL DEF FlashSpec

-----------------------------------------------------------------------------
(* Collateral.                                                             *)

(* The halves of a flash loan leave the collateral and its parameters.     *)
LEMMA LoansLeaveCollateral ==
    ASSUME TypeOK, LoansOK, [FlashNext]_allVars, ~[Next]_vars
    PROVE  UNCHANGED <<config, eModeCategories, usingAsCollateral, userEMode>>
<1>1. ASSUME NEW u \in Users, NEW v \in Users, NEW w \in Users,
             NEW items \in Seq(Requested) \ {<<>>}, NEW premium \in Nat,
             Lend(u, v, items, w, premium)
      PROVE  UNCHANGED <<config, eModeCategories, usingAsCollateral, userEMode>>
  BY <1>1 DEF Lend, bitVars, adminVars
<1>2. CASE Return
  <2>1. CASE HandleFlashLoanRepayment(Current.receiver, Due)
    BY <2>1 DEF HandleFlashLoanRepayment, bitVars, adminVars
  <2>2. CASE ExecuteBorrow(Current.caller, Due.asset, Due.amount, Current.onBehalfOf, 0)
    BY <2>2 DEF ExecuteBorrow, adminVars
  <2>3. QED
    BY <1>2, <2>1, <2>2, ReturnOutcome
<1>3. QED
  BY <1>1, <1>2, FlashCases

LEMMA FlashParametersStaySound == FlashSpec => []SoundParameters
<1>1. FlashInit => SoundParameters
  BY InitialParameters DEF FlashInit
<1>2. TypeOK /\ LoansOK /\ SoundParameters /\ [FlashNext]_allVars => SoundParameters'
  <2> SUFFICES ASSUME TypeOK, LoansOK, SoundParameters, [FlashNext]_allVars
               PROVE  SoundParameters'
    OBVIOUS
  <2>1. CASE [Next]_vars
    BY <2>1, NextKeepsParameters
  <2>2. CASE ~[Next]_vars
    BY <2>2, LoansLeaveCollateral DEF SoundParameters
  <2>3. QED
    BY <2>1, <2>2
<1>3. QED
  BY <1>1, <1>2, FlashTypeCorrect, PTL DEF FlashSpec

(* Collateral that can be seized stays so, whatever a receiver calls while *)
(* it holds the funds.                                                     *)
THEOREM FlashSeizabilityStays == FlashSpec => CollateralStaysSeizable
<1>1. TypeOK /\ LoansOK /\ BooksBalance /\ SoundParameters /\ [FlashNext]_allVars
      => [\A u \in Accounts :
             BitsHaveTokens(u) /\ Seizable(u) => Seizable(u)']_vars
  <2> SUFFICES ASSUME TypeOK, LoansOK, BooksBalance, SoundParameters,
                      [FlashNext]_allVars, NEW u \in Accounts,
                      BitsHaveTokens(u), Seizable(u)
               PROVE  Seizable(u)'
    OBVIOUS
  <2>1. CASE [Next]_vars
    BY <2>1, NextKeepsSeizable
  <2>2. CASE ~[Next]_vars
    BY <2>2, LoansLeaveCollateral
       DEF Seizable, ThresholdFor, LiquidationBonus, isInEModeCategory
  <2>3. QED
    BY <2>1, <2>2
<1>2. QED
  BY <1>1, FlashTypeCorrect, FlashBooksBalance, FlashParametersStaySound, PTL
  DEF FlashSpec, CollateralStaysSeizable

-----------------------------------------------------------------------------
(* What is in flight.                                                      *)

Asks(items, a) == \E i \in DOMAIN items : items[i].asset = a

NoAssetTwice(items) ==
    \A i, j \in DOMAIN items : items[i].asset = items[j].asset => i = j

LEMMA AmountIs ==
    ASSUME NEW items, NEW a
    PROVE  /\ ~Asks(items, a) => AmountOf(items, a) = 0
           /\ \A i \in DOMAIN items : NoAssetTwice(items) /\ items[i].asset = a
                => AmountOf(items, a) = items[i].amount
<1>1. ~Asks(items, a) => AmountOf(items, a) = 0
  BY DEF Asks, AmountOf
<1>2. ASSUME NEW i \in DOMAIN items, NoAssetTwice(items), items[i].asset = a
      PROVE  AmountOf(items, a) = items[i].amount
  <2> DEFINE k == CHOOSE j \in DOMAIN items : items[j].asset = a
  <2>1. k \in DOMAIN items /\ items[k].asset = a
    BY <1>2
  <2>2. k = i
    BY <1>2, <2>1 DEF NoAssetTwice
  <2>3. QED
    BY <1>2, <2>2 DEF AmountOf
<1>3. QED
  BY <1>1, <1>2

(* An item comes off the front of its list.                                *)
LEMMA AmountAfterFirst ==
    ASSUME NEW items \in Seq(Item), items # <<>>, NoAssetTwice(items), NEW a
    PROVE  /\ NoAssetTwice(Tail(items)) /\ ~Asks(Tail(items), Head(items).asset)
           /\ Head(items).asset = a => /\ AmountOf(items, a) = Head(items).amount
                                       /\ AmountOf(Tail(items), a) = 0
           /\ Head(items).asset # a => /\ AmountOf(items, a) = AmountOf(Tail(items), a)
                                       /\ Asks(items, a) <=> Asks(Tail(items), a)
           /\ Len(items) = 1 => AmountOf(Tail(items), a) = 0 /\ ~Asks(Tail(items), a)
<1> DEFINE rest == Tail(items)
<1>1. /\ Len(items) \in Nat \ {0} /\ DOMAIN items = 1..Len(items)
      /\ Len(rest) = Len(items) - 1 /\ DOMAIN rest = 1..(Len(items) - 1)
      /\ Head(items) = items[1]
      /\ \A i \in 1..(Len(items) - 1) : rest[i] = items[i + 1]
  BY EmptySeq, HeadTailProperties
<1>2. 1 \in DOMAIN items /\ Head(items) = items[1]
  BY <1>1
<1>3. ASSUME NEW i \in DOMAIN rest
      PROVE  i + 1 \in DOMAIN items /\ rest[i] = items[i + 1] /\ i \in Nat /\ i + 1 # 1
  BY <1>1
<1>4. ASSUME NEW i \in DOMAIN items, i # 1
      PROVE  i - 1 \in DOMAIN rest /\ rest[i - 1] = items[i]
  <2>1. i \in Nat /\ i - 1 \in 1..(Len(items) - 1) /\ (i - 1) + 1 = i
    BY <1>1, <1>4
  <2>2. QED
    BY <1>1, <2>1
<1> HIDE DEF rest
<1>5. NoAssetTwice(rest)
  <2>1. ASSUME NEW i \in DOMAIN rest, NEW j \in DOMAIN rest, rest[i].asset = rest[j].asset
        PROVE  i = j
    <3>1. i + 1 = j + 1
      BY <1>3, <2>1 DEF NoAssetTwice
    <3>2. QED
      BY <1>3, <3>1
  <2>2. QED
    BY <2>1 DEF NoAssetTwice
<1>6. ~Asks(rest, Head(items).asset)
  <2>1. ASSUME NEW i \in DOMAIN rest, rest[i].asset = items[1].asset PROVE FALSE
    <3>1. i + 1 = 1
      BY <1>2, <1>3, <2>1 DEF NoAssetTwice
    <3>2. QED
      BY <1>3, <3>1
  <2>2. QED
    BY <1>2, <2>1 DEF Asks
<1>7. Head(items).asset = a => /\ AmountOf(items, a) = Head(items).amount
                               /\ AmountOf(rest, a) = 0
  BY <1>2, <1>6, AmountIs
<1>8. ASSUME Head(items).asset # a
      PROVE  AmountOf(items, a) = AmountOf(rest, a) /\ (Asks(items, a) <=> Asks(rest, a))
  <2>1. CASE Asks(items, a)
    <3>1. PICK i \in DOMAIN items : items[i].asset = a
      BY <2>1 DEF Asks
    <3>2. i - 1 \in DOMAIN rest /\ rest[i - 1] = items[i]
      BY <1>2, <1>4, <1>8, <3>1
    <3>3. AmountOf(items, a) = items[i].amount
      BY <3>1, AmountIs
    <3>4. AmountOf(rest, a) = rest[i - 1].amount /\ Asks(rest, a)
      BY <1>5, <3>1, <3>2, AmountIs DEF Asks
    <3>5. QED
      BY <2>1, <3>2, <3>3, <3>4
  <2>2. CASE ~Asks(items, a)
    <3>1. ~Asks(rest, a)
      BY <1>3, <2>2 DEF Asks
    <3>2. QED
      BY <2>2, <3>1, AmountIs
  <2>3. QED
    BY <2>1, <2>2
<1>9. Len(items) = 1 => ~Asks(rest, a)
  <2>1. Len(items) = 1 => DOMAIN rest = {}
    BY <1>1
  <2>2. QED
    BY <2>1 DEF Asks
<1>10. QED
  BY <1>5, <1>6, <1>7, <1>8, <1>9, AmountIs DEF rest

(* What a list of calls has in flight.                                     *)
LentBy(ls, a) == SumFunction([i \in DOMAIN ls |-> AmountOf(ls[i].items, a)])
FlownBy(ls, a) == \E i \in DOMAIN ls : Asks(ls[i].items, a)
NoCallTwice(ls) == \A i \in DOMAIN ls : NoAssetTwice(ls[i].items)

LEMMA InFlightIs ==
    \A a : /\ Lent(a) = LentBy(loans, a) /\ Lent(a)' = LentBy(loans', a)
           /\ InFlight(a) <=> FlownBy(loans, a)
           /\ InFlight(a)' <=> FlownBy(loans', a)
BY DEF Lent, LentBy, InFlight, FlownBy, Asks

LEMMA ItemAmounts ==
    ASSUME NEW call \in Call, NEW a, NoAssetTwice(call.items)
    PROVE  AmountOf(call.items, a) \in Nat
<1>1. call.items \in Seq(Item)
  BY DEF Call
<1>2. CASE Asks(call.items, a)
  <2>1. PICK i \in DOMAIN call.items : call.items[i].asset = a
    BY <1>2 DEF Asks
  <2>2. call.items[i] \in Item
    BY <1>1, <2>1, ElementOfSeq
  <2>3. QED
    BY <2>1, <2>2, AmountIs DEF Item
<1>3. CASE ~Asks(call.items, a)
  BY <1>3, AmountIs
<1>4. QED
  BY <1>2, <1>3

(* A call more adds what it lends.                                         *)
LEMMA OneCallMore ==
    ASSUME NEW ls \in Seq(Call), NEW call \in Call, NEW a
    PROVE  /\ NoCallTwice(Append(ls, call)) <=> NoCallTwice(ls) /\ NoAssetTwice(call.items)
           /\ FlownBy(Append(ls, call), a) <=> FlownBy(ls, a) \/ Asks(call.items, a)
           /\ NoCallTwice(ls) /\ NoAssetTwice(call.items) =>
                /\ LentBy(ls, a) \in Nat
                /\ LentBy(Append(ls, call), a) = LentBy(ls, a) + AmountOf(call.items, a)
<1> DEFINE n == Len(ls)
           all == Append(ls, call)
<1>1. /\ n \in Nat /\ DOMAIN ls = 1..n /\ DOMAIN all = 1..(n + 1)
      /\ all[n + 1] = call /\ \A i \in 1..n : all[i] = ls[i]
      /\ \A i \in 1..n : ls[i] \in Call
  BY AppendProperties, ElementOfSeq
<1>2. n + 1 \notin 1..n /\ 1..(n + 1) = (1..n) \cup {n + 1}
  BY <1>1
<1> HIDE DEF n, all
<1>3. NoCallTwice(all) <=> NoCallTwice(ls) /\ NoAssetTwice(call.items)
  BY <1>1, <1>2 DEF NoCallTwice
<1>4. FlownBy(all, a) <=> FlownBy(ls, a) \/ Asks(call.items, a)
  BY <1>1, <1>2 DEF FlownBy
<1>5. ASSUME NoCallTwice(ls), NoAssetTwice(call.items)
      PROVE  LentBy(ls, a) \in Nat /\ LentBy(all, a) = LentBy(ls, a) + AmountOf(call.items, a)
  <2> DEFINE f == [i \in 1..n |-> AmountOf(ls[i].items, a)]
             h == [i \in 1..(n + 1) |-> AmountOf(all[i].items, a)]
  <2>1. \A i \in 1..n : f[i] \in Nat /\ h[i] = f[i]
    <3>1. \A i \in 1..n : AmountOf(ls[i].items, a) \in Nat
      BY <1>1, <1>5, ItemAmounts DEF NoCallTwice
    <3>2. QED
      BY <1>1, <1>2, <3>1
  <2>2. h[n + 1] = AmountOf(call.items, a)
    BY <1>1, <1>2
  <2>3. h[n + 1] \in Nat
    BY <1>5, <2>2, ItemAmounts
  <2>4. LentBy(ls, a) = SumFunctionOnSet(f, 1..n)
    BY <1>1 DEF LentBy, SumFunction
  <2>5. LentBy(all, a) = SumFunctionOnSet(h, 1..(n + 1))
    BY <1>1 DEF LentBy, SumFunction
  <2> HIDE DEF f, h
  <2>6. IsFiniteSet(1..n) /\ IsFiniteSet(1..(n + 1))
    <3>1. n \in Int /\ n + 1 \in Int /\ 1 \in Int
      BY <1>1
    <3>2. QED
      BY <3>1, FS_Interval
  <2>7. SumFunctionOnSet(h, 1..n) = SumFunctionOnSet(f, 1..n)
    BY <2>1, <2>6, SumAgrees
  <2>8. \A i \in 1..(n + 1) : h[i] \in Nat
    BY <1>2, <2>1, <2>3
  <2>9. (1..(n + 1)) \ {n + 1} = 1..n /\ n + 1 \in 1..(n + 1)
    BY <1>2
  <2>10. SumFunctionOnSet(h, 1..(n + 1)) = h[n + 1] + SumFunctionOnSet(h, 1..n)
    <3> DEFINE J == 1..(n + 1)
    <3> HIDE DEF J
    <3>1. SumFunctionOnSet(h, J) = h[n + 1] + SumFunctionOnSet(h, J \ {n + 1})
      BY <2>6, <2>8, <2>9, SumTakesOut DEF J
    <3>2. QED
      BY <2>9, <3>1 DEF J
  <2>11. SumFunctionOnSet(f, 1..n) \in Nat
    BY <2>1, <2>6, SumIsNatural
  <2>12. QED
    BY <2>2, <2>3, <2>4, <2>5, <2>7, <2>10, <2>11
<1>6. QED
  BY <1>3, <1>4, <1>5 DEF all

(* The list of calls ends with the current one.                            *)
LEMMA CurrentIsLast ==
    ASSUME loans \in Seq(Call), loans # <<>>, Outer \in Seq(Call), Current \in Call
    PROVE  loans = Append(Outer, Current)
<1>1. Len(loans) \in Nat \ {0} /\ DOMAIN loans = 1..Len(loans)
  BY EmptySeq
<1>2. /\ Len(Outer) = Len(loans) - 1
      /\ \A i \in 1..(Len(loans) - 1) : Outer[i] = loans[i]
  BY <1>1 DEF Outer
<1>3. /\ Len(Append(Outer, Current)) = Len(loans)
      /\ \A i \in 1..(Len(loans) - 1) : Append(Outer, Current)[i] = loans[i]
      /\ Append(Outer, Current)[Len(loans)] = Current
  <2> DEFINE n == Len(loans)
             o == Outer
             all == Append(o, Current)
  <2>1. /\ Len(all) = Len(o) + 1 /\ all[Len(o) + 1] = Current
        /\ \A i \in 1..Len(o) : all[i] = o[i]
    BY AppendProperties
  <2>2. n \in Nat /\ Len(o) = n - 1 /\ Len(o) + 1 = n
    BY <1>1, <1>2
  <2> HIDE DEF n, o, all
  <2>3. Len(all) = n /\ all[n] = Current /\ \A i \in 1..(n - 1) : all[i] = o[i]
    BY <2>1, <2>2
  <2>4. QED
    BY <1>2, <2>3 DEF n, o, all
<1>4. \A i \in 1..Len(loans) : Append(Outer, Current)[i] = loans[i]
  BY <1>1, <1>3 DEF Current
<1>5. Append(Outer, Current) \in Seq(Call)
  BY AppendProperties
<1>6. QED
  BY <1>1, <1>3, <1>4, <1>5, SeqEqual

(* A return takes its item out of what is in flight.                       *)
LEMMA ReturnLoans ==
    ASSUME LoansOK, NoCallTwice(loans), Return, NEW a
    PROVE  /\ NoCallTwice(loans')
           /\ Lent(a) \in Nat /\ Lent(a)' \in Nat
           /\ a # Due.asset => Lent(a)' = Lent(a) /\ (InFlight(a) => InFlight(a)')
           /\ a = Due.asset => Lent(a)' + Due.amount = Lent(a)
<1> DEFINE items == Current.items
<1>1. /\ loans = Append(Outer, Current) /\ Outer \in Seq(Call) /\ Current \in Call
      /\ Due = Head(items) /\ Due \in Item
      /\ items \in Seq(Item) /\ items # <<>>
  BY ReturnOutcome, CurrentIsLast DEF Call, Due
<1>2. NoCallTwice(Outer) /\ NoAssetTwice(items)
  BY <1>1, OneCallMore
<1>3. /\ NoAssetTwice(Tail(items))
      /\ Head(items).asset = a => /\ AmountOf(items, a) = Head(items).amount
                                  /\ AmountOf(Tail(items), a) = 0
      /\ Head(items).asset # a => /\ AmountOf(items, a) = AmountOf(Tail(items), a)
                                  /\ Asks(items, a) <=> Asks(Tail(items), a)
      /\ Len(items) = 1 => AmountOf(Tail(items), a) = 0 /\ ~Asks(Tail(items), a)
  BY <1>1, <1>2, AmountAfterFirst
<1>4. /\ LentBy(Outer, a) \in Nat
      /\ LentBy(loans, a) = LentBy(Outer, a) + AmountOf(items, a)
      /\ FlownBy(loans, a) <=> FlownBy(Outer, a) \/ Asks(items, a)
      /\ AmountOf(items, a) \in Nat
  BY <1>1, <1>2, OneCallMore, ItemAmounts
<1>5. /\ NoCallTwice(loans')
      /\ LentBy(loans', a) = LentBy(Outer, a) + AmountOf(Tail(items), a)
      /\ FlownBy(loans', a) <=> FlownBy(Outer, a) \/ Asks(Tail(items), a)
      /\ AmountOf(Tail(items), a) \in Nat
  <2>1. CASE Len(items) = 1 /\ loans' = Outer
    BY <1>2, <1>3, <1>4, <2>1
  <2>2. CASE Rest \in Call /\ loans' = Append(Outer, Rest)
    <3>1. Rest.items = Tail(items)
      BY <1>1 DEF Rest, Call
    <3>2. NoAssetTwice(Rest.items) /\ AmountOf(Rest.items, a) \in Nat
      BY <1>3, <2>2, <3>1, ItemAmounts
    <3>3. /\ NoCallTwice(Append(Outer, Rest))
          /\ LentBy(Append(Outer, Rest), a) = LentBy(Outer, a) + AmountOf(Rest.items, a)
          /\ FlownBy(Append(Outer, Rest), a) <=> FlownBy(Outer, a) \/ Asks(Rest.items, a)
      BY <1>1, <1>2, <2>2, <3>2, OneCallMore
    <3>4. QED
      BY <2>2, <3>1, <3>2, <3>3
  <2>3. QED
    BY <2>1, <2>2, ReturnOutcome
<1> HIDE DEF items
<1>6. Due.amount \in Nat
  BY <1>1 DEF Item
<1>7. QED
  BY <1>1, <1>3, <1>4, <1>5, <1>6, InFlightIs

(* A loan adds its items.                                                  *)
LEMMA LendLoans ==
    ASSUME LoansOK, NoCallTwice(loans), NEW caller \in Users, NEW receiver \in Users,
           NEW onBehalfOf \in Users, NEW items \in Seq(Requested), items # <<>>,
           NEW premium \in Nat, Lend(caller, receiver, items, onBehalfOf, premium),
           LoansOK', NEW a
    PROVE  /\ NoCallTwice(loans')
           /\ Lent(a) \in Nat /\ AmountOf(items, a) \in Nat
           /\ Lent(a)' = Lent(a) + AmountOf(items, a)
           /\ InFlight(a)' <=> InFlight(a) \/ Asks(items, a)
<1> DEFINE asked == [i \in DOMAIN items |-> WithPremium(items[i], premium)]
           call == [caller |-> caller, receiver |-> receiver, onBehalfOf |-> onBehalfOf,
                    items |-> asked, returning |-> FALSE]
<1>1. loans' = Append(loans, call) /\ NoAssetTwice(items)
  BY DEF Lend, ValidFlashloan, NoAssetTwice
<1>2. /\ DOMAIN asked = DOMAIN items
      /\ \A i \in DOMAIN items : asked[i].asset = items[i].asset
                                 /\ asked[i].amount = items[i].amount
  BY DEF WithPremium
<1>3. call.items = asked
  OBVIOUS
<1> HIDE DEF asked
<1>4. loans \in Seq(Call) /\ call \in Call
  <2> HIDE DEF call
  <2>1. loans \in Seq(Call) /\ loans' \in Seq(Call)
    BY DEF LoansOK, Call
  <2>2. Len(loans) \in Nat /\ Len(loans') = Len(loans) + 1 /\ loans'[Len(loans) + 1] = call
    BY <1>1, <2>1
  <2>3. Len(loans) + 1 \in 1..Len(loans')
    BY <2>2
  <2>4. QED
    BY <2>1, <2>2, <2>3, ElementOfSeq
<1> HIDE DEF call
<1>5. NoAssetTwice(asked) /\ (Asks(asked, a) <=> Asks(items, a))
  BY <1>1, <1>2 DEF NoAssetTwice, Asks
<1>6. AmountOf(asked, a) = AmountOf(items, a)
  <2>1. CASE Asks(items, a)
    <3>1. PICK i \in DOMAIN items : items[i].asset = a
      BY <2>1 DEF Asks
    <3>2. AmountOf(items, a) = items[i].amount
      BY <1>1, <3>1, AmountIs
    <3>3. AmountOf(asked, a) = asked[i].amount
      BY <1>2, <1>5, <3>1, AmountIs
    <3>4. QED
      BY <1>2, <3>1, <3>2, <3>3
  <2>2. CASE ~Asks(items, a)
    BY <1>5, <2>2, AmountIs
  <2>3. QED
    BY <2>1, <2>2
<1>7. AmountOf(asked, a) \in Nat
  BY <1>3, <1>4, <1>5, ItemAmounts
<1>8. QED
  BY <1>1, <1>3, <1>4, <1>5, <1>6, <1>7, OneCallMore, InFlightIs

(* No call in flight names an asset twice.                                 *)
ItemsDistinct == NoCallTwice(loans)

LEMMA FlashItemsDistinct == FlashSpec => []ItemsDistinct
<1>1. FlashInit => ItemsDistinct
  BY DEF FlashInit, NoCallTwice, ItemsDistinct
<1>2. TypeOK /\ LoansOK /\ ItemsDistinct /\ [FlashNext]_allVars => ItemsDistinct'
  BY FlashCases, FlashNextSound, LendLoans, ReturnLoans DEF ItemsDistinct
<1>3. QED
  BY <1>1, <1>2, FlashTypeCorrect, PTL DEF FlashSpec

-----------------------------------------------------------------------------
(* Rates.                                                                  *)

(* A repayment settles its reserve, adds the premium to what the treasury  *)
(* is owed, and leaves the other reserves alone.                           *)
LEMMA RepaymentSettles ==
    ASSUME TypeOK, NEW receiver \in Users, NEW item \in Item,
           HandleFlashLoanRepayment(receiver, item), NEW b \in Assets
    PROVE  LET a == item.asset
               r == UpdatedReserve(a)
           IN  /\ UNCHANGED <<aSupply, vSupply, config, now>>
               /\ b # a => reserve'[b] = reserve[b] /\ cash'[b] = cash[b]
               /\ cash'[a] = cash[a] + (item.amount + item.premium)
               /\ RatesFreshFor(a)' /\ RatedFor(a)'
               /\ reserve'[a].liquidityIndex = r.liquidityIndex
               /\ reserve'[a].variableBorrowIndex = r.variableBorrowIndex
               /\ reserve'[a].lastUpdateTimestamp = now
               /\ reserve'[a].accruedToTreasury
                    = r.accruedToTreasury + PremiumAccrual(item.premium, r.liquidityIndex)
<1> DEFINE a == item.asset
           r == UpdatedReserve(a)
           due == item.amount + item.premium
           accrual == PremiumAccrual(item.premium, r.liquidityIndex)
           accrued == [r EXCEPT !.accruedToTreasury = @ + accrual]
           rated == WithRates(a, accrued, vSupply[a], cash[a] + due)
<1>1. /\ reserve' = [reserve EXCEPT ![a] = rated]
      /\ cash' = [cash EXCEPT ![a] = @ + due]
      /\ UNCHANGED <<aSupply, vSupply, config, now>>
  BY DEF HandleFlashLoanRepayment, adminVars, worldVars
<1>2. a \in Assets /\ reserve \in [Assets -> ReserveData] /\ cash \in [Assets -> Nat]
  BY DEF Item, TypeOK, ReservesOK, LedgersOK
<1>3. r \in ReserveData /\ r.lastUpdateTimestamp = now
  <2>1. SoundReserve(UpdatedReserve(a))
    BY <1>2, CallIndexes
  <2>2. reserve[a] \in ReserveData
    BY <1>2
  <2>3. QED
    BY <2>1, <2>2 DEF SoundReserve, UpdatedReserve, UpdatedState, ReserveData
<1>4. /\ reserve'[a] = rated /\ cash'[a] = cash[a] + due
      /\ b # a => reserve'[b] = reserve[b] /\ cash'[b] = cash[b]
  <2> HIDE DEF a, rated, due
  <2>1. QED
    BY <1>1, <1>2
<1> HIDE DEF r, accrual
<1>5. /\ rated.liquidityIndex = r.liquidityIndex
      /\ rated.variableBorrowIndex = r.variableBorrowIndex
      /\ rated.lastUpdateTimestamp = now
      /\ rated.accruedToTreasury = r.accruedToTreasury + accrual
  BY <1>3 DEF WithRates, ReserveData
<1>6. LET rates == InterestRates(a, VTokenBalance(vSupply[a], r.variableBorrowIndex),
                                 cash[a] + due, config[a].reserveFactor)
      IN  /\ rated.currentLiquidityRate = rates.liquidity
          /\ rated.currentVariableBorrowRate = rates.variable
  BY <1>3 DEF WithRates, ReserveData
<1> HIDE DEF rated, due
<1>7. RatesFreshFor(a)' /\ RatedFor(a)'
  BY <1>1, <1>4, <1>5, <1>6 DEF RatesFreshFor, RatedFor
<1>8. QED
  BY <1>1, <1>4, <1>5, <1>7 DEF r, accrual, due

(* A reserve settled as of now has fresh rates and earns by them.          *)
LEMMA SettledIsRated ==
    ASSUME TypeOK, TypeOK', NEW a \in Assets, Settled(a)
    PROVE  RatesFreshFor(a)' /\ RatedFor(a)'
<1>1. UpdatedReserve(a) \in ReserveData
  BY TradeTypes
<1>2. QED
  BY <1>1, SettledIsFresh DEF RatedFor, Settled, SameBooks, ReserveData

(* An asset of which nothing is in flight after a step is one of which     *)
(* nothing was, and the step is fair to it; or the step rates it for what  *)
(* it holds.                                                               *)
LEMMA NotInFlight ==
    ASSUME TypeOK, LoansOK, NoCallTwice(loans), [FlashNext]_allVars,
           NEW b \in Assets, ~InFlight(b)'
    PROVE  \/ ~InFlight(b) /\ FairStep(b)
           \/ RatesFreshFor(b)' /\ RatedFor(b)'
<1>1. TypeOK' /\ LoansOK'
  BY FlashNextSound
<1>2. CASE [Next]_vars /\ loans' = loans
  BY <1>2, InFlightIs, NextIsFair
<1>3. ASSUME NEW u \in Users, NEW v \in Users, NEW w \in Users,
             NEW items \in Seq(Requested) \ {<<>>}, NEW premium \in Nat,
             Lend(u, v, items, w, premium)
      PROVE  ~InFlight(b) /\ FairStep(b)
  <2>1. ~InFlight(b) /\ ~Asks(items, b)
    BY <1>1, <1>3, LendLoans
  <2>2. AmountOf(items, b) = 0
    BY <2>1, AmountIs
  <2>3. /\ cash'[b] = cash[b] - AmountOf(items, b) /\ cash[b] \in Nat
        /\ UNCHANGED <<reserve, aSupply, vSupply, config>>
    BY <1>3 DEF Lend, adminVars, TypeOK, LedgersOK
  <2>4. cash'[b] = cash[b]
    BY <2>2, <2>3
  <2>5. QED
    BY <2>1, <2>3, <2>4 DEF FairStep, Idle, SameBooks
<1>4. CASE Return
  <2>1. b # Due.asset => ~InFlight(b)
    BY <1>4, ReturnLoans
  <2>2. CASE HandleFlashLoanRepayment(Current.receiver, Due)
    <3>1. Due \in Item /\ Current.receiver \in Users
      BY <1>4, ReturnOutcome
    <3>2. CASE b = Due.asset
      BY <2>2, <3>1, <3>2, RepaymentSettles
    <3>3. CASE b # Due.asset
      <4>1. /\ UNCHANGED <<aSupply, vSupply, config>>
            /\ reserve'[b] = reserve[b] /\ cash'[b] = cash[b]
        BY <2>2, <3>1, <3>3, RepaymentSettles
      <4>2. QED
        BY <2>1, <3>3, <4>1 DEF FairStep, Idle, SameBooks
    <3>4. QED
      BY <3>2, <3>3
  <2>3. CASE /\ Current.caller \in Users /\ Current.onBehalfOf \in Users
             /\ Due.asset \in Assets /\ Due.amount \in Nat
             /\ ExecuteBorrow(Current.caller, Due.asset, Due.amount,
                              Current.onBehalfOf, 0)
    <3>1. /\ Settled(Due.asset) /\ config' = config /\ aSupply' = aSupply
          /\ b # Due.asset => /\ SameBooks(reserve[b], reserve'[b])
                              /\ vSupply'[b] = vSupply[b] /\ cash'[b] = cash[b]
      BY <1>1, <2>3, ExecuteBorrowSettles
    <3>2. CASE b = Due.asset
      BY <1>1, <3>1, <3>2, SettledIsRated
    <3>3. CASE b # Due.asset
      BY <2>1, <3>1, <3>3 DEF FairStep, Idle
    <3>4. QED
      BY <3>2, <3>3
  <2>4. QED
    BY <1>4, <2>2, <2>3, ReturnOutcome
<1>5. QED
  BY <1>2, <1>3, <1>4, FlashCases

(* The rates in storage are those the strategy gives for the cash and the  *)
(* debt in storage, for every asset of which nothing is in flight: what a  *)
(* receiver does within the callback leaves no trace in them.              *)
THEOREM SettledRatesStayFresh == FlashSpec => []SettledRatesAreFresh
<1>1. FlashInit => SettledRatesAreFresh
  BY InitRatesFresh DEF FlashInit, RatesFresh, SettledRatesAreFresh
<1>2. TypeOK /\ LoansOK /\ ItemsDistinct /\ SettledRatesAreFresh /\ [FlashNext]_allVars
        => SettledRatesAreFresh'
  BY FlashNextSound, NotInFlight, FairStepKeepsFresh DEF SettledRatesAreFresh, ItemsDistinct
<1>3. QED
  BY <1>1, <1>2, FlashTypeCorrect, FlashItemsDistinct, PTL DEF FlashSpec

-----------------------------------------------------------------------------
(* Value.                                                                  *)

(* What lending takes from the cash it adds to what is lent; what comes    *)
(* back, as cash or as a debt, is worth at least what is no longer lent,   *)
(* and a premium brings in what it adds to the treasury's accrual.         *)
Kept(a) ==
    Assets2Rays(a)' + RAY * Lent(a)' + OwedRays(a)
      >= Assets2Rays(a) + RAY * Lent(a) + OwedRays(a)'

(* The arithmetic of it, at unchanged indexes x and y.                     *)
LEMMA KeptBy ==
    ASSUME TypeOK, TypeOK', NEW a \in Assets, Lent(a) \in Nat, Lent(a)' \in Nat,
           SameIndexes(a), aSupply'[a] = aSupply[a],
           NEW accrual \in Nat, NEW debt \in Nat,
           UpdatedReserve(a)'.accruedToTreasury
             = UpdatedReserve(a).accruedToTreasury + accrual,
           vSupply'[a] = vSupply[a] + debt,
           RAY * (cash[a] + Lent(a)) + accrual * UpdatedReserve(a).liquidityIndex
             <= RAY * (cash'[a] + Lent(a)') + debt * UpdatedReserve(a).variableBorrowIndex
    PROVE  Kept(a)
<1> DEFINE x == UpdatedReserve(a).liquidityIndex
           y == UpdatedReserve(a).variableBorrowIndex
           e == UpdatedReserve(a).accruedToTreasury
           c == cash[a]
           c2 == cash'[a]
           v == vSupply[a]
           s == aSupply[a]
           l == Lent(a)
           l2 == Lent(a)'
<1>1. /\ x \in Nat /\ y \in Nat /\ RAY \in Nat /\ c \in Nat /\ c2 \in Nat
      /\ v \in Nat /\ s \in Nat /\ e \in Nat /\ l \in Nat /\ l2 \in Nat
  BY TradeTypes, UnitsAssumption DEF ReserveData
<1>2. /\ Assets2Rays(a) = RAY * c + v * y
      /\ OwedRays(a) = (s + e) * x
      /\ Assets2Rays(a)' = RAY * c2 + (v + debt) * y
      /\ OwedRays(a)' = (s + (e + accrual)) * x
  BY DEF Assets2Rays, OwedRays, SameIndexes
<1>3. RAY * (c + l) + accrual * x <= RAY * (c2 + l2) + debt * y
  OBVIOUS
<1>4. SUFFICES RAY * c2 + (v + debt) * y + RAY * l2 + (s + e) * x
                 >= RAY * c + v * y + RAY * l + (s + (e + accrual)) * x
  BY <1>2 DEF Kept
<1> HIDE DEF x, y, e, c, c2, v, s, l, l2
<1>5. /\ RAY * (c + l) = RAY * c + RAY * l /\ RAY * (c2 + l2) = RAY * c2 + RAY * l2
      /\ (v + debt) * y = v * y + debt * y
      /\ (s + (e + accrual)) * x = (s + e) * x + accrual * x
  BY <1>1
<1>6. /\ RAY * c \in Nat /\ RAY * l \in Nat /\ RAY * c2 \in Nat /\ RAY * l2 \in Nat
      /\ v * y \in Nat /\ debt * y \in Nat /\ accrual * x \in Nat
      /\ (s + e) * x \in Nat
  BY <1>1, ProductNat
<1>7. QED
  BY <1>3, <1>5, <1>6

LEMMA LendKeepsValue ==
    ASSUME TypeOK, LoansOK, NoCallTwice(loans), NEW u \in Users, NEW v \in Users,
           NEW w \in Users, NEW items \in Seq(Requested), items # <<>>, NEW premium \in Nat,
           Lend(u, v, items, w, premium), NEW a \in Assets
    PROVE  Kept(a)
<1> DEFINE n == AmountOf(items, a)
<1>1. TypeOK' /\ LoansOK'
  BY LendSound
<1>2. Lent(a) \in Nat /\ n \in Nat /\ Lent(a)' = Lent(a) + n
  BY <1>1, LendLoans
<1>3. /\ cash'[a] = cash[a] - n /\ cash[a] \in Nat
      /\ UNCHANGED <<reserve, aSupply, vSupply, config, now>>
  BY DEF Lend, adminVars, worldVars, TypeOK, LedgersOK
<1>4. UpdatedReserve(a)' = UpdatedReserve(a)
  BY <1>3 DEF UpdatedReserve, UpdatedState, TreasuryAccrual, NextLiquidityIndex,
              NextVariableBorrowIndex, IncomeOf, DebtIndexOf
<1>5. SameIndexes(a)
  BY <1>4 DEF SameIndexes
<1> DEFINE x == UpdatedReserve(a).liquidityIndex
           y == UpdatedReserve(a).variableBorrowIndex
<1>6. /\ x \in Nat /\ y \in Nat /\ UpdatedReserve(a).accruedToTreasury \in Nat
      /\ aSupply[a] \in Nat /\ vSupply[a] \in Nat
  BY <1>1, TradeTypes DEF ReserveData
<1> HIDE DEF n
<1>7. cash'[a] + Lent(a)' = cash[a] + Lent(a) /\ Lent(a)' \in Nat
  BY <1>2, <1>3
<1>8. RAY * (cash[a] + Lent(a)) + 0 * x <= RAY * (cash'[a] + Lent(a)') + 0 * y
  <2> DEFINE all == cash[a] + Lent(a)
  <2>1. all \in Nat /\ RAY \in Nat
    BY <1>2, <1>3, UnitsAssumption
  <2> HIDE DEF all, x, y
  <2>2. 0 * x = 0 /\ 0 * y = 0 /\ RAY * all \in Nat
    BY <1>6, <2>1
  <2>3. cash'[a] + Lent(a)' = all
    BY <1>7 DEF all
  <2>4. RAY * all + 0 * x <= RAY * all + 0 * y
    BY <2>2
  <2>5. QED
    BY <2>3, <2>4 DEF all
<1>9. /\ UpdatedReserve(a)'.accruedToTreasury = UpdatedReserve(a).accruedToTreasury + 0
      /\ vSupply'[a] = vSupply[a] + 0 /\ aSupply'[a] = aSupply[a]
  BY <1>3, <1>4, <1>6
<1>10. QED
  BY <1>1, <1>2, <1>5, <1>7, <1>8, <1>9, KeptBy

(* A reserve that a step leaves alone, with the same amount lent of it,    *)
(* keeps its value.                                                        *)
LEMMA IdleKeepsValue ==
    ASSUME TypeOK, TypeOK', NEW a \in Assets, Idle(a), now' = now,
           Lent(a) \in Nat, Lent(a)' = Lent(a)
    PROVE  Kept(a)
<1> DEFINE x == UpdatedReserve(a).liquidityIndex
           y == UpdatedReserve(a).variableBorrowIndex
           e == UpdatedReserve(a).accruedToTreasury
           all == cash[a] + Lent(a)
<1>1. SameIndexes(a) /\ SameAccrual(a)
  BY IdleIndexes
<1>2. /\ x \in Nat /\ y \in Nat /\ e \in Nat /\ vSupply[a] \in Nat /\ all \in Nat
      /\ RAY \in Nat
  BY TradeTypes, UnitsAssumption DEF ReserveData
<1>3. cash'[a] + Lent(a)' = all
  BY DEF Idle
<1>4. /\ UpdatedReserve(a)'.accruedToTreasury = e + 0
      /\ vSupply'[a] = vSupply[a] + 0 /\ aSupply'[a] = aSupply[a]
  BY <1>1, <1>2 DEF SameAccrual, Idle
<1> HIDE DEF x, y, e
<1>5. RAY * all + 0 * x <= RAY * (cash'[a] + Lent(a)') + 0 * y
  <2> HIDE DEF all
  <2>1. 0 * x = 0 /\ 0 * y = 0 /\ RAY * all \in Nat
    BY <1>2, ProductNat
  <2>2. RAY * all + 0 * x <= RAY * all + 0 * y
    BY <2>1
  <2>3. QED
    BY <1>3, <2>2
<1>6. QED
  BY <1>1, <1>4, <1>5, KeptBy DEF x, y, e

(* An item that is paid back brings its amount and its premium, and the    *)
(* treasury is owed no more than the premium for it.                       *)
LEMMA RepaymentKeepsValue ==
    ASSUME TypeOK, TypeOK', NEW receiver \in Users, NEW item \in Item,
           HandleFlashLoanRepayment(receiver, item), Lent(item.asset) \in Nat,
           Lent(item.asset)' \in Nat, Lent(item.asset)' + item.amount = Lent(item.asset)
    PROVE  Kept(item.asset)
<1> DEFINE a == item.asset
           x == UpdatedReserve(a).liquidityIndex
           y == UpdatedReserve(a).variableBorrowIndex
           e == UpdatedReserve(a).accruedToTreasury
           premium == item.premium
           accrual == PremiumAccrual(premium, x)
           l == Lent(a)
           l2 == Lent(a)'
<1>1. a \in Assets /\ premium \in Nat /\ item.amount \in Nat
  BY DEF Item
<1>2. /\ UNCHANGED <<aSupply, vSupply, now>>
      /\ cash'[a] = cash[a] + (item.amount + premium)
      /\ reserve'[a].liquidityIndex = x
      /\ reserve'[a].variableBorrowIndex = y
      /\ reserve'[a].lastUpdateTimestamp = now
      /\ reserve'[a].accruedToTreasury = e + accrual
  BY <1>1, RepaymentSettles
<1>3. /\ UpdatedReserve(a)'.liquidityIndex = x
      /\ UpdatedReserve(a)'.variableBorrowIndex = y
      /\ UpdatedReserve(a)'.accruedToTreasury = e + accrual
  <2> HIDE DEF a
  <2>1. QED
    BY <1>1, <1>2, SettledStays
<1>4. SameIndexes(a)
  BY <1>3 DEF SameIndexes
<1>5. /\ x \in Nat \ {0} /\ y \in Nat /\ vSupply[a] \in Nat
      /\ cash[a] \in Nat /\ cash'[a] \in Nat /\ RAY \in Nat \ {0}
  BY <1>1, TradeTypes, UnitsAssumption
<1> HIDE DEF x, y, e
<1>6. accrual \in Nat /\ accrual * x <= RAY * premium
  <2>1. accrual = ATokenMintScaled(premium, x)
    BY DEF PremiumAccrual
  <2>2. accrual \in Nat
    BY <1>1, <1>5, <2>1, DivideTypes
  <2>3. QED
    BY <1>1, <1>5, <2>1, <2>2, RoundingFavoursPool
<1>7. RAY * (cash[a] + l) + accrual * x <= RAY * (cash'[a] + l2) + 0 * y
  <2> DEFINE all == cash[a] + l
  <2>1. all \in Nat /\ l \in Nat /\ l2 \in Nat /\ l2 + item.amount = l
    BY <1>5
  <2>2. cash'[a] + l2 = all + premium
    BY <1>1, <1>2, <1>5, <2>1
  <2> HIDE DEF accrual, premium, a, all, l, l2
  <2>3. RAY * all + accrual * x <= RAY * (all + premium)
    <3>1. RAY * (all + premium) = RAY * all + RAY * premium
      BY <1>1, <1>5, <2>1
    <3>2. RAY * all \in Nat /\ RAY * premium \in Nat /\ accrual * x \in Nat
      BY <1>1, <1>5, <1>6, <2>1, ProductNat
    <3>3. QED
      BY <1>6, <3>1, <3>2
  <2>4. 0 * y = 0 /\ RAY * (all + premium) \in Nat
    BY <1>1, <1>5, <2>1, ProductNat
  <2>5. RAY * all + accrual * x <= RAY * (all + premium) + 0 * y
    BY <2>3, <2>4
  <2>6. QED
    BY <2>2, <2>5 DEF all
<1>8. aSupply'[a] = aSupply[a] /\ vSupply'[a] = vSupply[a] + 0
  BY <1>2, <1>5
<1>9. QED
  <2> HIDE DEF accrual, a
  <2>1. Kept(a)
    BY <1>1, <1>3, <1>4, <1>5, <1>6, <1>7, <1>8, KeptBy DEF x, y, e, l, l2, a
  <2>2. QED
    BY <2>1 DEF a

(* An item that is kept becomes a debt worth at least its amount.          *)
LEMMA DebtKeepsValue ==
    ASSUME TypeOK, TypeOK', NEW caller \in Users, NEW v \in Users, NEW a \in Assets,
           NEW amount \in Nat, ExecuteBorrow(caller, a, amount, v, 0),
           Lent(a) \in Nat, Lent(a)' \in Nat, Lent(a)' + amount = Lent(a)
    PROVE  Kept(a)
<1> DEFINE x == UpdatedReserve(a).liquidityIndex
           y == UpdatedReserve(a).variableBorrowIndex
           e == UpdatedReserve(a).accruedToTreasury
           l == Lent(a)
           l2 == Lent(a)'
<1>1. /\ Settled(a) /\ now' = now /\ aSupply' = aSupply /\ cash'[a] + 0 = cash[a]
      /\ \E scaled \in Nat : vSupply'[a] = vSupply[a] + scaled /\ RAY * amount <= scaled * y
  BY ExecuteBorrowSettles
<1>2. PICK scaled \in Nat : vSupply'[a] = vSupply[a] + scaled /\ RAY * amount <= scaled * y
  BY <1>1
<1>3. SameIndexes(a) /\ SameAccrual(a)
  BY <1>1, SettledIndexes
<1>4. /\ x \in Nat /\ y \in Nat /\ e \in Nat /\ cash[a] \in Nat /\ cash'[a] \in Nat
      /\ RAY \in Nat
  BY TradeTypes, UnitsAssumption DEF ReserveData
<1>5. UpdatedReserve(a)'.accruedToTreasury = e + 0
  BY <1>3, <1>4 DEF SameAccrual
<1> HIDE DEF x, y, e
<1>6. RAY * (cash[a] + l) + 0 * x <= RAY * (cash'[a] + l2) + scaled * y
  <2> DEFINE rest == cash'[a] + l2
  <2>1. rest \in Nat /\ cash[a] + l = rest + amount
    BY <1>1, <1>4
  <2> HIDE DEF rest, l, l2
  <2>2. RAY * (rest + amount) = RAY * rest + RAY * amount
    BY <1>4, <2>1
  <2>3. /\ RAY * rest \in Nat /\ RAY * amount \in Nat /\ scaled * y \in Nat
        /\ 0 * x = 0 /\ RAY * (rest + amount) \in Nat
    BY <1>4, <2>1, ProductNat
  <2>4. RAY * (rest + amount) + 0 * x <= RAY * rest + scaled * y
    BY <1>2, <2>2, <2>3
  <2>5. QED
    BY <2>1, <2>4 DEF rest
<1>7. QED
  BY <1>1, <1>2, <1>3, <1>5, <1>6, KeptBy DEF x, y, e, l, l2

(* What is lent is an amount, and the two sides of a reserve are too.      *)
LEMMA LentIsNatural ==
    ASSUME LoansOK, NoCallTwice(loans), NEW a
    PROVE  Lent(a) \in Nat
<1> DEFINE I == DOMAIN loans
           f == [i \in I |-> AmountOf(loans[i].items, a)]
<1>1. loans \in Seq(Call) /\ Len(loans) \in Nat /\ I = 1..Len(loans)
  BY DEF LoansOK, Call
<1>2. \A i \in I : AmountOf(loans[i].items, a) \in Nat
  BY <1>1, ItemAmounts, ElementOfSeq DEF NoCallTwice
<1>3. IsFiniteSet(I)
  BY <1>1, FS_Interval
<1>4. Lent(a) = SumFunctionOnSet(f, I)
  BY DEF Lent, SumFunction
<1> HIDE DEF I
<1>5. \A i \in I : f[i] \in Nat
  BY <1>2
<1> HIDE DEF f
<1>6. QED
  BY <1>3, <1>4, <1>5, SumIsNatural

SidesNatural ==
    \A a \in Assets : Assets2Rays(a) \in Nat /\ OwedRays(a) \in Nat

LEMMA SidesAreNatural == TypeOK => SidesNatural
<1> SUFFICES ASSUME TypeOK, NEW a \in Assets
               PROVE  Assets2Rays(a) \in Nat /\ OwedRays(a) \in Nat
  BY DEF SidesNatural
<1> DEFINE r == UpdatedReserve(a)
<1>2. /\ cash[a] \in Nat /\ vSupply[a] \in Nat /\ aSupply[a] \in Nat
      /\ RAY \in Nat /\ reserve[a] \in ReserveData
  BY UnitsAssumption DEF TypeOK, LedgersOK, ReservesOK
<1>3. SoundReserve(r) /\ r.liquidityIndex \in Nat /\ r.variableBorrowIndex \in Nat
  BY CallIndexes
<1>4. r.accruedToTreasury \in Nat
  BY <1>2, <1>3 DEF SoundReserve, ReserveData
<1> HIDE DEF r
<1>5. /\ RAY * cash[a] \in Nat /\ vSupply[a] * r.variableBorrowIndex \in Nat
      /\ (aSupply[a] + r.accruedToTreasury) * r.liquidityIndex \in Nat
  BY <1>2, <1>3, <1>4, ProductNat
<1>6. QED
  BY <1>5 DEF Assets2Rays, OwedRays, r

LEMMA NextSidesAreNatural == TypeOK' => SidesNatural'
BY SidesAreNatural, PTL

LEMMA ReturnKeepsValue ==
    ASSUME TypeOK, LoansOK, NoCallTwice(loans), Return, NEW a \in Assets
    PROVE  Kept(a)
<1>1. TypeOK' /\ Due \in Item /\ Current.receiver \in Users
  BY ReturnSound, ReturnOutcome
<1>2. /\ Lent(a) \in Nat /\ Lent(a)' \in Nat
      /\ a # Due.asset => Lent(a)' = Lent(a)
      /\ a = Due.asset => Lent(a)' + Due.amount = Lent(a)
  BY ReturnLoans
<1>3. CASE HandleFlashLoanRepayment(Current.receiver, Due)
  <2>1. CASE a = Due.asset
    BY <1>1, <1>2, <1>3, <2>1, RepaymentKeepsValue
  <2>2. CASE a # Due.asset
    <3>1. /\ UNCHANGED <<aSupply, vSupply, config, now>>
          /\ reserve'[a] = reserve[a] /\ cash'[a] = cash[a]
      BY <1>1, <1>3, <2>2, RepaymentSettles
    <3>2. Idle(a)
      BY <3>1 DEF Idle, SameBooks
    <3>3. QED
      BY <1>1, <1>2, <2>2, <3>1, <3>2, IdleKeepsValue
  <2>3. QED
    BY <2>1, <2>2
<1>4. CASE /\ Current.caller \in Users /\ Current.onBehalfOf \in Users
           /\ Due.asset \in Assets /\ Due.amount \in Nat
           /\ ExecuteBorrow(Current.caller, Due.asset, Due.amount, Current.onBehalfOf, 0)
  <2>1. CASE a = Due.asset
    BY <1>1, <1>2, <1>4, <2>1, DebtKeepsValue
  <2>2. CASE a # Due.asset
    <3>1. /\ UNCHANGED <<aSupply, config, now>>
          /\ SameBooks(reserve[a], reserve'[a])
          /\ vSupply'[a] = vSupply[a] /\ cash'[a] = cash[a]
      BY <1>1, <1>4, <2>2, ExecuteBorrowSettles
    <3>2. Idle(a)
      BY <3>1 DEF Idle
    <3>3. QED
      BY <1>1, <1>2, <2>2, <3>1, <3>2, IdleKeepsValue
  <2>3. QED
    BY <2>1, <2>2
<1>5. QED
  BY <1>3, <1>4, ReturnOutcome

(* Funds lent count as assets of the reserve until they are back: no step  *)
(* of anybody, before, within or after a callback, and no premium, takes   *)
(* value out of a reserve or gives the treasury more than came in.         *)
THEOREM LentEquityIsKept == FlashSpec => LentEquityNeverFalls
<1>1. TypeOK /\ LoansOK /\ ItemsDistinct /\ [FlashNext]_allVars
        => [LentEquityNeverFallsStep]_allVars
  <2> SUFFICES ASSUME TypeOK, LoansOK, NoCallTwice(loans), [FlashNext]_allVars,
                      now' = now, NEW a \in Assets
               PROVE  Kept(a)
    BY DEF LentEquityNeverFallsStep, ItemsDistinct, Kept
  <2>1. CASE [Next]_vars /\ loans' = loans
    <3>1. TypeOK' /\ FairStep(a)
      BY <2>1, NextSound, NextIsFair
    <3>2. Assets2Rays(a)' + OwedRays(a) >= Assets2Rays(a) + OwedRays(a)'
      BY <3>1, EquityOfFairStep
    <3>3. Lent(a)' = Lent(a) /\ Lent(a) \in Nat
      BY <2>1, LentIsNatural, InFlightIs
    <3>4. /\ Assets2Rays(a) \in Nat /\ OwedRays(a) \in Nat
          /\ Assets2Rays(a)' \in Nat /\ OwedRays(a)' \in Nat /\ RAY * Lent(a) \in Nat
      BY <3>1, <3>3, SidesAreNatural, NextSidesAreNatural, UnitsAssumption, ProductNat
         DEF SidesNatural
    <3>5. RAY * Lent(a)' = RAY * Lent(a)
      BY <3>3
    <3>6. QED
      BY <3>2, <3>4, <3>5 DEF Kept
  <2>2. ASSUME NEW u \in Users, NEW v \in Users, NEW w \in Users,
               NEW items \in Seq(Requested) \ {<<>>}, NEW premium \in Nat,
               Lend(u, v, items, w, premium)
        PROVE  Kept(a)
    BY <2>2, LendKeepsValue
  <2>3. CASE Return
    BY <2>3, ReturnKeepsValue
  <2>4. QED
    BY <2>1, <2>2, <2>3, FlashCases
<1>2. QED
  BY <1>1, FlashTypeCorrect, FlashItemsDistinct, PTL DEF FlashSpec, LentEquityNeverFalls

-----------------------------------------------------------------------------
(* Interest.                                                               *)

(* What is not in flight earns by the rates of what it holds.              *)
SettledEarnByRates == \A a \in Assets : ~InFlight(a) => RatedFor(a)

LEMMA SettledReservesEarnByRates == FlashSpec => []SettledEarnByRates
<1>1. FlashInit => SettledEarnByRates
  BY InitEarnsByRates DEF FlashInit, EarnsByRates, SettledEarnByRates
<1>2. TypeOK /\ LoansOK /\ ItemsDistinct /\ SettledEarnByRates /\ [FlashNext]_allVars
        => SettledEarnByRates'
  BY FlashNextSound, NotInFlight, FairStepKeepsRated DEF SettledEarnByRates, ItemsDistinct
<1>3. QED
  BY <1>1, <1>2, FlashTypeCorrect, FlashItemsDistinct, PTL DEF FlashSpec

(* Between transactions, what suppliers and treasury earn is covered by    *)
(* what debtors owe, up to the same dust, however many loans of whatever   *)
(* nesting there were before.                                              *)
THEOREM FlashInterestStaysShared == FlashSpec => [](loans = <<>> => InterestIsShared)
<1>1. TypeOK /\ LoansOK /\ SettledEarnByRates => (loans = <<>> => InterestIsShared)
  <2> SUFFICES ASSUME TypeOK, SettledEarnByRates, loans = <<>>
               PROVE  InterestIsShared
    OBVIOUS
  <2>1. \A a \in Assets : ~InFlight(a)
    BY DEF InFlight
  <2>2. QED
    BY <2>1, InterestSharedBy DEF SettledEarnByRates, InterestIsShared
<1>2. QED
  BY <1>1, FlashTypeCorrect, SettledReservesEarnByRates, PTL

-----------------------------------------------------------------------------
(* What the pool promises its users, with loans in flight.                 *)

(* The halves of a flash loan leave collateral, categories, settings and   *)
(* the world alone, and open at most one debt, of an item that is kept.    *)
ItemKept ==
    \E u \in Users, v \in Users, a \in Assets, n \in Nat : ExecuteBorrow(u, a, n, v, 0)

LEMMA LoansLeavePositions ==
    ASSUME TypeOK, LoansOK, [FlashNext]_allVars, ~[Next]_vars
    PROVE  /\ UNCHANGED <<aBalance, usingAsCollateral, userEMode, adminVars, worldVars>>
           /\ UNCHANGED <<vBalance, borrowing>> \/ ItemKept
<1>1. ASSUME NEW u \in Users, NEW v \in Users, NEW w \in Users,
             NEW items \in Seq(Requested) \ {<<>>}, NEW premium \in Nat,
             Lend(u, v, items, w, premium)
      PROVE  UNCHANGED <<aBalance, vBalance, bitVars, userEMode, adminVars, worldVars>>
  BY <1>1 DEF Lend
<1>2. CASE HandleFlashLoanRepayment(Current.receiver, Due)
  BY <1>2 DEF HandleFlashLoanRepayment, bitVars
<1>3. CASE /\ Current.caller \in Users /\ Current.onBehalfOf \in Users
           /\ Due.asset \in Assets /\ Due.amount \in Nat
           /\ ExecuteBorrow(Current.caller, Due.asset, Due.amount, Current.onBehalfOf, 0)
  <2>1. ItemKept
    BY <1>3 DEF ItemKept
  <2>2. UNCHANGED <<aBalance, usingAsCollateral, userEMode, adminVars, worldVars>>
    BY <1>3 DEF ExecuteBorrow
  <2>3. QED
    BY <2>1, <2>2
<1>4. QED
  BY <1>1, <1>2, <1>3, FlashCases, ReturnOutcome DEF bitVars

(* They settle what they touch, and drop no accrual.                       *)
LEMMA LoansKeepIndexes ==
    ASSUME TypeOK, LoansOK, [FlashNext]_allVars, ~[Next]_vars
    PROVE  /\ IndexesStand
           /\ \A a \in Assets :
                 reserve'[a].accruedToTreasury >= reserve[a].accruedToTreasury
<1> SUFFICES ASSUME NEW b \in Assets
             PROVE  /\ SameIndexes(b)
                    /\ reserve'[b].accruedToTreasury >= reserve[b].accruedToTreasury
  BY DEF IndexesStand
<1>0. TypeOK' /\ now' = now /\ reserve \in [Assets -> ReserveData]
  BY FlashNextSound, LoansLeavePositions DEF worldVars, TypeOK, ReservesOK
<1>1. /\ reserve[b].accruedToTreasury \in Nat
      /\ UpdatedReserve(b).accruedToTreasury \in Nat
      /\ UpdatedReserve(b).accruedToTreasury >= reserve[b].accruedToTreasury
  <2>1. /\ reserve[b].accruedToTreasury \in Nat
        /\ TreasuryAccrual(b, reserve[b]) \in Nat
    BY <1>0, AccrualType DEF ReserveData
  <2>2. UpdatedReserve(b).accruedToTreasury
          = reserve[b].accruedToTreasury + TreasuryAccrual(b, reserve[b])
    BY <1>0 DEF UpdatedReserve, UpdatedState, ReserveData
  <2>3. QED
    BY <2>1, <2>2
<1>2. ASSUME SameBooks(reserve[b], reserve'[b]), UNCHANGED <<config, vSupply[b]>>
      PROVE  /\ SameIndexes(b)
             /\ reserve'[b].accruedToTreasury >= reserve[b].accruedToTreasury
  <2>1. /\ NextLiquidityIndex(reserve[b])' = NextLiquidityIndex(reserve[b])
        /\ NextVariableBorrowIndex(b, reserve[b])' = NextVariableBorrowIndex(b, reserve[b])
    BY <1>0, <1>2 DEF SameBooks, NextLiquidityIndex, NextVariableBorrowIndex, IncomeOf,
                      DebtIndexOf
  <2>2. reserve[b] \in ReserveData /\ reserve'[b] \in ReserveData
    BY <1>0 DEF TypeOK, ReservesOK
  <2>3. SameIndexes(b)
    BY <2>1, <2>2 DEF SameIndexes, UpdatedReserve, UpdatedState, ReserveData
  <2>4. QED
    BY <1>1, <1>2, <2>3 DEF SameBooks
<1>3. ASSUME NEW u \in Users, NEW v \in Users, NEW w \in Users,
             NEW items \in Seq(Requested) \ {<<>>}, NEW premium \in Nat,
             Lend(u, v, items, w, premium)
      PROVE  SameBooks(reserve[b], reserve'[b]) /\ UNCHANGED <<config, vSupply[b]>>
  BY <1>3 DEF Lend, adminVars, SameBooks
<1>4. CASE /\ Due \in Item /\ Current.receiver \in Users
           /\ HandleFlashLoanRepayment(Current.receiver, Due)
  <2>1. CASE b = Due.asset
    <3>1. /\ reserve'[b].liquidityIndex = UpdatedReserve(b).liquidityIndex
          /\ reserve'[b].variableBorrowIndex = UpdatedReserve(b).variableBorrowIndex
          /\ reserve'[b].lastUpdateTimestamp = now
          /\ reserve'[b].accruedToTreasury
               = UpdatedReserve(b).accruedToTreasury
                   + PremiumAccrual(Due.premium, UpdatedReserve(b).liquidityIndex)
      BY <1>4, <2>1, RepaymentSettles
    <3>2. SameIndexes(b)
      BY <1>0, <3>1, SettledStays DEF SameIndexes
    <3>3. PremiumAccrual(Due.premium, UpdatedReserve(b).liquidityIndex) \in Nat
      BY <1>0, <1>4, TradeTypes, DivideTypes DEF Item, PremiumAccrual
    <3>4. QED
      BY <1>1, <3>1, <3>2, <3>3
  <2>2. CASE b # Due.asset
    <3>1. reserve'[b] = reserve[b] /\ UNCHANGED <<config, vSupply>>
      BY <1>4, <2>2, RepaymentSettles
    <3>2. QED
      BY <1>2, <3>1 DEF SameBooks
  <2>3. QED
    BY <2>1, <2>2
<1>5. CASE /\ Current.caller \in Users /\ Current.onBehalfOf \in Users
           /\ Due.asset \in Assets /\ Due.amount \in Nat
           /\ ExecuteBorrow(Current.caller, Due.asset, Due.amount, Current.onBehalfOf, 0)
  <2>1. /\ Settled(Due.asset) /\ config' = config
        /\ b # Due.asset => /\ SameBooks(reserve[b], reserve'[b])
                            /\ vSupply'[b] = vSupply[b]
    BY <1>0, <1>5, ExecuteBorrowSettles
  <2>2. CASE b = Due.asset
    <3>1. SameIndexes(b)
      BY <1>0, <2>1, <2>2, SettledIndexes
    <3>2. reserve'[b].accruedToTreasury = UpdatedReserve(b).accruedToTreasury
      BY <1>0, <2>1, <2>2, TradeTypes DEF Settled, SameBooks, ReserveData
    <3>3. QED
      BY <1>1, <3>1, <3>2
  <2>3. CASE b # Due.asset
    BY <1>2, <2>1, <2>3
  <2>4. QED
    BY <2>2, <2>3
<1>6. QED
  BY <1>2, <1>3, <1>4, <1>5, FlashCases, ReturnOutcome

(* Nobody is made liquidatable while loans are in flight either, prices,   *)
(* time and settings standing still: not by a call a receiver makes with   *)
(* the funds it holds, and not when the loan ends, with funds returned or  *)
(* kept as a debt of somebody else.                                        *)
THEOREM FlashHealthIsKept == FlashSpec => HealthyStaysHealthy
<1>1. /\ TypeOK /\ LoansOK /\ BooksBalance /\ BorrowingBitsMatchDebts /\ SoundParameters
      /\ TypeOK' /\ BooksBalance' /\ BorrowingBitsMatchDebts' /\ SoundParameters'
      /\ [FlashNext]_allVars
      => [worldVars' = worldVars /\ adminVars' = adminVars
            => \A u \in Users : Healthy(u) => Healthy(u)']_vars
  <2> SUFFICES ASSUME SoundState, SoundState', LoansOK, [FlashNext]_allVars,
                      worldVars' = worldVars, adminVars' = adminVars,
                      NEW u \in Users, Healthy(u)
               PROVE  Healthy(u)'
    BY DEF SoundState
  <2>1. u \in Accounts /\ TypeOK
    BY DEF Accounts, SoundState
  <2>2. CASE [Next]_vars
    BY <2>1, <2>2, NextKeepsHealthy
  <2>3. CASE ~[Next]_vars
    <3>1. /\ UNCHANGED <<aBalance, usingAsCollateral, userEMode>>
          /\ UNCHANGED <<vBalance, borrowing>> \/ ItemKept
          /\ IndexesStand
      BY <2>1, <2>3, LoansLeavePositions, LoansKeepIndexes
    <3>2. StandsStill(u)
      BY <3>1 DEF StandsStill
    <3>3. ~ \E a \in Assets : Weakened(u, a)
      <4>1. \A a \in Assets : aBalance[a][u] \in Nat
        BY <2>1 DEF TypeOK, LedgersOK
      <4>2. QED
        BY <3>1, <4>1 DEF Weakened
    <3>4. DebtsShrink \/ OneDebtOpened
      <4>1. CASE UNCHANGED <<vBalance, borrowing>>
        <5>1. \A a \in Assets, x \in Accounts : vBalance[a][x] \in Nat
          BY <2>1 DEF TypeOK, LedgersOK
        <5>2. QED
          BY <4>1, <5>1 DEF DebtsShrink
      <4>2. CASE ItemKept
        <5>1. 0 \in Nat
          OBVIOUS
        <5>2. QED
          BY <4>2, <5>1 DEF ItemKept, OneDebtOpened
      <4>3. QED
        BY <3>1, <4>1, <4>2
    <3>5. QED
      BY <2>1, <3>1, <3>2, <3>3, <3>4, SecuredStaysHealthy
  <2>4. QED
    BY <2>2, <2>3
<1>2. QED
  BY <1>1, FlashTypeCorrect, FlashBooksBalance, FlashBitsAreDebts, FlashParametersStaySound,
     PTL DEF FlashSpec, HealthyStaysHealthy

(* No nesting of loans and calls lets anybody owe next to a siloed debt:   *)
(* an item that is kept is validated like a borrow.                        *)
THEOREM FlashSiloedStaysAlone == FlashSpec => []SiloedDebtIsAlone
<1>1. FlashInit => SiloedDebtIsAlone
  BY DEF FlashInit, Init, SiloedDebtIsAlone
<1>2. /\ TypeOK /\ LoansOK /\ BooksBalance /\ BorrowingBitsMatchDebts /\ SiloedDebtIsAlone
      /\ [FlashNext]_allVars
      => SiloedDebtIsAlone'
  <2> SUFFICES ASSUME TypeOK, LoansOK, BooksBalance, BorrowingBitsMatchDebts,
                      SiloedDebtIsAlone, [FlashNext]_allVars
               PROVE  SiloedDebtIsAlone'
    OBVIOUS
  <2>1. CASE [Next]_vars
    BY <2>1, NextKeepsSiloedAlone
  <2>2. CASE ~[Next]_vars
    <3>1. UNCHANGED config
      BY <2>2, LoansLeaveCollateral
    <3>2. CASE UNCHANGED <<vBalance, borrowing>>
      BY <3>1, <3>2 DEF SiloedDebtIsAlone
    <3>3. CASE ItemKept
      BY <3>3, DebtKeepsSiloedAlone DEF ItemKept
    <3>4. QED
      BY <2>2, <3>2, <3>3, LoansLeavePositions
  <2>3. QED
    BY <2>1, <2>2
<1>3. QED
  BY <1>1, <1>2, FlashTypeCorrect, FlashBooksBalance, FlashBitsAreDebts, PTL
  DEF FlashSpec

(* Nor into a debt outside of the eMode category by an item that is kept.  *)
THEOREM FlashCategoryIsKept == FlashSpec => DebtsStayInCategory
<1>1. TypeOK /\ LoansOK /\ [FlashNext]_allVars => [DebtsStayInCategoryStep]_vars
  <2> SUFFICES ASSUME TypeOK, LoansOK, [FlashNext]_allVars
               PROVE  DebtsStayInCategoryStep
    OBVIOUS
  <2>1. CASE [Next]_vars
    BY <2>1, NextKeepsCategories
  <2>2. CASE ~[Next]_vars
    <3>1. UNCHANGED <<config, userEMode>>
      BY <2>2, LoansLeaveCollateral
    <3>2. CASE UNCHANGED <<vBalance, borrowing>>
      BY <3>1, <3>2 DEF DebtsStayInCategoryStep, OutOfCategory
    <3>3. CASE ItemKept
      <4>1. PICK x \in Users, v \in Users, a \in Assets :
               /\ borrowing' = WithBit(borrowing, v, a)
               /\ userEMode[v] # 0 => config[a].eModeCategory = userEMode[v]
        BY <3>3 DEF ItemKept, ExecuteBorrow, ValidBorrow
      <4>2. borrowing \in [Accounts -> SUBSET Assets] /\ Users \subseteq Accounts
        BY DEF TypeOK, AccountsOK, Accounts
      <4>3. QED
        BY <3>1, <4>1, <4>2 DEF DebtsStayInCategoryStep, OutOfCategory, WithBit
    <3>4. QED
      BY <2>2, <3>2, <3>3, LoansLeavePositions
  <2>3. QED
    BY <2>1, <2>2
<1>2. QED
  BY <1>1, FlashTypeCorrect, PTL DEF FlashSpec, DebtsStayInCategory

(* Isolated collateral stays alone, whatever a receiver supplies, receives *)
(* or liquidates while it holds the funds.                                 *)
THEOREM FlashIsolationStays == FlashSpec => IsolationIsKept
<1>1. TypeOK /\ LoansOK /\ BooksBalance /\ [FlashNext]_allVars
      => [\A u \in Accounts :
             BitsHaveTokens(u) /\ IsolatedAlone(u) => IsolatedAlone(u)']_vars
  <2> SUFFICES ASSUME TypeOK, LoansOK, BooksBalance, [FlashNext]_allVars,
                      NEW u \in Accounts, BitsHaveTokens(u), IsolatedAlone(u)
               PROVE  IsolatedAlone(u)'
    OBVIOUS
  <2>1. CASE [Next]_vars
    BY <2>1, NextKeepsIsolation
  <2>2. CASE ~[Next]_vars
    BY <2>2, LoansLeaveCollateral DEF IsolatedAlone
  <2>3. QED
    BY <2>1, <2>2
<1>2. QED
  BY <1>1, FlashTypeCorrect, FlashBooksBalance, PTL DEF FlashSpec, IsolationIsKept

(* The arithmetic of a liquidation stands in nobody's way within a         *)
(* callback either, where the funds of a reserve are elsewhere.            *)
THEOREM FlashUnhealthyIsLiquidatable == FlashSpec => []UnhealthyCanBeLiquidated
BY DebtsCanBeLiquidated, FlashTypeCorrect, FlashBitsAreDebts, PTL

(* An item kept as a debt of somebody else is taken off that account's     *)
(* allowance in full, although the funds went to the receiver before the   *)
(* allowance was looked at, and whatever the receiver did to it meanwhile. *)
KeptItemsSpendCreditStep ==
    Return /\ Due.asDebt /\ Current.caller # Current.onBehalfOf =>
        borrowAllowance'[Due.asset][Current.onBehalfOf][Current.caller] + Due.amount
          <= borrowAllowance[Due.asset][Current.onBehalfOf][Current.caller]

KeptItemsSpendCredit == [][KeptItemsSpendCreditStep]_allVars

THEOREM FlashCreditIsSpent == FlashSpec => KeptItemsSpendCredit
<1>1. TypeOK /\ LoansOK => KeptItemsSpendCreditStep
  <2> SUFFICES ASSUME TypeOK, LoansOK, Return, Due.asDebt,
                      Current.caller # Current.onBehalfOf
               PROVE  borrowAllowance'[Due.asset][Current.onBehalfOf][Current.caller]
                          + Due.amount
                        <= borrowAllowance[Due.asset][Current.onBehalfOf][Current.caller]
    BY DEF KeptItemsSpendCreditStep
  <2>1. ExecuteBorrow(Current.caller, Due.asset, Due.amount, Current.onBehalfOf, 0)
    BY DEF Return, Due
  <2>2. /\ Current.caller \in Users /\ Current.onBehalfOf \in Users
        /\ Due.asset \in Assets /\ Due.amount \in Nat /\ 0 \in Nat
    BY ReturnOutcome DEF Call, Item
  <2>3. QED
    BY <2>1, <2>2, CreditIsTakenOff
<1>2. QED
  BY <1>1, FlashTypeCorrect, PTL DEF FlashSpec, KeptItemsSpendCredit

(* What else a step may not do: let indexes fall, drop an accrual of the   *)
(* treasury, leave part of what is taken out whole, drop a bit early or    *)
(* late, or give a liquidator more than the bonus.                         *)
PromisedStep ==
    /\ IndexesNeverFallStep /\ TreasuryGetsItsAccrualStep /\ FullExitStep
    /\ BitDropsWithLastUnitStep /\ LiquidationPaysItsWayStep

LEMMA FlashStepsArePromised ==
    ASSUME TypeOK, LoansOK, [FlashNext]_allVars
    PROVE  PromisedStep
<1>1. CASE [Next]_vars
  <2>1. IndexesNeverFallStep
    <3>1. CASE UNCHANGED vars
      <4>1. \A a \in Assets : /\ reserve[a].liquidityIndex \in Nat
                              /\ reserve[a].variableBorrowIndex \in Nat
                              /\ reserve[a].lastUpdateTimestamp \in Nat
        BY DEF TypeOK, ReservesOK, ReserveData
      <4>2. reserve' = reserve
        BY <3>1 DEF vars
      <4>3. QED
        BY <4>1, <4>2 DEF IndexesNeverFallStep
    <3>2. QED
      BY <1>1, <3>1, NextSound
  <2>2. /\ TreasuryGetsItsAccrualStep /\ FullExitStep
        /\ BitDropsWithLastUnitStep /\ LiquidationPaysItsWayStep
    BY <1>1, NextPaysAccrual, NextExitsWhole, NextDropsBits, NextPaysForLiquidations
  <2>3. QED
    BY <2>1, <2>2 DEF PromisedStep
<1>2. CASE ~[Next]_vars
  <2>1. IndexesNeverFallStep
    BY <1>2, FlashCases, LendSound, ReturnSound
  <2>2. TreasuryGetsItsAccrualStep
    <3>1. \A a \in Assets : /\ reserve[a].accruedToTreasury \in Nat
                            /\ reserve'[a].accruedToTreasury \in Nat
      BY FlashNextSound DEF TypeOK, ReservesOK, ReserveData
    <3>2. QED
      BY <1>2, <3>1, LoansKeepIndexes DEF TreasuryGetsItsAccrualStep
  <2>3. aBalance' = aBalance
    BY <1>2, LoansLeavePositions
  <2>4. \A u \in Accounts, a \in Assets :
           ~(aBalance'[a][u] < aBalance[a][u]) /\ ~(vBalance'[a][u] < vBalance[a][u])
    <3>1. \A u \in Accounts, a \in Assets :
             aBalance[a][u] \in Nat /\ vBalance[a][u] \in Nat
      BY DEF TypeOK, LedgersOK
    <3>2. CASE UNCHANGED <<vBalance, borrowing>>
      BY <2>3, <3>1, <3>2
    <3>3. CASE ItemKept
      <4>1. PICK x \in Users, v \in Users, b \in Assets, n \in Nat :
               ExecuteBorrow(x, b, n, v, 0)
        BY <3>3 DEF ItemKept
      <4> DEFINE scaled == VTokenMintScaled(n, UpdatedReserve(b).variableBorrowIndex)
      <4>2. vBalance' = Credit(vBalance, b, v, scaled)
        BY <4>1 DEF ExecuteBorrow
      <4>3. scaled \in Nat
        BY CallIndexes, DivideTypes
      <4> HIDE DEF scaled
      <4>4. \A u \in Accounts, a \in Assets :
               vBalance'[a][u] \in {vBalance[a][u], vBalance[a][u] + scaled}
        BY <4>2 DEF Credit, TypeOK, LedgersOK
      <4>5. QED
        BY <2>3, <3>1, <4>3, <4>4
    <3>4. QED
      BY <1>2, <3>2, <3>3, LoansLeavePositions
  <2>5. Users \subseteq Accounts
    BY DEF Accounts
  <2>6. QED
    BY <2>1, <2>2, <2>4, <2>5
       DEF PromisedStep, FullExitStep, BitDropsWithLastUnitStep, LiquidationPaysItsWayStep
<1>3. QED
  BY <1>1, <1>2

(* All of them hold with loans in flight, however deep.                    *)
THEOREM FlashStepsKeepPromises ==
    FlashSpec => /\ IndexesNeverFall /\ TreasuryGetsItsAccrual /\ FullExitLeavesNothing
                 /\ BitDropsWithLastUnit /\ LiquidationPaysItsWay
<1>1. TypeOK /\ LoansOK /\ [FlashNext]_allVars
      => /\ IndexesNeverFallStep /\ TreasuryGetsItsAccrualStep /\ FullExitStep
         /\ BitDropsWithLastUnitStep /\ LiquidationPaysItsWayStep
  BY FlashStepsArePromised DEF PromisedStep
<1>2. QED
  BY <1>1, FlashTypeCorrect, PTL
  DEF FlashSpec, IndexesNeverFall, TreasuryGetsItsAccrual, FullExitLeavesNothing,
      BitDropsWithLastUnit, LiquidationPaysItsWay
=============================================================================
