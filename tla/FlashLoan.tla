------------------------------ MODULE FlashLoan ------------------------------
(***************************************************************************)
(* FlashLoanLogic on top of the pool: the funds leave, the receiver runs   *)
(* and calls whatever it likes (the pool and further flash loans           *)
(* included), and then the pool takes the funds back with a premium, or    *)
(* opens a debt for them, one asset of the call after the other.           *)
(*                                                                         *)
(* Here a transaction is several steps: one that lends, those of the       *)
(* receiver, and one for each asset returned.  The clock, the oracle and   *)
(* the admins stand still while a loan is in flight.  A transaction that   *)
(* reverts has not happened: it is a behaviour that does not go on.        *)
(***************************************************************************)
EXTENDS PoolProperties, Sequences

CONSTANTS
    FlashChoices,       \* per user: the asset lists it may ask a loan of
    FlashBorrowers,     \* holders of the FLASH_BORROWER role
    FlashAdminChoices,  \* premiums and flags the configurator may set
    MaxDepth,           \* flash loans within flash loans
    InitialPremium

(* An item of a call: how much of which asset, to return or to keep as a   *)
(* debt.  (A call without items does nothing and is left out.)             *)
Requested == [asset: Assets, amount: Nat, asDebt: BOOLEAN]

ASSUME FlashAssumption ==
    /\ FlashChoices \in [Users -> SUBSET (Seq(Requested) \ {<<>>})]
    /\ FlashAdminChoices \in [premium: SUBSET Nat, enabled: SUBSET BOOLEAN]
    /\ MaxDepth \in Nat
    /\ InitialPremium \in 0..PERCENTAGE_FACTOR

VARIABLES
    flashLoanPremium,   \* _flashLoanPremiumTotal
    flashLoanEnabled,   \* the flag of the configuration, per asset
    loans               \* the calls in flight, the innermost last

flashVars == <<flashLoanPremium, flashLoanEnabled, loans>>

FlashInit ==
    /\ Init
    /\ flashLoanPremium = InitialPremium
    /\ flashLoanEnabled = [a \in Assets |-> TRUE]
    /\ loans = <<>>

-----------------------------------------------------------------------------
(* The innermost call in flight, and the calls around it.                  *)
Current == loans[Len(loans)]
Outer   == SubSeq(loans, 1, Len(loans) - 1)

(* The executor of the innermost call is still running.                    *)
ReceiverRuns == loans # <<>> => ~Current.returning

(* What a list of items, with no asset twice, takes out of asset a.        *)
AmountOf(items, a) ==
    IF \E i \in DOMAIN items : items[i].asset = a
      THEN items[CHOOSE i \in DOMAIN items : items[i].asset = a].amount ELSE 0

(* What is lent of asset a and has not come back.                          *)
Lent(a) == SumFunction([i \in DOMAIN loans |-> AmountOf(loans[i].items, a)])

InFlight(a) == \E i \in DOMAIN loans : \E j \in DOMAIN loans[i].items :
                   loans[i].items[j].asset = a

(* validateFlashloanSimple                                                 *)
ValidFlashloanSimple(a, amount) ==
    /\ ActiveAndNotPaused(a)
    /\ flashLoanEnabled[a]
    /\ ATokenBalance(aSupply[a], NormalizedIncome(a)) >= amount

(* validateFlashloan: no asset twice.                                      *)
ValidFlashloan(items) ==
    /\ \A i, j \in DOMAIN items : items[i].asset = items[j].asset => i = j
    /\ \A i \in DOMAIN items : ValidFlashloanSimple(items[i].asset, items[i].amount)

WithPremium(item, premium) ==
    [asset |-> item.asset, amount |-> item.amount, asDebt |-> item.asDebt,
     premium |-> IF item.asDebt THEN 0 ELSE percentMulCeil(item.amount, premium)]

(* The first half of both calls: the funds go to the receiver, which is    *)
(* told the premiums and runs.                                             *)
Lend(caller, receiver, items, onBehalfOf, premium) ==
    /\ ReceiverRuns
    /\ Len(loans) < MaxDepth
    /\ ValidFlashloan(items)
    /\ \A i \in DOMAIN items : items[i].amount <= cash[items[i].asset]
    /\ cash' = [a \in Assets |-> cash[a] - AmountOf(items, a)]
    /\ wallet' = [a \in Assets |-> [wallet[a] EXCEPT ![receiver] = @ + AmountOf(items, a)]]
    /\ loans' = Append(loans,
          [caller |-> caller, receiver |-> receiver, onBehalfOf |-> onBehalfOf,
           items |-> [i \in DOMAIN items |-> WithPremium(items[i], premium)],
           returning |-> FALSE])
    /\ UNCHANGED <<reserve, aBalance, aSupply, vBalance, vSupply, borrowAllowance,
                   bitVars, userEMode, adminVars, worldVars,
                   flashLoanPremium, flashLoanEnabled>>

(* executeFlashLoan: authorised borrowers pay no premium.                  *)
FlashLoanCall(caller, receiver, items, onBehalfOf) ==
    Lend(caller, receiver, items, onBehalfOf,
         IF caller \in FlashBorrowers THEN 0 ELSE flashLoanPremium)

(* executeFlashLoanSimple: one asset, to be returned, for anyone's premium. *)
FlashLoanSimple(caller, receiver, item) ==
    /\ ~item.asDebt
    /\ Lend(caller, receiver, <<item>>, caller, flashLoanPremium)

-----------------------------------------------------------------------------
(* Mutant: the premium is credited as it is, not scaled by the index.      *)
PremiumAccrualMutant(premium, index) == premium

(* The whole premium goes to the treasury, scaled down.                    *)
PremiumAccrual(premium, index) == ATokenMintScaled(premium, index)

(* Mutant: rates for the amount without the premium.                       *)
HandleFlashLoanRepaymentMutant(receiver, item) ==
    LET a == item.asset
        r == UpdatedReserve(a)
        due == item.amount + item.premium
        accrued == [r EXCEPT !.accruedToTreasury =
                                 @ + PremiumAccrual(item.premium, r.liquidityIndex)]
    IN  /\ due <= wallet[a][receiver]
        /\ reserve' = [reserve EXCEPT
              ![a] = WithRates(a, accrued, vSupply[a], cash[a] + item.amount)]
        /\ cash' = [cash EXCEPT ![a] = @ + due]
        /\ wallet' = Debit(wallet, a, receiver, due)
        /\ UNCHANGED <<aBalance, aSupply, vBalance, vSupply, borrowAllowance,
                       bitVars, userEMode, adminVars, worldVars>>

(* _handleFlashLoanRepayment: the reserve is read and settled only now,    *)
(* after whatever the receiver did to it.                                  *)
HandleFlashLoanRepayment(receiver, item) ==
    LET a == item.asset
        r == UpdatedReserve(a)
        due == item.amount + item.premium
        accrued == [r EXCEPT !.accruedToTreasury =
                                 @ + PremiumAccrual(item.premium, r.liquidityIndex)]
    IN  /\ due <= wallet[a][receiver]
        /\ reserve' = [reserve EXCEPT
              ![a] = WithRates(a, accrued, vSupply[a], cash[a] + due)]
        /\ cash' = [cash EXCEPT ![a] = @ + due]
        /\ wallet' = Debit(wallet, a, receiver, due)
        /\ UNCHANGED <<aBalance, aSupply, vBalance, vSupply, borrowAllowance,
                       bitVars, userEMode, adminVars, worldVars>>

(* The second half: the executor is done and the items are settled in      *)
(* their order; one that is kept becomes a debt of onBehalfOf, validated   *)
(* like any other borrow but without releasing anything.                   *)
Return ==
    /\ loans # <<>>
    /\ LET loan == Current
           item == Head(loan.items)
       IN  /\ \/ /\ ~item.asDebt
                 /\ HandleFlashLoanRepayment(loan.receiver, item)
              \/ /\ item.asDebt
                 /\ ExecuteBorrow(loan.caller, item.asset, item.amount, loan.onBehalfOf, 0)
           /\ loans' = IF Len(loan.items) = 1 THEN Outer
                       ELSE Append(Outer, [loan EXCEPT !.items = Tail(@),
                                                       !.returning = TRUE])
    /\ UNCHANGED <<flashLoanPremium, flashLoanEnabled>>

-----------------------------------------------------------------------------
(* updateFlashloanPremiumTotal, setReserveFlashLoaning                     *)
UpdateFlashloanPremiumTotal(premium) ==
    /\ premium <= PERCENTAGE_FACTOR
    /\ flashLoanPremium' = premium
    /\ UNCHANGED <<vars, flashLoanEnabled, loans>>

SetReserveFlashLoaning(a, enabled) ==
    /\ flashLoanEnabled' = [flashLoanEnabled EXCEPT ![a] = enabled]
    /\ UNCHANGED <<vars, flashLoanPremium, loans>>

FlashStep ==
    \E u \in Users : \E v \in Beneficiaries[u] : \E items \in FlashChoices[u] :
        \/ \E w \in Beneficiaries[u] : FlashLoanCall(u, v, items, w)
        \/ Len(items) = 1 /\ FlashLoanSimple(u, v, items[1])

FlashAdminStep ==
    /\ loans = <<>>
    /\ \/ \E premium \in FlashAdminChoices.premium : UpdateFlashloanPremiumTotal(premium)
       \/ \E a \in AdminAssets, enabled \in FlashAdminChoices.enabled :
              SetReserveFlashLoaning(a, enabled)

(* A receiver calls what anyone may call; the rest waits for the end of    *)
(* the transaction.                                                        *)
FlashNext ==
    \/ ReceiverRuns /\ UserCall /\ UNCHANGED flashVars
    \/ loans = <<>> /\ WorldStep /\ UNCHANGED flashVars
    \/ FlashStep
    \/ Return
    \/ FlashAdminStep

allVars   == <<vars, flashVars>>
FlashSpec == FlashInit /\ [][FlashNext]_allVars

-----------------------------------------------------------------------------
(* The calls in flight are of accounts, and none is without items.         *)
Item == [asset: Assets, amount: Nat, asDebt: BOOLEAN, premium: Nat]

LoansOK ==
    /\ flashLoanPremium \in Nat
    /\ loans \in Seq([caller: Users, receiver: Users, onBehalfOf: Users,
                      items: Seq(Item) \ {<<>>}, returning: BOOLEAN])

(* Whatever a receiver borrows, repays, withdraws or lends again while it  *)
(* holds the funds leaves no trace in the rates: an asset of which nothing *)
(* is in flight has the rates its cash and debt in storage give.  (The     *)
(* rates are computed after the callback, from the cash it left and the    *)
(* amount and premium that are only then pulled in.)                       *)
SettledRatesAreFresh == \A a \in Assets : ~InFlight(a) => RatesFreshFor(a)

(* Funds lent count as assets of the reserve until they are back: no step  *)
(* of anybody, before, within or after a callback, and no premium, takes   *)
(* value out of a reserve or gives the treasury more than came in.         *)
LentEquityNeverFallsStep ==
    now' = now =>
        \A a \in Assets :
            Assets2Rays(a)' + RAY * Lent(a)' + OwedRays(a)
              >= Assets2Rays(a) + RAY * Lent(a) + OwedRays(a)'

LentEquityNeverFalls == [][LentEquityNeverFallsStep]_allVars
=============================================================================
