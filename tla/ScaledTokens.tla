----------------------------- MODULE ScaledTokens -----------------------------
(***************************************************************************)
(* The aToken and the variable debt token of one reserve, with what the    *)
(* module Pool leaves out: the index remembered for each user, the         *)
(* allowances of the aToken and the events a call emits.                   *)
(*                                                                         *)
(* The pool is the environment: it serves the indexes, which only grow,    *)
(* and has validated liquidity, health and amounts before it calls.        *)
(* Events are <<name, token, arguments>>, in the order they are emitted.   *)
(***************************************************************************)
EXTENDS RayMath, SequencesExt

CONSTANTS
    Users,
    NoOne,           \* the zero address
    InfiniteAmount,  \* type(uint256).max
    Amounts,         \* amounts of a call
    Allowances,      \* amounts that are approved or delegated
    Incomes, Debts,  \* values of the two indexes
    MaxScaled        \* bound on a scaled balance

(* Amounts, allowances and indexes are unsigned, and the zero address is   *)
(* nobody's.                                                               *)
ASSUME TokensAssumption ==
    /\ NoOne \notin Users
    /\ InfiniteAmount \in Nat
    /\ Amounts \subseteq Nat /\ Allowances \subseteq Nat
    /\ Incomes \subseteq Nat /\ Debts \subseteq Nat

VARIABLES
    income, debtIndex,   \* POOL.getReserveNormalizedIncome and ...VariableDebt
    aUser, vUser,        \* _userState of each token: balance and additionalData
    allowance,           \* _allowances of the aToken, by owner and spender
    borrowAllowance,     \* _borrowAllowances, by delegator and delegatee
    receipt              \* the last call and the events it emitted

ledgers    == <<aUser, vUser>>
indexes    == <<income, debtIndex>>
tokenVars  == <<indexes, ledgers, allowance, borrowAllowance, receipt>>

Pairs == Users \X Users

TokensInit ==
    /\ income = RAY /\ debtIndex = RAY
    /\ aUser = [u \in Users |-> [balance |-> 0, additionalData |-> 0]]
    /\ vUser = [u \in Users |-> [balance |-> 0, additionalData |-> 0]]
    /\ allowance = [p \in Pairs |-> 0]
    /\ borrowAllowance = [p \in Pairs |-> 0]
    /\ receipt = [call |-> "none", events |-> <<>>]

(* Between two calls the reserve accrues interest.                         *)
Accrue ==
    /\ income' \in {i \in Incomes : i >= income}
    /\ debtIndex' \in {i \in Debts : i >= debtIndex}
    /\ indexes' # indexes
    /\ UNCHANGED <<ledgers, allowance, borrowAllowance>>
    /\ receipt' = [call |-> "none", events |-> <<>>]

-----------------------------------------------------------------------------
(* Events.                                                                 *)
TransferEvent(t, from, to, value) == <<"Transfer", t, <<from, to, value>>>>
MintEvent(t, caller, u, value, increase, index) ==
    <<"Mint", t, <<caller, u, value, increase, index>>>>
BurnEvent(t, u, target, value, increase, index) ==
    <<"Burn", t, <<u, target, value, increase, index>>>>
BalanceTransferEvent(from, to, value, index) ==
    <<"BalanceTransfer", "aToken", <<from, to, value, index>>>>

Emit(name, user, account, amount, events) ==
    receipt' = [call |-> name, user |-> user, account |-> account,
                amount |-> amount, events |-> events]

(* Mutant: the index remembered is left as it was.                         *)
RefreshedMutant(state, u, scaled, index) == [state EXCEPT ![u].balance = scaled]

(* The state of user u after its balance became scaled, at index.          *)
Refreshed(state, u, scaled, index) ==
    [state EXCEPT ![u] = [balance |-> scaled, additionalData |-> index]]

(* The events of a balance that was previous at the index remembered,      *)
(* current at this index, and next after the mint or the burn.             *)
MintEvents(t, caller, u, previous, current, next, index) ==
    <<TransferEvent(t, NoOne, u, next - previous),
      MintEvent(t, caller, u, next - previous, current - previous, index)>>

BurnEvents(t, u, target, previous, current, next, index) ==
    IF next > previous THEN MintEvents(t, u, u, previous, current, next, index)
    ELSE <<TransferEvent(t, u, NoOne, previous - next),
           BurnEvent(t, u, target, previous - next, current - previous, index)>>

-----------------------------------------------------------------------------
(* aToken: _mintScaledFloor, behind Pool.supply.                           *)
Supply(user, onBehalfOf, amount) ==
    LET scaled == ATokenMintScaled(amount, income)
        old    == aUser[onBehalfOf]
        new    == old.balance + scaled
    IN  /\ scaled # 0
        /\ new <= MaxScaled
        /\ aUser' = Refreshed(aUser, onBehalfOf, new, income)
        /\ Emit("supply", user, onBehalfOf, amount,
               <<TransferEvent("underlying", user, "aToken", amount)>>
               \o MintEvents("aToken", user, onBehalfOf,
                             ATokenBalance(old.balance, old.additionalData),
                             ATokenBalance(old.balance, income),
                             ATokenBalance(new, income), income))
        /\ UNCHANGED <<indexes, vUser, allowance, borrowAllowance>>

(* burn and _burnScaledLeaf, behind Pool.withdraw.                         *)
Withdraw(user, to, amount) ==
    LET scaled == ATokenBurnScaled(amount, income)
        old    == aUser[user]
        new    == old.balance - scaled
    IN  /\ amount <= ATokenBalance(old.balance, income)
        /\ scaled # 0 /\ scaled <= old.balance
        /\ aUser' = Refreshed(aUser, user, new, income)
        /\ Emit("withdraw", user, to, amount,
               BurnEvents("aToken", user, to,
                          ATokenBalance(old.balance, old.additionalData),
                          ATokenBalance(old.balance, income),
                          ATokenBalance(new, income), income)
               \o <<TransferEvent("underlying", "aToken", to, amount)>>)
        /\ UNCHANGED <<indexes, vUser, allowance, borrowAllowance>>

-----------------------------------------------------------------------------
(* Mutant: the growth of the index is applied to the balance at once.      *)
BalanceIncreaseMutant(u) ==
    ATokenBalance(aUser[u].balance, income - aUser[u].additionalData)

(* _captureAccrualAndRefreshAdditionalData: the interest of u since it was *)
(* last touched.                                                           *)
BalanceIncrease(u) ==
    ATokenBalance(aUser[u].balance, income)
      - ATokenBalance(aUser[u].balance, aUser[u].additionalData)

AccrualEvents(caller, u) ==
    IF BalanceIncrease(u) = 0 THEN <<>>
    ELSE <<TransferEvent("aToken", NoOne, u, BalanceIncrease(u)),
           MintEvent("aToken", caller, u, BalanceIncrease(u), BalanceIncrease(u), income)>>

(* AToken._transfer, called by caller.                                     *)
MovedBalances(from, to, scaled) ==
    LET taken == Refreshed(aUser, from, aUser[from].balance - scaled, income)
    IN  Refreshed(taken, to, taken[to].balance + scaled, income)

MoveTokens(name, caller, from, to, amount) ==
    LET scaled == ATokenTransferScaled(amount, income)
    IN  /\ scaled <= aUser[from].balance
        /\ aUser' = MovedBalances(from, to, scaled)
        /\ aUser'[to].balance <= MaxScaled
        /\ Emit(name, caller, <<from, to>>, amount,
               AccrualEvents(caller, from)
               \o (IF from # to THEN AccrualEvents(caller, to) ELSE <<>>)
               \o <<TransferEvent("aToken", from, to, amount),
                    BalanceTransferEvent(from, to, scaled, income)>>)
        /\ UNCHANGED <<indexes, vUser, borrowAllowance>>

Transfer(user, to, amount) ==
    /\ MoveTokens("transfer", user, user, to, amount)
    /\ UNCHANGED allowance

(* Mutant: the spender pays for the scaled amount rounded down.            *)
SpentMutant(owner, amount, granted) ==
    LET before == ATokenBalance(aUser[owner].balance, income)
        after  == ATokenBalance(aUser[owner].balance - rayDivFloor(amount, income), income)
        delta  == before - after
    IN  IF delta > granted THEN granted ELSE delta

(* What transferFrom takes from the allowance: what the owner's balance    *)
(* really loses, at most the allowance.                                    *)
Spent(owner, amount, granted) ==
    LET before == ATokenBalance(aUser[owner].balance, income)
        after  == ATokenBalance(aUser[owner].balance - ATokenTransferScaled(amount, income),
                                income)
        delta  == before - after
    IN  IF delta > granted THEN granted ELSE delta

TransferFrom(spender, owner, to, amount) ==
    LET granted == allowance[<<owner, spender>>]
    IN  /\ granted >= amount
        /\ MoveTokens("transferFrom", spender, owner, to, amount)
        /\ IF granted = InfiniteAmount THEN UNCHANGED allowance
           ELSE allowance' = [allowance EXCEPT ![<<owner, spender>>] =
                                  @ - Spent(owner, amount, granted)]

Approve(owner, spender, amount) ==
    /\ allowance' = [allowance EXCEPT ![<<owner, spender>>] = amount]
    /\ Emit("approve", owner, spender, amount, <<>>)
    /\ UNCHANGED <<indexes, ledgers, borrowAllowance>>

-----------------------------------------------------------------------------
(* VariableDebtToken: what a delegatee pays is the growth of the debt, at  *)
(* most the allowance (_decreaseBorrowAllowanceCapped).                    *)
BorrowAllowanceAfter(user, onBehalfOf, increase) ==
    IF user = onBehalfOf THEN borrowAllowance
    ELSE [borrowAllowance EXCEPT ![<<onBehalfOf, user>>] =
              IF @ >= increase THEN @ - increase ELSE 0]

(* mint and _mintScaledV2, behind Pool.borrow.                             *)
Borrow(user, onBehalfOf, amount) ==
    LET scaled == VTokenMintScaled(amount, debtIndex)
        old    == vUser[onBehalfOf]
        new    == old.balance + scaled
        debt   == VTokenBalance(old.balance, debtIndex)
        next   == VTokenBalance(new, debtIndex)
    IN  /\ scaled # 0
        /\ new <= MaxScaled
        /\ user # onBehalfOf => borrowAllowance[<<onBehalfOf, user>>] >= amount
        /\ borrowAllowance' = BorrowAllowanceAfter(user, onBehalfOf, next - debt)
        /\ vUser' = Refreshed(vUser, onBehalfOf, new, debtIndex)
        /\ Emit("borrow", user, onBehalfOf, amount,
               MintEvents("debtToken", user, onBehalfOf,
                          VTokenBalance(old.balance, old.additionalData),
                          debt, next, debtIndex)
               \o <<TransferEvent("underlying", "aToken", user, amount)>>)
        /\ UNCHANGED <<indexes, aUser, allowance>>

(* burn and _burnScaledV2, behind Pool.repay; the pool has capped the      *)
(* amount at the debt.                                                     *)
Repay(user, onBehalfOf, amount) ==
    LET old    == vUser[onBehalfOf]
        debt   == VTokenBalance(old.balance, debtIndex)
        scaled == IF amount >= debt THEN old.balance
                                    ELSE VTokenBurnScaled(amount, debtIndex)
    IN  /\ amount <= debt
        /\ scaled # 0
        /\ vUser' = Refreshed(vUser, onBehalfOf, old.balance - scaled, debtIndex)
        /\ Emit("repay", user, onBehalfOf, amount,
               BurnEvents("debtToken", onBehalfOf, NoOne,
                          VTokenBalance(old.balance, old.additionalData), debt,
                          VTokenBalance(old.balance - scaled, debtIndex), debtIndex)
               \o <<TransferEvent("underlying", user, "aToken", amount)>>)
        /\ UNCHANGED <<indexes, aUser, allowance, borrowAllowance>>

ApproveDelegation(delegator, delegatee, amount) ==
    /\ borrowAllowance' = [borrowAllowance EXCEPT ![<<delegator, delegatee>>] = amount]
    /\ Emit("approveDelegation", delegator, delegatee, amount, <<>>)
    /\ UNCHANGED <<indexes, ledgers, allowance>>

-----------------------------------------------------------------------------
TokensNext ==
    \/ Accrue
    \/ \E u, v \in Users, n \in Amounts :
          \/ Supply(u, v, n) \/ Withdraw(u, v, n) \/ Transfer(u, v, n)
          \/ Borrow(u, v, n) \/ Repay(u, v, n)
          \/ \E w \in Users : u # w /\ TransferFrom(w, u, v, n)
    \/ \E u, v \in Users, n \in Allowances :
          u # v /\ (Approve(u, v, n) \/ ApproveDelegation(u, v, n))
    \/ \E u, v \in Users : u # v /\ Approve(u, v, InfiniteAmount)

TokensSpec == TokensInit /\ [][TokensNext]_tokenVars
=============================================================================
