-------------------------- MODULE TokenizationEvents --------------------------
(***************************************************************************)
(* What the event tests read before and after a call, and the events they  *)
(* expect in its receipt (utils/tokenization-events.ts): a second writing  *)
(* of the tokens' rounding, from the index the token remembers.            *)
(***************************************************************************)
EXTENDS ScaledTokens, Integers

(* The tests' own roundings.                                               *)
getATokenBalance(scaled, index) == (scaled * index) \div RAY

getVTokenBalance(scaled, index) ==
    IF scaled = 0 \/ index = 0 THEN 0 ELSE (scaled * index + RAY - 1) \div RAY

testDivFloor(amount, index) == (amount * RAY) \div index

testDivCeil(amount, index) ==
    IF amount = 0 THEN 0 ELSE (amount * RAY + index - 1) \div index

getATokenBalanceIncrease(scaled, indexBefore, indexAfter) ==
    getATokenBalance(scaled, indexAfter) - getATokenBalance(scaled, indexBefore)

getVTokenBalanceIncrease(scaled, indexBefore, indexAfter) ==
    getVTokenBalance(scaled, indexAfter) - getVTokenBalance(scaled, indexBefore)

-----------------------------------------------------------------------------
(* In what follows before is the state of a user read before the call and  *)
(* after the one read after it, index the index read after it.             *)
(* A mint: the growth of the balance since the index remembered.           *)
MintExpected(t, user, onBehalfOf, toMint, increase, index) ==
    {TransferEvent(t, NoOne, onBehalfOf, toMint),
     MintEvent(t, user, onBehalfOf, toMint, increase, index)}

SupplyExpected(user, onBehalfOf, amount, before, index) ==
    LET scaled == before.balance + testDivFloor(amount, index)
        toMint == getATokenBalance(scaled, index)
                    - getATokenBalance(before.balance, before.additionalData)
    IN  {TransferEvent("underlying", user, "aToken", amount)}
        \cup MintExpected("aToken", user, onBehalfOf, toMint,
                 getATokenBalanceIncrease(before.balance, before.additionalData, index),
                 index)

(* What a withdrawal or a repayment of u leaves: a mint when the interest  *)
(* exceeds it, a burn otherwise.                                           *)
LeftExpected(t, u, target, previous, next, increase, index) ==
    IF next > previous THEN MintExpected(t, u, u, next - previous, increase, index)
    ELSE {TransferEvent(t, u, NoOne, previous - next),
          BurnEvent(t, u, target, previous - next, increase, index)}

WithdrawExpected(user, to, amount, before, after, index) ==
    LET previous == getATokenBalance(before.balance, before.additionalData)
    IN  {TransferEvent("underlying", "aToken", to, amount)}
        \cup LeftExpected("aToken", user, to, previous,
                          getATokenBalance(after.balance, index),
                          getATokenBalance(before.balance, index) - previous, index)

(* A transfer, by its owner or by a spender: the interest of each side is  *)
(* minted by the caller, that of the receiver only when it is another.     *)
InterestExpected(caller, u, increase, index) ==
    IF increase > 0 THEN MintExpected("aToken", caller, u, increase, increase, index)
                    ELSE {}

TransferExpected(caller, from, to, amount, before, toBefore, index) ==
    LET increase   == getATokenBalanceIncrease(before.balance, before.additionalData, index)
        toIncrease == IF from = to THEN 0
                      ELSE getATokenBalanceIncrease(toBefore.balance,
                                                    toBefore.additionalData, index)
    IN  {TransferEvent("aToken", from, to, amount),
         BalanceTransferEvent(from, to, testDivCeil(amount, index), index)}
        \cup InterestExpected(caller, from, increase, index)
        \cup InterestExpected(caller, to, toIncrease, index)

VariableBorrowExpected(user, onBehalfOf, amount, before, index) ==
    LET scaled == before.balance + testDivCeil(amount, index)
        toMint == getVTokenBalance(scaled, index)
                    - getVTokenBalance(before.balance, before.additionalData)
    IN  {TransferEvent("underlying", "aToken", user, amount)}
        \cup MintExpected("debtToken", user, onBehalfOf, toMint,
                 getVTokenBalanceIncrease(before.balance, before.additionalData, index),
                 index)

RepayVariableBorrowExpected(user, onBehalfOf, amount, before, after, index) ==
    LET previous == getVTokenBalance(before.balance, before.additionalData)
    IN  {TransferEvent("underlying", user, "aToken", amount)}
        \cup LeftExpected("debtToken", onBehalfOf, NoOne, previous,
                          getVTokenBalance(after.balance, index),
                          getVTokenBalance(before.balance, index) - previous, index)

-----------------------------------------------------------------------------
(* What the tests read from the chain.                                     *)
Reading == [a |-> aUser, v |-> vUser, income |-> income, debtIndex |-> debtIndex]

(* The events expected of call r, between the readings b and e.            *)
Expected(r, b, e) ==
    CASE r.call = "supply" ->
           SupplyExpected(r.user, r.account, r.amount, b.a[r.account], e.income)
      [] r.call = "withdraw" ->
           WithdrawExpected(r.user, r.account, r.amount, b.a[r.user], e.a[r.user], e.income)
      [] r.call \in {"transfer", "transferFrom"} ->
           TransferExpected(r.user, r.account[1], r.account[2], r.amount,
                            b.a[r.account[1]], b.a[r.account[2]], e.income)
      [] r.call = "borrow" ->
           VariableBorrowExpected(r.user, r.account, r.amount, b.v[r.account], e.debtIndex)
      [] r.call = "repay" ->
           RepayVariableBorrowExpected(r.user, r.account, r.amount, b.v[r.account],
                                       e.v[r.account], e.debtIndex)
      [] OTHER -> {}

(* Every event the tests look for with matchEvent is in the receipt, with  *)
(* these arguments, whatever interest accrued since each user's last call. *)
EventsAsExpected ==
    [][Expected(receipt', Reading, Reading') \subseteq ToSet(receipt'.events)]_tokenVars

-----------------------------------------------------------------------------
(* What event e gives to user u, if it is a transfer of token t.           *)
Given(e, t, u) ==
    IF e[1] = "Transfer" /\ e[2] = t
      THEN (IF e[3][2] = u THEN e[3][3] ELSE 0) - (IF e[3][1] = u THEN e[3][3] ELSE 0)
      ELSE 0

(* What the Transfer events es of token t give to user u.                  *)
Net(es, t, u) ==
    LET sum[i \in 0 .. Len(es)] ==
            IF i = 0 THEN 0 ELSE sum[i - 1] + Given(es[i], t, u)
    IN  sum[Len(es)]

(* The balances at the indexes remembered: what is told of them so far.    *)
ToldA == [u \in Users |-> ATokenBalance(aUser[u].balance, aUser[u].additionalData)]
ToldV == [u \in Users |-> VTokenBalance(vUser[u].balance, vUser[u].additionalData)]

(* The value of one scaled unit, rounded up.                               *)
UnitValue == DivCeil(income, RAY)

IsMove(r) == r.call \in {"transfer", "transferFrom"} /\ r.account[1] # r.account[2]

(* Whoever adds up the Transfer events of a token keeps every balance, as  *)
(* of its last touch: mints and burns tell all they change, with the       *)
(* interest; a transfer tells the sender at least what it keeps and the    *)
(* receiver at most what it gets, and errs by less than a scaled unit.     *)
EventsTellTheChangeStep ==
    \A u \in Users :
        LET drift == Net(receipt'.events, "aToken", u) - (ToldA'[u] - ToldA[u])
        IN  /\ Net(receipt'.events, "debtToken", u) = ToldV'[u] - ToldV[u]
            /\ IF ~IsMove(receipt') THEN drift = 0
               ELSE IF u = receipt'.account[1] THEN drift \in 0 .. UnitValue
               ELSE IF u = receipt'.account[2] THEN -drift \in 0 .. UnitValue
               ELSE drift = 0

EventsTellTheChange == [][EventsTellTheChangeStep]_tokenVars

(* A spender pays for what it moves: the allowance falls by no less than   *)
(* the receiver was sent, and by all the owner lost, up to one scaled unit.*)
TransferFromIsPaidStep ==
    (receipt'.call = "transferFrom") =>
        LET owner == receipt'.account[1]
            pair  == <<owner, receipt'.user>>
            paid  == allowance[pair] - allowance'[pair]
            lost  == ATokenBalance(aUser[owner].balance, income)
                       - ATokenBalance(aUser'[owner].balance, income)
        IN  IF allowance[pair] = InfiniteAmount THEN paid = 0
            ELSE paid >= receipt'.amount /\ lost <= paid + UnitValue

TransferFromIsPaid == [][TransferFromIsPaidStep]_tokenVars
=============================================================================
