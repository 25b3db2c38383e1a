--------------------------- MODULE ScenarioEngine ---------------------------
(***************************************************************************)
(* The scenario engine: the actions of a story, one after the other, each  *)
(* a conversation with the chain (scenario-engine.ts, actions.ts).  The    *)
(* data before the call is read in one block, the call is mined in a later *)
(* one, the data after it is read later still, and time may be advanced in *)
(* between.  A story is any sequence of StoryActions.                      *)
(***************************************************************************)
EXTENDS ScenarioActions

CONSTANTS
    StoryActions,    \* the actions a story may hold
    MaxTravel,       \* bound on the extra time an action advances
    NoAction         \* no action is running

idle     == phase = "idle"
prepared == phase = "prepared"
mined    == phase = "mined"
read     == phase = "read"

AllVars == <<vars, runnerVars>>

EngineInit ==
    /\ Init
    /\ phase = "idle" /\ action = NoAction
    /\ before = NoAction /\ expectedData = NoAction

-----------------------------------------------------------------------------
(* executeAction: the names the engine knows.                              *)
ActionNames == {"mint", "deposit", "supplyWithPermit", "delegateBorrowAllowance",
                "withdraw", "borrow", "repay", "repayWithPermit", "setUseAsCollateral",
                "swapBorrowRateMode", "rebalanceStableBorrowRate"}

(* The action begins: the data of its reserve and its user is read.        *)
Begin(c) ==
    /\ idle
    /\ c.name \in ActionNames
    /\ now + 1 + MaxTravel <= MaxTime
    /\ phase' = "prepared" /\ action' = c /\ before' = ContractsData(c)
    /\ UNCHANGED <<expectedData, vars>>

(* "Invalid action requested": the story ends before anything is called.   *)
ThrowInvalid(c) ==
    /\ idle
    /\ c.name \notin ActionNames
    /\ phase' = "failed" /\ UNCHANGED <<action, before, expectedData, vars>>

(* A block at least is mined between the reading and the call; repay may   *)
(* advance the time before its call, borrow after it.                      *)
Wait ==
    /\ \/ prepared /\ now <= before.timestamp + MaxTravel
       \/ mined /\ action.name = "borrow" /\ now < before.txTimestamp + MaxTravel
    /\ Tick
    /\ UNCHANGED runnerVars

-----------------------------------------------------------------------------
(* The call of each action c.                                              *)
MintToken(c) ==
    /\ c.name = "mint"
    /\ wallet' = Credit(wallet, c.asset, c.user, c.amount)
    /\ UNCHANGED <<reserve, adminVars, aBalance, aSupply, vBalance, vSupply, cash,
                   borrowAllowance, bitVars, userEMode, worldVars>>

DepositCall(c) ==
    /\ c.name = "deposit"
    /\ Supply(c.user, c.asset, c.amount, c.onBehalfOf)

(* The permit gives the pool the allowance the other actions give it once  *)
(* and for all.                                                            *)
SupplyWithPermitCall(c) ==
    /\ c.name = "supplyWithPermit"
    /\ Supply(c.user, c.asset, c.amount, c.onBehalfOf)

DelegateCall(c) ==
    /\ c.name = "delegateBorrowAllowance"
    /\ ApproveDelegation(c.user, c.asset, c.onBehalfOf, c.amount)

WithdrawCall(c) ==
    /\ c.name = "withdraw"
    /\ Withdraw(c.user, c.asset, c.amount, c.user)

(* Stable borrowing is disabled: only the variable mode can succeed.       *)
BorrowCall(c) ==
    /\ c.name = "borrow" /\ c.rateMode = Oracle!Variable
    /\ Borrow(c.user, c.asset, c.amount, c.onBehalfOf)

RepayCall(c) ==
    /\ c.name = "repay" /\ c.rateMode = Oracle!Variable
    /\ Repay(c.user, c.asset, c.amount, c.onBehalfOf)

RepayWithPermitCall(c) ==
    /\ c.name = "repayWithPermit" /\ c.rateMode = Oracle!Variable
    /\ Repay(c.user, c.asset, c.amount, c.onBehalfOf)

CollateralCall(c) ==
    /\ c.name = "setUseAsCollateral"
    /\ SetUserUseReserveAsCollateral(c.user, c.asset, c.useAsCollateral)

(* swapBorrowRateMode and rebalanceStableBorrowRate always revert.         *)
PoolCall ==
    \E c \in StoryActions :
        /\ action = c
        /\ \/ MintToken(c) \/ DepositCall(c) \/ SupplyWithPermitCall(c)
           \/ DelegateCall(c) \/ WithdrawCall(c) \/ BorrowCall(c)
           \/ RepayCall(c) \/ RepayWithPermitCall(c) \/ CollateralCall(c)

(* The block the data was read in is past.                                 *)
Calling == prepared /\ now > before.timestamp

(* The call succeeds: an action expected to revert fails the story.        *)
Succeed ==
    /\ Calling
    /\ PoolCall
    /\ phase' = IF action.expected = "success" THEN "mined" ELSE "failed"
    /\ before' = [before EXCEPT !.txTimestamp = now]
    /\ UNCHANGED <<action, expectedData>>

Finished(verdict) ==
    /\ phase' = verdict /\ action' = NoAction
    /\ before' = NoAction /\ expectedData' = NoAction
    /\ UNCHANGED vars

(* The call reverts, which is what the action expects or fails the story.  *)
Revert ==
    /\ Calling
    /\ ~ ENABLED PoolCall
    /\ Finished(IF action.expected = "revert" THEN "idle" ELSE "failed")

(* The data is read again, and the oracle says what it should be.          *)
ReadAgain ==
    /\ mined
    /\ phase' = "read" /\ expectedData' = ExpectedDataAfter(action, before)
    /\ UNCHANGED <<action, before, vars>>

Compare ==
    /\ read
    /\ Finished(IF ReserveAgrees /\ UserAgrees /\ AllowanceAgrees /\ DelegationAgrees
                  THEN "idle" ELSE "failed")

(* After a failure the test runner goes on with the next story.            *)
NextStory == phase = "failed" /\ Finished("idle")

-----------------------------------------------------------------------------
(* What the engine does by itself once an action has begun.                *)
Execute == Wait \/ Succeed \/ Revert \/ ReadAgain \/ Compare \/ NextStory

EngineNext ==
    \/ \E c \in StoryActions : Begin(c) \/ ThrowInvalid(c)
    \/ Execute

EngineSpec == EngineInit /\ [][EngineNext]_AllVars

-----------------------------------------------------------------------------
(* Once the call is mined, the reserve read from the chain is the one the  *)
(* oracle derives from the reading before it (expectEqual of the reserve   *)
(* data in deposit, withdraw, borrow and repay).                           *)
ReserveAsExpected == read => ReserveAgrees

(* And so is the user: scaled and current balances, debts, wallet and      *)
(* collateral bit (expectEqual of the user data).                          *)
UserAsExpected == read => UserAgrees
=============================================================================
