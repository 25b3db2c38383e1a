----------------------------- MODULE MCScenario -----------------------------
(* Instances of ScenarioEngine for TLC: the stories of the runs.           *)
EXTENDS ScenarioEngine, StableExpectations, PoolProperties, TLC

CONSTANTS u1, u2, treasury, x

TestConfig ==
    [a \in {x} |->
        [active |-> TRUE, paused |-> FALSE, frozen |-> FALSE,
         borrowingEnabled |-> TRUE, borrowableInIsolation |-> FALSE,
         siloedBorrowing |-> FALSE,
         ltv |-> 75, liquidationThreshold |-> 80, liquidationBonus |-> 110,
         reserveFactor |-> 20, liquidationProtocolFee |-> 0,
         supplyCap |-> 0, borrowCap |-> 0, debtCeiling |-> 0, eModeCategory |-> 0]]

NoCalls ==
    [u \in {u1, u2} |->
        [supply |-> {}, withdraw |-> {}, transfer |-> {}, borrow |-> {}, repay |-> {},
         repayWithATokens |-> {}, liquidate |-> {}, delegate |-> {},
         useAsCollateral |-> {}, receiveAToken |-> {}]]

NoAdmin ==
    [active |-> {}, paused |-> {}, frozen |-> {}, borrowing |-> {},
     supplyCap |-> {}, borrowCap |-> {}, siloed |-> {}, debtCeiling |-> {},
     reserveFactor |-> {}, collateral |-> {}, protocolFee |-> {},
     isolated |-> {}, category |-> {}, poolPaused |-> {}, eMode |-> {}]

OneAsset      == {x}
OneUnit       == [a \in {x} |-> 1]
TestStrategy  == [a \in {x} |-> [optimalUsageRatio |-> 5000, base |-> 200,
                                 slope1 |-> 1000, slope2 |-> 4000]]
TestIndexes   == [a \in {x} |-> [liquidityIndex |-> 11000, variableBorrowIndex |-> 12000]]
TestWallet    == [a \in {x} |-> (u1 :> 9000 @@ u2 :> 9000 @@ treasury :> 0)]
TestPrice     == [f \in {x} |-> 1]
NoPrices      == [f \in {x} |-> {}]
Nobody        == [u \in {u1, u2} |-> {}]
EmptyFunction == [c \in {} |-> 0]
Everything    == 1000000

-----------------------------------------------------------------------------
(* The actions of a story; an action ignores the fields it does not use.   *)
Act(name, user, onBehalfOf, amount) ==
    [name |-> name, user |-> user, onBehalfOf |-> onBehalfOf, asset |-> x,
     amount |-> amount, rateMode |-> "2", useAsCollateral |-> TRUE,
     expected |-> "success"]

(* Two depositors and one borrower, who may delegate its credit.           *)
StoryOfOneBorrower ==
    {Act("deposit", u1, u1, 5000), Act("supplyWithPermit", u2, u1, 1000),
     Act("deposit", u2, u2, 7000),
     Act("withdraw", u1, u1, 1000), Act("withdraw", u2, u2, Everything),
     Act("delegateBorrowAllowance", u1, u2, 1000),
     Act("borrow", u1, u1, 3000), Act("borrow", u2, u1, 1000),
     Act("repay", u1, u1, 700), Act("repay", u1, u1, Everything),
     Act("repayWithPermit", u2, u1, 700),
     Act("setUseAsCollateral", u2, u2, 0),
     [Act("setUseAsCollateral", u2, u2, 0) EXCEPT !.useAsCollateral = FALSE],
     [Act("borrow", u1, u1, 3000) EXCEPT !.rateMode = "1", !.expected = "revert"],
     [Act("swapBorrowRateMode", u1, u1, 0) EXCEPT !.expected = "revert"],
     Act("mint", u2, u2, 10), Act("unknown", u1, u1, 0)}

(* What the stories kept in the repository respect, and the oracle needs:  *)
(* who holds a variable debt does not deposit (the expected principal of   *)
(* the stable debt would be that debt); the collateral switch is compared  *)
(* only while no debt accrues; a repayment is not above the debt.  Nobody  *)
(* but u1 owes (the expected scaled debt of a borrower starts from the     *)
(* reserve's).                                                             *)
OracleCovers(c) ==
    /\ c.name \in {"deposit", "supplyWithPermit"} => vBalance[x][c.onBehalfOf] = 0
    /\ c.name = "setUseAsCollateral" => vSupply[x] = 0
    /\ c.name \in {"repay", "repayWithPermit"} /\ c.amount # Everything =>
          c.amount < VTokenBalance(vBalance[x][c.onBehalfOf], NormalizedDebt(x))

CoveredNext ==
    \/ \E c \in StoryActions : OracleCovers(c) /\ Begin(c)
    \/ \E c \in StoryActions : ThrowInvalid(c)
    \/ Execute

CoveredSpec == EngineInit /\ [][CoveredNext]_AllVars

=============================================================================
