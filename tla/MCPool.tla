------------------------------- MODULE MCPool -------------------------------
(* Instances of Pool for TLC: values for the constants of the runs.        *)
EXTENDS PoolProperties, TLC

CONSTANTS u1, u2, treasury, x, y

(* A plain reserve: 75% loan to value, 80% threshold, 10% bonus.           *)
PlainConfig ==
    [active |-> TRUE, paused |-> FALSE, frozen |-> FALSE,
     borrowingEnabled |-> TRUE, borrowableInIsolation |-> FALSE,
     siloedBorrowing |-> FALSE,
     ltv |-> 75, liquidationThreshold |-> 80, liquidationBonus |-> 110,
     reserveFactor |-> 20, liquidationProtocolFee |-> 50,
     supplyCap |-> 0, borrowCap |-> 0, debtCeiling |-> 0, eModeCategory |-> 0]

NoAdmin ==
    [active |-> {}, paused |-> {}, frozen |-> {}, borrowing |-> {},
     supplyCap |-> {}, borrowCap |-> {}, siloed |-> {}, debtCeiling |-> {},
     reserveFactor |-> {}, collateral |-> {}, protocolFee |-> {},
     isolated |-> {}, category |-> {}, poolPaused |-> {}, eMode |-> {}]

NoCalls ==
    [supply |-> {}, withdraw |-> {}, transfer |-> {}, borrow |-> {}, repay |-> {},
     repayWithATokens |-> {}, liquidate |-> {}, delegate |-> {},
     useAsCollateral |-> {}, receiveAToken |-> {}]

Everything == 1000000

UsedIndexes == [liquidityIndex |-> 1300, variableBorrowIndex |-> 1700]

-----------------------------------------------------------------------------
(* One asset and the clock: the accounting of a reserve.                   *)
OneAsset       == {x}
OneUnit        == [a \in {x} |-> 1]
SteepStrategy  == [a \in {x} |-> [optimalUsageRatio |-> 500, base |-> 300,
                                  slope1 |-> 500, slope2 |-> 900]]
AccountingConfig == [a \in {x} |-> [PlainConfig EXCEPT !.reserveFactor = 60]]
AccountingWallet == [a \in {x} |-> (u1 :> 12 @@ u2 :> 12 @@ treasury :> 0)]
AccountingPrice  == [f \in {x} |-> 1]
NoPriceChoices   == [f \in {x} |-> {}]
AccountingAdmin  == [NoAdmin EXCEPT !.reserveFactor = {0}]
AccountingIndexes == [a \in {x} |-> UsedIndexes]
AccountingCalls ==
    [u \in {u1, u2} |->
        [NoCalls EXCEPT !.supply = {12}, !.withdraw = {7, Everything}, !.borrow = {6},
                        !.repay = {5}, !.repayWithATokens = {Everything}]]
OwnAccountOnly == [u \in {u1, u2} |-> {u}]
TwoUsers == Permutations({u1, u2})
EmptyFunction == [c \in {} |-> 0]

-----------------------------------------------------------------------------
(* Two assets and an oracle: borrowing y against x (and against y itself), *)
(* liquidation after the price of x has fallen.                            *)
TwoAssets   == {x, y}
TwoUnits    == [a \in {x, y} |-> 1]
FlatStrategy == [a \in {x, y} |-> [optimalUsageRatio |-> 500, base |-> 0,
                                   slope1 |-> 100, slope2 |-> 900]]
RiskConfig  == (x :> [PlainConfig EXCEPT !.borrowCap = 4, !.liquidationProtocolFee = 0]
                @@ y :> [PlainConfig EXCEPT !.borrowCap = 7])
RiskWallet  == [a \in {x, y} |-> (u1 :> 10 @@ u2 :> (IF a = y THEN 14 ELSE 0)
                                   @@ treasury :> 0)]
RiskIndexes == [a \in {x, y} |-> UsedIndexes]
RiskPrice   == (x :> 600 @@ y :> 200)
RiskPriceChoices == (x :> {54, 190} @@ y :> {})
RiskCalls ==
    (u1 :> [NoCalls EXCEPT !.supply = {10}, !.withdraw = {Everything},
                           !.borrow = {1, 6}]
     @@ u2 :> [NoCalls EXCEPT !.supply = {10}, !.liquidate = {Everything},
                              !.receiveAToken = BOOLEAN])

-----------------------------------------------------------------------------
(* The same two assets, in small amounts, for what a collateral or a debt  *)
(* excludes: x starts with a debt ceiling, y may be borrowed against it    *)
(* and belongs to category 1, which has a feed of its own; the admins      *)
(* remove and restore the ceiling, the category and siloed borrowing.      *)
SmallWallet == [a \in {x, y} |-> (u1 :> (IF a = x THEN 6 ELSE 0)
                                  @@ u2 :> (IF a = y THEN 6 ELSE 0)
                                  @@ treasury :> 0)]
EvenPrice    == (x :> 2 @@ y :> 1 @@ "feed" :> 1)
FallingPrice == (x :> {1} @@ y :> {} @@ "feed" :> {})
OneCategory == (1 :> [ltv |-> 90, liquidationThreshold |-> 93,
                      liquidationBonus |-> 105, priceSource |-> "feed"])
WeakerCategory == [OneCategory[1] EXCEPT !.ltv = 78, !.liquidationThreshold = 82]
ExclusionConfig ==
    (x :> [PlainConfig EXCEPT !.debtCeiling = 8]
     @@ y :> [PlainConfig EXCEPT !.borrowableInIsolation = TRUE, !.eModeCategory = 1])
ExclusionAdmin == [NoAdmin EXCEPT !.debtCeiling = {0, 8}, !.siloed = BOOLEAN,
                                  !.category = {0, 1}]
ExclusionCalls ==
    (u1 :> [NoCalls EXCEPT !.supply = {6}, !.withdraw = {Everything}, !.transfer = {3},
                           !.borrow = {1}, !.repay = {Everything},
                           !.useAsCollateral = BOOLEAN]
     @@ u2 :> [NoCalls EXCEPT !.supply = {6}, !.liquidate = {Everything},
                              !.useAsCollateral = BOOLEAN, !.receiveAToken = BOOLEAN])

(* A collateral unit worth more than the debt a liquidator pays.           *)
CoarseConfig == [a \in {x, y} |-> PlainConfig]
CoarsePrice == (x :> 6 @@ y :> 2)
CoarsePriceChoices == (x :> {3} @@ y :> {})
CoarseWallet == [a \in {x, y} |-> (u1 :> (IF a = x THEN 4 ELSE 0)
                                   @@ u2 :> (IF a = y THEN 9 ELSE 0)
                                   @@ treasury :> 0)]
CoarseCalls ==
    [u \in {u1, u2} |-> [NoCalls EXCEPT !.supply = {4}, !.borrow = {4},
                                        !.liquidate = {1}, !.receiveAToken = BOOLEAN]]

OwnAccount == [u \in {u1} |-> {u1}]
FirstForTheSecond == (u1 :> {u1, u2} @@ u2 :> {u2})
=============================================================================
