------------------------------- MODULE MCFlash -------------------------------
(* Instances of FlashLoan for TLC.                                         *)
EXTENDS FlashLoan, MCPool

Ask(a, amount, asDebt) == [asset |-> a, amount |-> amount, asDebt |-> asDebt]

(* The configurator's calls on the reserve of x, and flash loans of x and  *)
(* y: in one call x is returned and y kept as a debt, without a premium    *)
(* (u1 is authorised), or y alone is returned with half of it on top.      *)
BothPlain == [a \in {x, y} |-> [PlainConfig EXCEPT !.eModeCategory = 1]]
FlashAdmin ==
    [active |-> BOOLEAN, paused |-> {FALSE}, frozen |-> {FALSE},
     borrowing |-> {TRUE}, supplyCap |-> {0}, borrowCap |-> {0}, siloed |-> {},
     debtCeiling |-> {}, reserveFactor |-> {},
     collateral |-> {[ltv |-> 0, liquidationThreshold |-> 0, liquidationBonus |-> 0],
                     [ltv |-> 75, liquidationThreshold |-> 80, liquidationBonus |-> 110]},
     protocolFee |-> {50}, isolated |-> {FALSE}, category |-> {0, 1},
     poolPaused |-> {FALSE}, eMode |-> {OneCategory[1]}]
FlashWallet == [a \in {x, y} |-> (u1 :> (IF a = x THEN 6 ELSE 4) @@ treasury :> 0)]
FlashPrice  == (x :> 1 @@ y :> 1 @@ "feed" :> 1)
NoFlashPriceChoices == (x :> {} @@ y :> {} @@ "feed" :> {})
FlashCalls ==
    [u \in {u1} |-> [NoCalls EXCEPT !.supply = {4}, !.withdraw = {Everything},
                                    !.repay = {Everything}, !.useAsCollateral = BOOLEAN]]
FlashLoans == (u1 :> {<<Ask(x, 2, FALSE), Ask(y, 1, TRUE)>>, <<Ask(y, 2, FALSE)>>})
FlashSettings == [premium |-> {50}, enabled |-> BOOLEAN]
OneOfTwo == {x}
=============================================================================
