------------------------------- MODULE RayMath -------------------------------
(***************************************************************************)
(* The fixed-point arithmetic every other module is built on: WadRayMath,  *)
(* PercentageMath, TokenMath and MathUtils.  Amounts are natural numbers   *)
(* (uint256); RAY, WAD and PERCENTAGE_FACTOR are the units the code fixes  *)
(* at 1e27, 1e18 and 1e4.  Every operator keeps the rounding direction of  *)
(* the Solidity function of the same name.  The 2^256 overflow guards are  *)
(* not modelled: they revert, and no amount of a real deployment is near.  *)
(***************************************************************************)
EXTENDS Naturals

CONSTANTS
    RAY,                \* one, as a ray
    WAD,                \* one, as a wad (health factors)
    PERCENTAGE_FACTOR,  \* one hundred percent, in basis points
    SECONDS_PER_YEAR    \* the unit of the interest formulas

ASSUME UnitsAssumption ==
    /\ RAY \in Nat \ {0}
    /\ WAD \in Nat \ {0}
    /\ PERCENTAGE_FACTOR \in Nat \ {0}
    /\ SECONDS_PER_YEAR \in Nat \ {0}

-----------------------------------------------------------------------------
(* Integer division, rounded down (EVM div), up, and half up.              *)
DivFloor(a, b)  == a \div b
DivCeil(a, b)   == a \div b + (IF a % b = 0 THEN 0 ELSE 1)
DivHalfUp(a, b) == (a + b \div 2) \div b

(* Mutants: operators below, rounded the other way.                         *)
rayMulCeilMutant(a, b)      == DivFloor(a * b, RAY)
percentMulFloorMutant(v, p) == DivCeil(v * p, PERCENTAGE_FACTOR)
ATokenMintScaledMutant(amount, index)     == DivCeil(amount * RAY, index)
ATokenBurnScaledMutant(amount, index)     == DivFloor(amount * RAY, index)
ATokenTransferScaledMutant(amount, index) == DivFloor(amount * RAY, index)
VTokenBurnScaledMutant(amount, index)     == DivCeil(amount * RAY, index)

-----------------------------------------------------------------------------
(* WadRayMath *)
wadDiv(a, b)      == DivHalfUp(a * WAD, b)
rayMul(a, b)      == DivHalfUp(a * b, RAY)
rayMulFloor(a, b) == DivFloor(a * b, RAY)
rayMulCeil(a, b)  == DivCeil(a * b, RAY)
rayDiv(a, b)      == DivHalfUp(a * RAY, b)
rayDivFloor(a, b) == DivFloor(a * RAY, b)
rayDivCeil(a, b)  == DivCeil(a * RAY, b)

-----------------------------------------------------------------------------
(* PercentageMath *)
percentMul(v, p)      == DivHalfUp(v * p, PERCENTAGE_FACTOR)
percentMulFloor(v, p) == DivFloor(v * p, PERCENTAGE_FACTOR)
percentMulCeil(v, p)  == DivCeil(v * p, PERCENTAGE_FACTOR)
percentDivFloor(v, p) == DivFloor(v * PERCENTAGE_FACTOR, p)
percentDivCeil(v, p)  == DivCeil(v * PERCENTAGE_FACTOR, p)

-----------------------------------------------------------------------------
(* TokenMath: the direction in which each token operation rounds.          *)
ATokenMintScaled(amount, index)     == rayDivFloor(amount, index)
ATokenBurnScaled(amount, index)     == rayDivCeil(amount, index)
ATokenTransferScaled(amount, index) == rayDivCeil(amount, index)
ATokenBalance(scaled, index)        == rayMulFloor(scaled, index)
VTokenMintScaled(amount, index)     == rayDivCeil(amount, index)
VTokenBurnScaled(amount, index)     == rayDivFloor(amount, index)
VTokenBalance(scaled, index)        == rayMulCeil(scaled, index)

-----------------------------------------------------------------------------
(* Mutant: interest without the principal.                                *)
LinearInterestMutant(rate, dt) == (rate * dt) \div SECONDS_PER_YEAR

(* MathUtils: interest over dt time units at a yearly rate (a ray).        *)
LinearInterest(rate, dt) == RAY + (rate * dt) \div SECONDS_PER_YEAR

CompoundedInterest(rate, dt) ==
    LET dtMinusOne == IF dt > 0 THEN dt - 1 ELSE 0
        dtMinusTwo == IF dt > 2 THEN dt - 2 ELSE 0
        basePowerTwo ==
            rayMul(rate, rate) \div (SECONDS_PER_YEAR * SECONDS_PER_YEAR)
        basePowerThree == rayMul(basePowerTwo, rate) \div SECONDS_PER_YEAR
    IN  RAY + (rate * dt) \div SECONDS_PER_YEAR
            + (dt * dtMinusOne * basePowerTwo) \div 2
            + (dt * dtMinusOne * dtMinusTwo * basePowerThree) \div 6
=============================================================================
