---------------------------- MODULE BigNumberMath ----------------------------
(***************************************************************************)
(* The arithmetic the scenario tests add to ethers' BigNumber (wadraymath  *)
(* of the test helpers): signed integers of any size, every operation half *)
(* up.  Only the operations calculations.ts calls are modelled.            *)
(***************************************************************************)
EXTENDS Integers

CONSTANTS
    RAY,                \* helpers/constants: 1e27
    WAD_RAY_RATIO,      \* helpers/constants: 1e9
    PERCENTAGE_FACTOR,  \* helpers/constants: 1e4
    ONE_YEAR            \* helpers/constants: seconds in a year

-----------------------------------------------------------------------------
Magnitude(a) == IF a < 0 THEN -a ELSE a

(* BigNumber.div: the quotient of the magnitudes, so rounded toward zero.  *)
Quot(a, b) ==
    LET q == Magnitude(a) \div Magnitude(b)
    IN  IF (a < 0) = (b < 0) THEN q ELSE -q

rayMul(a, b)     == Quot(RAY \div 2 + a * b, RAY)
rayDiv(a, b)     == Quot(Quot(b, 2) + a * RAY, b)
percentMul(a, p) == Quot(PERCENTAGE_FACTOR \div 2 + a * p, PERCENTAGE_FACTOR)
wadToRay(a)      == a * WAD_RAY_RATIO
=============================================================================
