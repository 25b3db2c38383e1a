------------------------------ MODULE UserSets ------------------------------
(***************************************************************************)
(* What the configuration of a user means: the reserves the user borrows   *)
(* and the reserves the user counts as collateral, each changed on its     *)
(* own.  This is how every other module sees a user; UserConfiguration     *)
(* shows that the bitmap of the code implements it.                        *)
(***************************************************************************)
EXTENDS Naturals

CONSTANT MAX_RESERVES_COUNT

VARIABLES borrowing, usingAsCollateral

Reserves == 0..(MAX_RESERVES_COUNT - 1)

Init == borrowing = {} /\ usingAsCollateral = {}

SetBorrowing(i, on) ==
    /\ borrowing' = IF on THEN borrowing \cup {i} ELSE borrowing \ {i}
    /\ UNCHANGED usingAsCollateral

SetUsingAsCollateral(i, on) ==
    /\ usingAsCollateral' =
          IF on THEN usingAsCollateral \cup {i} ELSE usingAsCollateral \ {i}
    /\ UNCHANGED borrowing

Next == \E i \in Reserves, on \in BOOLEAN :
            SetBorrowing(i, on) \/ SetUsingAsCollateral(i, on)

Spec == Init /\ [][Next]_<<borrowing, usingAsCollateral>>
=============================================================================
