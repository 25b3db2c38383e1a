-------------------------- MODULE UserConfiguration --------------------------
(***************************************************************************)
(* The library UserConfiguration: two bits per reserve in one word, set    *)
(* and cleared with masks, read with shifts and the tricks that find out   *)
(* whether exactly one bit is set and which one.  The word has exactly     *)
(* twice as many bits as there may be reserves (256 for 128 in the code),  *)
(* so the last reserve uses the top bit.                                   *)
(*                                                                         *)
(* A number is the set of the positions of its one bits, as in             *)
(* ReserveConfigurationMap: | is \cup, & is \cap.                          *)
(***************************************************************************)
EXTENDS Integers, FiniteSets

CONSTANT MAX_RESERVES_COUNT

ASSUME CountAssumption == MAX_RESERVES_COUNT \in Nat \ {0}

VARIABLE data

Reserves == 0..(MAX_RESERVES_COUNT - 1)
Word     == 0..(2 * MAX_RESERVES_COUNT - 1)

LowestBit(n) == CHOOSE p \in n : \A q \in n : p <= q

Complement(n)    == Word \ n
ShiftRight(n, k) == {b - k : b \in {c \in n : c >= k}}

(* n - 1 borrows from the lowest one bit; zero wraps to all ones.          *)
MinusOne(n) ==
    IF n = {} THEN Word
    ELSE (n \ {LowestBit(n)}) \cup 0..(LowestBit(n) - 1)

(* The masks 0x5555... and 0xAAAA...                                       *)
BORROWING_MASK  == {2 * i : i \in Reserves}
COLLATERAL_MASK == {2 * i + 1 : i \in Reserves}

(* 1 << (i << 1) and 1 << ((i << 1) + 1)                                   *)
BorrowingBit(i)  == {2 * i}
CollateralBit(i) == {2 * i + 1}

-----------------------------------------------------------------------------
(* Mutant: the bit is flipped and not set.                                 *)
setBorrowingMutant(i, on) ==
    data' = IF on THEN (data \ BorrowingBit(i)) \cup (BorrowingBit(i) \ data)
            ELSE data \cap Complement(BorrowingBit(i))

setBorrowing(i, on) ==
    data' = IF on THEN data \cup BorrowingBit(i)
            ELSE data \cap Complement(BorrowingBit(i))

setUsingAsCollateral(i, on) ==
    data' = IF on THEN data \cup CollateralBit(i)
            ELSE data \cap Complement(CollateralBit(i))

UserConfigInit == data = {}

UserConfigNext == \E i \in Reserves, on \in BOOLEAN :
                      setBorrowing(i, on) \/ setUsingAsCollateral(i, on)

UserConfigSpec == UserConfigInit /\ [][UserConfigNext]_data

-----------------------------------------------------------------------------
isBorrowing(i)         == ShiftRight(data, 2 * i) \cap {0} # {}
isUsingAsCollateral(i) == ShiftRight(data, 2 * i + 1) \cap {0} # {}
isUsingAsCollateralOrBorrowing(i) == ShiftRight(data, 2 * i) \cap {0, 1} # {}

ExactlyOne(masked) == masked # {} /\ masked \cap MinusOne(masked) = {}

isUsingAsCollateralOne == ExactlyOne(data \cap COLLATERAL_MASK)
isBorrowingOne         == ExactlyOne(data \cap BORROWING_MASK)
isUsingAsCollateralAny == data \cap COLLATERAL_MASK # {}
isBorrowingAny         == data \cap BORROWING_MASK # {}
isEmpty                == data = {}

(* The lowest one bit of a word, alone: n & ~(n - 1).                      *)
FirstAssetPosition(n) == n \cap Complement(MinusOne(n))

(* Mutant: the bit is shifted by one and not by two.                       *)
FirstAssetIdByMaskMutant(mask) ==
    Cardinality({k \in 1..MAX_RESERVES_COUNT :
                    ShiftRight(FirstAssetPosition(data \cap mask), k) # {}})

(* _getFirstAssetIdByMask isolates the lowest bit and counts how often it  *)
(* can be shifted by two before it is gone.                                *)
FirstAssetIdByMask(mask) ==
    Cardinality({k \in 1..MAX_RESERVES_COUNT :
                    ShiftRight(FirstAssetPosition(data \cap mask), 2 * k) # {}})

-----------------------------------------------------------------------------
borrowingSet  == {i \in Reserves : isBorrowing(i)}
collateralSet == {i \in Reserves : isUsingAsCollateral(i)}

(* Setting and clearing bits is setting and clearing members: no call      *)
(* touches the bit of another reserve or of the other kind, and each call  *)
(* does to the sets what it was asked for.                                 *)
Sets == INSTANCE UserSets WITH borrowing <- borrowingSet,
                               usingAsCollateral <- collateralSet

CallsDoAsAsked ==
    \A i \in Reserves, on \in BOOLEAN :
        /\ setBorrowing(i, on) => Sets!SetBorrowing(i, on)
        /\ setUsingAsCollateral(i, on) => Sets!SetUsingAsCollateral(i, on)

ImplementsSets == Sets!Spec /\ [][CallsDoAsAsked]_data

LeastOf(S, i) == i \in S /\ \A j \in S : i <= j

(* The bit tricks mean what their names say: exactly one, any, none, both, *)
(* and the first asset found is the lowest of the set, the last reserve    *)
(* included; where exactly one is set it is that one.                      *)
GettersTellTheSets ==
    /\ isUsingAsCollateralOne <=> Cardinality(collateralSet) = 1
    /\ isBorrowingOne <=> Cardinality(borrowingSet) = 1
    /\ isUsingAsCollateralAny <=> collateralSet # {}
    /\ isBorrowingAny <=> borrowingSet # {}
    /\ isEmpty <=> borrowingSet = {} /\ collateralSet = {}
    /\ \A i \in Reserves :
          isUsingAsCollateralOrBorrowing(i) <=> i \in borrowingSet \cup collateralSet
    /\ isUsingAsCollateralAny => LeastOf(collateralSet, FirstAssetIdByMask(COLLATERAL_MASK))
    /\ isBorrowingAny => LeastOf(borrowingSet, FirstAssetIdByMask(BORROWING_MASK))
=============================================================================
