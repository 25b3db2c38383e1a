------------------------ MODULE ReserveConfigurationMap ------------------------
(***************************************************************************)
(* The library ReserveConfiguration: nineteen parameters of a reserve in   *)
(* one word of 256 bits.  A setter clears the bits of its parameter with a *)
(* mask and adds the value shifted to a start position; a getter does the  *)
(* reverse; a third table of constants bounds the values.  The three       *)
(* tables were written independently of each other.                        *)
(*                                                                         *)
(* A number is the set of the positions of its one bits.                   *)
(***************************************************************************)
EXTENDS Integers, FiniteSets

CONSTANTS
    Samples,        \* the bits a value may have, as offsets from its field
    MaxSetFields    \* how many parameters may be non-zero at a time

VARIABLE data

Word == 0..255

(* The bits the masks clear.                                               *)
Cleared ==
    [ltv                  |-> 0..15,
     liquidationThreshold |-> 16..31,
     liquidationBonus     |-> 32..47,
     decimals             |-> 48..55,
     active               |-> {56},
     frozen               |-> {57},
     borrowing            |-> {58},
     stableBorrowing      |-> {59},
     paused               |-> {60},
     borrowableInIsolation |-> {61},
     siloedBorrowing      |-> {62},
     flashLoanEnabled     |-> {63},
     reserveFactor        |-> 64..79,
     borrowCap            |-> 80..115,
     supplyCap            |-> 116..151,
     liquidationProtocolFee |-> 152..167,
     eModeCategory        |-> 168..175,
     unbackedMintCap      |-> 176..211,
     debtCeiling          |-> 212..251]

StartBitPosition ==
    [ltv |-> 0, liquidationThreshold |-> 16, liquidationBonus |-> 32,
     decimals |-> 48, active |-> 56, frozen |-> 57, borrowing |-> 58,
     stableBorrowing |-> 59, paused |-> 60, borrowableInIsolation |-> 61,
     siloedBorrowing |-> 62, flashLoanEnabled |-> 63, reserveFactor |-> 64,
     borrowCap |-> 80, supplyCap |-> 116, liquidationProtocolFee |-> 152,
     eModeCategory |-> 168, unbackedMintCap |-> 176, debtCeiling |-> 212]

(* Every MAX_VALID constant is 2^n - 1: n, by parameter.                   *)
MaxValidBits ==
    [ltv |-> 16, liquidationThreshold |-> 16, liquidationBonus |-> 16,
     decimals |-> 8, reserveFactor |-> 16, borrowCap |-> 36, supplyCap |-> 36,
     liquidationProtocolFee |-> 16, eModeCategory |-> 8, unbackedMintCap |-> 36,
     debtCeiling |-> 40]

Numbers == DOMAIN MaxValidBits
Flags   == DOMAIN Cleared \ Numbers
Fields  == Numbers \cup Flags

-----------------------------------------------------------------------------
ShiftLeft(n, k)  == {b + k : b \in n} \cap Word
ShiftRight(n, k) == {b - k : b \in {c \in n : c >= k}}

(* Mutant: the old value is not cleared.                                   *)
ReplacedMutant(f, value) == data \cup ShiftLeft(value, StartBitPosition[f])

(* (self.data & MASK) | (value << START)                                   *)
Replaced(f, value) ==
    (data \ Cleared[f]) \cup ShiftLeft(value, StartBitPosition[f])

(* Mutant: a value one bit too long is accepted.                           *)
ValidNumberMutant(f, value) == value \subseteq 0..MaxValidBits[f]

(* require(value <= MAX_VALID)                                             *)
ValidNumber(f, value) == value \subseteq 0..(MaxValidBits[f] - 1)

SetNumber(f, value) ==
    /\ ValidNumber(f, value)
    /\ data' = Replaced(f, value)

SetFlag(f, on) == data' = Replaced(f, IF on THEN {0} ELSE {})

(* (self.data & ~MASK) >> START, for the word that is given                *)
NumberIn(word, f) == ShiftRight(word \cap Cleared[f], StartBitPosition[f])

(* (self.data & ~MASK) != 0                                                *)
FlagIn(word, f) == word \cap Cleared[f] # {}

-----------------------------------------------------------------------------
(* The values callers may try: none of the bits, the sample bits, all that *)
(* are valid, and one bit too many.                                        *)
Tried(f) == {{}} \cup {{b} : b \in Samples \cap Word}
              \cup {{MaxValidBits[f] - 1}, {MaxValidBits[f]}}
              \cup {0..(MaxValidBits[f] - 1)}

(* Parameters interfere in pairs, if at all.                               *)
RoomFor(f) == Cardinality({g \in Fields \ {f} : FlagIn(data, g)}) < MaxSetFields

ConfigInit == data = {}

ConfigNext ==
    \/ \E f \in Numbers : RoomFor(f) /\ \E value \in Tried(f) : SetNumber(f, value)
    \/ \E f \in Flags : RoomFor(f) /\ \E on \in BOOLEAN : SetFlag(f, on)

ConfigSpec == ConfigInit /\ [][ConfigNext]_data

-----------------------------------------------------------------------------
(* Whatever the word holds, a valid value is read back as it was written,  *)
(* bit by bit: masks, start positions and largest values fit together.     *)
ReadsBack ==
    /\ \A f \in Numbers : \A value \in Tried(f) :
          ValidNumber(f, value) => NumberIn(Replaced(f, value), f) = value
    /\ \A f \in Flags : /\ FlagIn(Replaced(f, {0}), f)
                        /\ ~FlagIn(Replaced(f, {}), f)

(* A setter changes its own parameter and no other one.                    *)
Implemented ==
    [f \in Fields |-> IF f \in Numbers THEN NumberIn(data, f)
                      ELSE IF FlagIn(data, f) THEN {0} ELSE {}]

Parameters == INSTANCE ReserveFields
                  WITH fields <- Implemented,
                       Width <- [f \in Fields |-> IF f \in Numbers
                                                  THEN MaxValidBits[f] ELSE 1]
ImplementsFields == Parameters!Spec
=============================================================================
