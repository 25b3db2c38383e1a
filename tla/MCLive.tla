-------------------------------- MODULE MCLive --------------------------------
(* An instance of LiveAssumptions for TLC.                                 *)
EXTENDS LiveAssumptions

CONSTANTS a1

Bits(n) == {b \in 0..15 : (n \div 2 ^ b) % 2 = 1}

(* A word with a threshold, a bonus and neighbouring bits of other fields. *)
WordOf(threshold, bonus, others) ==
    {b + 16 : b \in Bits(threshold)} \cup {b + 32 : b \in Bits(bonus)} \cup others

(* Sound, a bonus of exactly one, a bonus without a threshold, and the     *)
(* residue of the stable rate and of the portal.                           *)
TestReserves ==
    {[word |-> WordOf(8000, 10001, {15, 48, 56, 58, 60}), stableDebt |-> 0, unbacked |-> 0],
     [word |-> WordOf(8000, 10000, {56}), stableDebt |-> 0, unbacked |-> 0],
     [word |-> WordOf(0, 1, {15, 48}), stableDebt |-> 0, unbacked |-> 0],
     [word |-> WordOf(0, 0, {56, 59}), stableDebt |-> 0, unbacked |-> 0],
     [word |-> WordOf(0, 0, {58}), stableDebt |-> 1, unbacked |-> 0],
     [word |-> WordOf(0, 0, {60}), stableDebt |-> 0, unbacked |-> 1]}

Setting(block, from, step, required) ==
    [block |-> block, from |-> from, step |-> step,
     requireZeroSentinel |-> required, providerKnown |-> TRUE]

(* The defaults, the smallest windows, a target that is named, a later     *)
(* first block, and the mistakes an operator makes.                        *)
TestSettings ==
    {Setting(Unset, Unset, Unset, TRUE), Setting(Unset, Unset, 0, FALSE),
     Setting(2, 0, 0, TRUE), Setting(2, 1, 1, FALSE), Setting(3, 2, 0, TRUE),
     Setting(1, 2, 0, TRUE), Setting(Invalid, 0, 0, TRUE), Setting(Unset, 0, Invalid, TRUE),
     [Setting(Unset, Unset, Unset, TRUE) EXCEPT !.providerKnown = FALSE]}
=============================================================================
